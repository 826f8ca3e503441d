# TLA+ models of ansible-ctrl

ansible-ctrl is an Ansible repository: roles that configure a set of workstations, servers and
routers, and the programs those roles install. Most of it is declarative YAML, whose meaning is
Ansible's. What can go wrong in ways a test hardly reaches is in the programs: launchers that two
clicks start at once, a dispatcher that re-enters itself under sudo and forwards signals, a
synchroniser whose cable comes loose, timers, cron jobs that overlap. These are what is modelled.

Every module says in its comments which program it models; `PROJECT.json` maps every definition to
the source lines it stands for, lists the hazards and names the property that covers each.

## Inventory

| Part | Source | State it keeps | Operations | Interacts through |
|---|---|---|---|---|
| Dispatcher | `bin/playbook.py` | knobs in the environment, hosts listed, credential route, probe result, child process, pending signal | run (refuse, list, secrets, sudo, probe, flag, child), signals | sudo re-entry (environment), the child's process group, the sops store |
| Lutris launcher | `roles/games/files/lutris-launch-game.py` | flock per prefix, pids found, display watched, notification | acquire, decide, hand off, tear down, spawn, wait, report, reap | other runs through flock and SIGTERM, Lutris through D-Bus single instance, `/proc`, xwininfo |
| Bedrock launcher | `roles/games/files/minecraft-bedrock-launch.sh` | flock, outcome of the wait, marker of BedrockOnLinux | lock, look for an instance, clear the marker, play, wait, reap | flock, `flatpak ps`, the marker, the launcher the user opens |
| Retroid synchroniser | `roles/games/files/retroid/syncretroid.py` | library, device tree, manifest of playlists, staged configuration | mirror, prune, push playlists, merge configuration | adb, apps that persist their state on exit |
| Idle backstop | `roles/desktop/files/desktop-idle-input.py`, `templates/desktop-idle-backstop.j2` | stamp file (idle time, heartbeat), dark flag, failure counts | publish, poll, power off, power on, exit | the stamp, systemd restarts, DDC |
| NAS backup | `roles/nas/templates/backupnas` | backup device, dated copies | unlock, mount, copy, copy snapshot, delete old, unmount | rsnapshot's lock file and rotations |
| Torrent scripts | `roles/torrent/templates/{mvt,synct,unrart,orgt}` | watch, completed and incoming directories, locks | upload, synchronise, extract, organise | cron, ssh, flock, rtorrent moving completed downloads |
| Router health | `roles/router/files/router-{dns-healthcheck,pingtest}` | lock, failure window | probe, confirm, restart, kill | cron, systemd |
| Certificates | `roles/letsencrypt_nginx` | certificate, key, nginx configuration | issue, install, renew, reload | cron, nginx |
| Agent rules | `roles/faramir/files/prune-agent-rules.py` | a settings file and its backups | load, prune, back up, replace | the program that owns the file |
| Playlists, thumbnails, 3DS intake, game configuration | `roles/games/files/*.py` | files replaced through `.part` names | parse, convert, replace | - |
| Roles, playbooks, tests, CI | the rest | none of their own | declarative | Ansible |

What makes each correct, and what is hard about it:

- **Lutris launcher.** Two clicks interleave at every system call; what one reads of `/proc` is
  stale when it acts on it; Lutris loses requests handed to it while it quits; processes outlive
  SIGKILL; waits time out. Correct means: one launch per prefix at a time; a teardown never reaches
  a launch in flight; launchers above a session are stopped before their Lutris; leftovers are
  never taken for the new session; a failure is reported, and what is reported agrees with the exit
  code; every click settles.
- **Dispatcher.** sudo resets the environment and starts the program over; signals arrive before,
  during and after the fork; the credential store and the hosts change between two looks. Correct
  means: a credential playbook runs with its credentials or not at all; knobs and hosts hold across
  the re-entry, which happens once; nothing is asked of a run that is refused; a dropped host is
  left alone, which is one guard and no property; the child is never left behind; a signal is not lost.
- **Synchroniser.** Any adb command may fail or stop half way and any run may be killed. Correct
  means: a run that ends well has what the library has; nothing of the user's is deleted because a
  mount was missing; runs converge.
- **Idle backstop.** Reader and backstop die and restart independently. Correct means: a frozen
  stamp never darkens the display; a dark display comes back when someone types, or was tried a
  bounded number of times.
- **Bedrock launcher.** Two clicks race, flatpak lists what was started only later, and the exit code
  of `play` says nothing. Correct means: one game at a time; the marker of a game that runs is not
  cleared and a stale one refuses nobody; a launch that showed nothing is reported.
- **NAS backup.** rsnapshot rotates while the copy runs, and a run may end at any step. Correct means:
  a dated copy is of one snapshot; no copy goes before its successor is whole; a run that ends well leaves
  the device as it was asked to.
- **Agent rules.** The agent writes its settings file when it likes, and a run may be killed. Correct
  means: the file is never torn, what is replaced was copied aside, and only what faramir did not
  record goes.
- **Torrent scripts, router, certificates.** Overlapping cron runs and interrupted runs.

## Modules

| Module | Models | Proofs |
|---|---|---|
| `LaunchGuard` | what any launcher promises its prefix: one launch in flight, and it clears away nothing that is in flight | `LutrisLaunchProofs` |
| `LutrisLaunch` | the runs of `lutris-launch-game.py` on one prefix, with Lutris, the session and the user as environment | `LutrisLaunchProofs` |
| `Playbook` | one invocation of `bin/playbook.py run` with its child and signals | `PlaybookProofs` |
| `SyncMirror` | the trees `syncretroid.py` mirrors onto the sdcard, run after run | `SyncMirrorProofs` |
| `SyncPlaylists` | its playlists and the manifest of them, run after run | `SyncSectionsProofs` |
| `SyncConfig` | its `retroarch.cfg`, per-core files and gamelists, with the apps that write them too | `SyncSectionsProofs` |
| `IdleBackstop` | `desktop-idle-input.py`, `desktop-idle-backstop` and their restarts | `IdleBackstopProofs` |
| `BedrockLaunch` | the runs of `minecraft-bedrock-launch.sh`, with BedrockOnLinux as environment | `BedrockLaunchProofs` |
| `BackupNas` | `backupnas` against the rotations of rsnapshot | `BackupNasProofs` |
| `PruneAgentRules` | `prune-agent-rules.py` against the agents whose files it prunes | `PruneAgentRulesProofs` |
| `MC*` | small instances for TLC | |

### LutrisLaunch

A run is a program counter per click (`pc`), from `acquire` to `done`. The places `decide` to
`unlock` (`Critical`) are the ones where `main()` holds the lock. One action per operation or per
way it can end: `Acquire`, `FindHeld`, `AskInUse` and `Busy` are `PrefixLock.acquire`, `Decide` is
the branch on `session_state`, `BeginHandoff`/`EndHandoff` are `handoff`, `Scan` to `AwaitOwners`
are `teardown` step by step, the `Poll...` actions and `WindowDeadline` are the exits of
`wait_for_window`, `Unlock` is the `finally` clause and `Reap` the end of `main()`.

What a run sees is computed from the state of the world: `sess[l]` says how far the processes that
launch `l` brought up are (`asked` by Lutris, `pre` wineserver, `wine`, window `shown`, or `blocked`:
killed and stuck in the kernel), `bus` which Lutris instance owns the session bus name, `via` which
instance took a request, `child` the `flatpak run` of each run. `prefix_pids`, `session_state`,
`rungame_pids`, `sandbox_ancestors` and `sandbox_pids` become operators over these. Where the code
takes the first thing met in `/proc`, the model takes any. Lutris, wine and the user are external:
their actions (`JoinBus`, `BusQuits`, `SessionMoves`, ...) are the ones the launcher's comments
rely on or guard against.

`Faults` selects what may fail: a launcher killed, Ctrl-C, an `OSError` in the teardown, `flatpak` that
cannot be started, Lutris failing, a process that outlives SIGKILL, an `xwininfo` that fails or runs out of
time and so shows no window (`Windowless`), an instance with two games. Waits are bounded in the code by
seconds; the model lets a wait with a deadline end at any time, so nothing depends on which timer is longer.

`GuardSpec` says that the runs implement `LaunchGuard` (a run is `in` while `Critical`; its victims
are the launches among `targets`).

### Playbook

The steps of `run()` in order, then those of `run_child()` around the fork. A playbook is what the
dispatcher can tell of it: whether it requires credentials, whether a listed role delegates to
localhost, the hosts it targets, and the controller group of the inventory. `Sudo` ends the
operator's process and begins root's: variables of the process (`hosts`, `roles`, `knobs`) are set
again from what `sudo_command` passes. The store is looked at anew at each use and shows anything.
`Terminate` and `Interrupt` may come at any step, once each. `Apply` and `ChildExits` are
ansible-playbook, restricted by the `--limit` and by the assertion of
`tasks/require_credentials.yml`.

### SyncMirror, SyncPlaylists and SyncConfig

They follow the synchroniser over many runs: what one leaves on the device is where the next
begins. The three modules share no state but the run around them: no section of `main()` reads what
another writes, and a section that fails leaves the others to run. The configuration sections, which
share files with the apps, are one module.

`SyncMirror` is `sync_tree()` and the body of the loop of `mirror_roms()`, which take the same steps:
`Enter`, `MakeRoot`, `ReadLibrary` (`local_file_sizes`), `ReadDevice` (`device_file_sizes` and
`empty_source_refusal`), `Remove` once per file, `RemoveEmpty` (`rmdir_empty`), `MakeParents`,
`Push` once per file, `Finish`. They differ in what is pruned (`Pruned`), what is spared
(`Preserved`) and in what a failed read takes with it (`ReadFails`). The code compares files by size
alone, so a content is a size. The sdcard ignores case: a directory has spellings that `Fold` sends
to one, `Landing` is where the device puts a pushed path. Any order of a tree's files and of the
systems is taken; the ROM systems come last.

`SyncPlaylists` has one action per line of the section: `Generate`, `PullManifest`,
`PushPlaylists`, `RemoveStale` once per file, `PushManifest`. A playlist on the device is none, one of
this sync's, one of those cut off, or the user's.

`Faults` selects what may go wrong and `MaxMishaps` bounds how often, over all runs together:
without a bound nothing would ever converge. `CutOff` is what an adb command that fails for good, or
whose run is killed, may have done: nothing, a part, all. That retries within `_read` and `_write`
happen is part of "for good".

`SyncConfig` has `retroarch.cfg` at its two places (`Places`), where `discover_cfg` looks for it and
where RetroArch reads it (`home`) being two questions. A configuration is a function from keys to
whose line there is: none, the role's, or RetroArch's or the user's own. The keys are those the role
sets (`Owned`), those it removes (`Dropped`) and the rest (`Kept`), one of which, `DirKey`, says where the
per-core files are. A per-core file is one of this sync's, one of those cut off after or before its header
(`cut`, `stub`), or one RetroArch saved without the header (`theirs`). `Fetch`, `StopApps`, `Pull`,
`PushCfg`, `PushOver`, `ListStale`, `RemoveStale`, `Pin` are the steps in their order; `PushRefused`,
`WriteFails`, `ReadFails` and `DownloadFails` are the ways out of each. RetroArch and ES-DE are what they
would write on exit (`ra`, `es`): they read their files when they open and write them when they exit,
which may be never, and may be after the run if `StopFails` or the user reopens them. `own` and `beside` are
history: the lines of the user's there are to keep, and whether an app was up beside the run.

### BedrockLaunch

A run is a program counter per click, from `out` to `done`; the places `look` to `window` (`Guarded`) are
those where it has the lock. `Click`, `Held`, `Queue`, `GiveUp` are the taking of the lock, `Look`,
`AlreadyRunning`, `StopWaiting` and `LookAgain` the block on a running instance, `Clear` the loop over the
markers, `Play` the start, `ExitedEarly`, `HasWindow` and `Deadline` the exits of the wait for the window,
`Reap` what is made of the exit code. A session is one run of BedrockOnLinux: a click's `play`, or the
launcher (`Gui`), from which the user may start a game too. It is spawned before flatpak lists it
(`Listed`), marks its game and shows it, and `play` outlives its game by some seconds (`lingers`).
`game_window` takes the first nested display of any of the application's processes, so a window can be
missed while another session is listed, or when processes that a game left behind carry one (`Unseen`).
`disturbed` is history: the runs that were killed, or over which a session appeared that no lock guards.
`GuardSpec` maps the runs to `LaunchGuard`, with the owner of the marker that is about to be cleared as the
victim.

### BackupNas

A run from the checks (`Refuse`, `Begin`) over `Mount`, `MakeDest`, `Mirror`, `Enter`, `Copy`, `ListOld`,
`Delete`, `Unmount` and `LockDevice` to `Exit`. `BeginOnly` is a run that only opens the device or only
closes it; `mode` is what the last run was asked, `cleanup` the script's `CLEANUP_FAILED`, which decides how
it ends. A snapshot is known by its date; `weekly` says which one each `weekly.N` names, which `Shift` and
`Promote` change at any time, in the middle of a rotation too, and `newest` is the last one made. The run
keeps a path (`slot`), a date it has named its directory for, and, once it is inside, the snapshot itself
(`inode`): three things that a rotation between two steps makes disagree. `ListOld` takes what there is
beyond the retention, and `Delete` the oldest of them first. A dated directory is the snapshots it has
something of and whether it is whole. `Ended` is the `ERR` trap or a kill, with what the step had done by
then (`CutOff`).

What is abstracted: the lowest interval, which rsnapshot writes into, is not weekly; no two snapshots have one
date; no copy takes as many weeks as rsnapshot keeps snapshots; one backup runs at a time.

### PruneAgentRules

A run takes the files of the record one by one: `Skip` or `Load`, then `Copy`, `Stage` and `Replace`. A
document is its deny list, a set of rules or `NoList`, and `edit`, which stands for everything else in it
and tells a younger document from an older. The agent reads its file, thinks (`writing` is what it is about to
write) and replaces the file or truncates and writes it, at any time; a file that is being
written in place is `Torn`, and `os.replace` under a writer leaves it writing a file without a name.
`Denied` is a `PermissionError`, which skips the file, `Ended` any other error or a kill, which ends the run;
the next finds the temporary file. `Install` is faramir, which renders other rules and records them
between runs. One run at a time is assumed: the playbook starts it.

### IdleBackstop

Two programs that share a stamp. The reader is up, down or hung; `quiet` is its `now - last_input`,
and `Publish` writes it with a heartbeat, whose age is `beat`. The backstop is its program counter:
`read` is the poll (`ReadFailed`, `ReadIdle`, `ReadActive` are its three branches), `off` and `on`
are the commands that write to the panels, `mark` the assignments after the first, `finish` the
handler of the trap, `down` the time until systemd starts it again. `lit` is what the panels do and
`dark` what the backstop takes them for; most of what can go wrong is the two coming apart. The person,
the devices, the clock and the panels are the environment.

Time is counted in ticks. A tick is as long as the reader takes to rescan the devices (5 s), so that
an up reader publishes in every one (`due`) and a plugged device is watched by the next; the stamp's life
of 10 s is two. While the panels are lit the backstop polls at any pace, be it 30 s or the 10 s of a
restart, and a write takes any time; while they are dark, where it polls every 2 s, no tick passes without a poll
(`ticked`, `Awaited`). `Writes` is what a
command that writes to the panels may come to: over DDC any of the panels take it, elsewhere all
or none do. `back` is a history variable, the time since the person came back after a threshold's worth
of silence; only properties read it. So is `spared`: the panels that are taken for dark although the last write to
power down did not reach them, or although one to power up has lit them.

What is abstracted: which events count as input; a hung reader keeps its devices (they are not
plugged or unplugged while it hangs), and it does not hang between taking the time and writing the
stamp; a step of the wall clock is longer than the stamp's life and, if backwards, than any hang.

## Runs

| Run | Instance | Shows |
|---|---|---|
| `launch_faults` | two clicks, two games in one prefix, one under gamescope, one with a hand-off, every fault; 670 000 states | `LaunchersWarnedFirst`, implementation of `LaunchGuard` |
| `launch_clicks` | three clicks on one game, symmetric, processes that outlive SIGKILL, windows not seen; 1.4 million states | `SurvivorsIgnored`, `NoUnwaitedInstance`, `ReportsAgree` |
| `launch_live` | two clicks, Lutris may fail or hang, `flatpak` may not start, runs may be killed; fair runs; 200 000 states | `ClickSettles` |
| `bedrock_clicks` | two clicks and the launcher, runs and sessions killed, games that fail, leftovers that hide a window, three mishaps, fair runs; 220 000 states | `OneGame`, implementation of `LaunchGuard`, `MarkerJudged`, `SilenceMeansShown`, `ClickSettles` |
| `playbook_run` | two hosts, one of them the controller; every playbook, knob, user, signal; fair dispatcher | `CredentialedOrRefused`, `SameRun`, `AsksInTime`, `NoOrphan`, `TermPassedOn`, `RunGetsThere` |
| `mirror_runs` | an additive tree and a ROM system with a file of the firmware's and a directory of two spellings; three mishaps; 5.4 million states | `DoneMirrored`, `NextRunIdle`, `PruneSparesLibrary` |
| `mirror_live` | two ROM systems, every fault, fair runs; 840 000 states | `Converges` |
| `playlists_runs` | three playlists, four mishaps, fair runs | `ListedUntilGone`, `StaleGoes` |
| `config_runs` | a key of each kind, a per-core file, a system, three mishaps of any kind, fair runs; 840 000 states | `LinesNotLost`, `DoneRight`, `HeaderlessSpared`, `Converges` |
| `idle_backstop` | two panels, the three mechanisms, a threshold of five ticks, failing writes and two other mishaps, fair runs; 950 000 states | `NoPanelForgotten`, `FrozenNotBelieved`, `FollowsPerson`, `BlindLetsGo` |
| `nas_backup` | rotations, runs that fail, are killed, cannot unmount or lock, or only open or close the device; three of these; fair runs; 320 000 states | types, `OneSnapshot`, `DoneAsAsked`, `KeptUntilCopied`, `NewestCopied` |
| `prune_rules` | agents, a record that changes, runs killed, failing and denied, fair runs; 1.1 million states | types, `NeverTorn`, `SoundReplacement`, `Exact` |

The other type invariants, `OneLaunch`, `NothingInFlightTargeted` and `DoneListed` are proved for every
value of the constants and not run again. Some properties are conjunctions of two that only together say
what is meant: `ReportsAgree` (`FailureReported`, `ReportedIsFailed`), `SameRun` (`KnobsReachTheRun`,
`ListsItsOwn`), `AsksInTime` (`RefusedBeforeAsking`, `PromptsForController`), `MarkerJudged`
(`LiveMarkerSpared`, `StaleNeverRefuses`), `SoundReplacement` (`ReplacedAside`, `RecordedStay`) and
`FollowsPerson` (`QuietGoesDark`, `TypistGetsLight`).

### Why the bounds are enough

The interactions of the Lutris launcher are pairwise (holder and waiter, new
launch and leftover, new launch and the instance of an old one); the third click adds a leftover
of a leftover. Two games distinguish "same game" from "same prefix". In `launch_clicks`
the failures that would themselves leave a run unreported (`spawn`, `lutris`) are off: `ReportsAgree`
holds without them only, see below; so is `crash`, with which three clicks are more than TLC does in
minutes, and `NoUnwaitedInstance` is proved with it. The Bedrock clicks meet in the lock and in what flatpak lists: two
are a holder and one who comes after, and the launcher is the session nobody guards. In the dispatcher,
two hosts are one that is the controller and one that is not; a playbook targets any subset.

In the synchroniser two mishaps suffice for a run that is cut off and a change of the library before
the next; three allow a second run to be cut off while it repairs the first, or a tree to be
unmounted and back. A tree has a file that is pushed, one that is pruned and one that is spared, and
sizes 0 (torn) and 1 (whole): a torn file is told from a whole one by its size and what a size cannot
tell, a file replaced by another of the same size, the code does not promise either. In
`retroarch.cfg` the keys do not meet but for the one that names the directory of the per-core files, so
one of each kind is enough; so are one per-core file and one system.

In the synchroniser's `mirror_live` two systems are the one whose read fails and the one that is left out
with it.

In the backstop the threshold of five ticks is longer than the stamp's life of two and the two failed reads
after it. With a shorter one, devices unplugged and back within it could hide an input from a backstop that has not given up
yet, and it would hold panels dark over a person it never saw; with the code's constants, seconds against minutes, it
cannot. A stamp can still be believed, stale or outlived by the person's return in every combination. Two failures and two
attempts are the least that tell the first, the last and a reset apart. Two panels are one that takes a
write and one that does not. Two mishaps are a reader that is lost and a backstop that is killed or
stopped meanwhile; writes may fail any number of times.

In the backup two weekly slots make a snapshot that is renamed and one that is rotated away, a retention
of two a copy that is kept beside the new one and one that goes, and four dates two rotations beyond the
first two snapshots. The pruning handles each file by itself, so one file is enough; two rules are one the
record keeps and one it does not, and two edits let the agent write before and after a run has read.

### Fairness

`launch_live` assumes weak fairness of the steps of each run only: a run polls and its
clock advances whatever others do. Nothing says that Lutris, a game or the user ever moves, so the
property shows that the deadlines are what ends the waits. `bedrock_clicks` likewise, and that flatpak
comes to list what was started; no game is assumed to show a window or to end. `playbook_run` assumes it
of the dispatcher; the child may run for ever, which is why `RunGetsThere` ends at the wait for it.

`mirror_live`, `playlists_runs` and `config_runs` assume that a run goes on until it ends and that the
operator runs it again, which is what "re-run to resume" asks of them; nothing is assumed of the
cable, the library or the apps. `nas_backup` assumes that a run goes on, that cron starts the next, that
a rotation that has begun ends, and, as a strong fairness, that runs are started outside of rotations
often enough for one to begin (a run that finds rsnapshot's lock refuses). `prune_rules` assumes that a run
goes on and that the playbook is run again, not for ever with `--check` (strong fairness, since which of
the two is run changes); the agent need do nothing.

`idle_backstop` assumes that time passes, that an up reader publishes (its loop wakes every second), and
that the backstop polls and is restarted (`Restart=always`). How often it polls
while the panels are dark is not fairness but pacing, as above. It does not assume that a reader that died
or hangs comes back: the properties say what happens when it does and when it does not.

### Deadlock

Deadlock is checked for the synchroniser, the backstop, the backup and the pruning, which go on for
ever, and not for the launchers and the dispatcher: every run of these programs ends, and when all
have, nothing is left to do.

### Disagreements found

Places where the code does other than a comment or a document of it says, met while modelling. They
are stated here and are not runs; where a property would fail by one of them, its definition or its run
says what it excludes.

Launchers:

- `session_state` asks only the first gamescope display it meets. A leftover that is stuck in the
  kernel may carry one and hide the display with the window, so a running session is torn down.
- A launch reported as failed whose Lutris is terminated afterwards exits 0, although the comment above
  the exit says that a reported failure is one whatever Lutris returned (`ReportedIsFailed` with the
  fault `lutris`).
- `rungame_pids` takes for an instance only what carries the application's `FLATPAK_ID`; a `flatpak run` that has just
  been started does not yet. The model has it found at once: the moment between is not modelled.
- When `flatpak` cannot be started the Lutris launcher ends with a traceback and shows no failure; so
  `FailureReported` is checked without that fault.
- The Bedrock launcher reads the outcome of a wait that ran out from the exit code. A `play` that ends
  between the last poll and the deadline with 0 leaves the click silent though no window was seen
  (`late` in `SilenceMeansShown`).
- A launcher opened, or the game of a killed run listed, between the check and the loop that clears the
  markers has the marker of its live session cleared as stale (`LiveMarkerSpared` is about guarded
  sessions). A click may also take the window of such a session for its own.
- A `flatpak ps` that fails reads as nothing running, and a window that a game left behind can be taken for that of
  the game that was asked for. Neither is modelled.

Dispatcher:

- A Ctrl-C after the handlers are installed and before the fork is discarded; a SIGTERM is held.

Synchroniser:

- A failed read of the device raises `SystemExit`, which the loop over the systems does not catch: the
  systems after it are left out and those that failed before are not named.
- A run killed after it pushed the playlists and before the manifest leaves playlists
  nobody lists; if their system then leaves the table they stay. `StaleGoes` is therefore about the
  playlists that are listed.
- The manifest goes by name: a playlist the user has put in the place of a generated one is removed
  with it once its system leaves the table.
- In a tree that is only added to, a directory renamed by case alone is pushed again by every run: the
  old one is there, the pushes land in it, and the device lists them under the old name. The pruned
  trees remove the emptied directory first, which is what `NextRunIdle` is about. That the removal
  fails unnoticed costs such a tree another run, so `NextRunIdle` is checked without that fault
  and `Converges` with it.
- A push of `retroarch.cfg` to the place for all-files access that is cut off leaves no file there;
  the next run then finds none, creates one among the app's own files and from then on takes that one,
  though RetroArch reads the other.
- After a push that was cut off, the next run merges into what is on the device and says `Done`; the
  user's lines are then only in the staging directory that the first run kept. A run that is killed
  during the push keeps none, and the lines are lost.
- A per-core file cut off before its header is taken for the user's, and one in a directory the
  configuration no longer names is not looked at: neither is ever pruned.

Backup:

- A rotation between the look at a snapshot's date and the change into its directory puts a younger
  snapshot in a directory named for an older date, and removes what differs in a whole copy that was
  there; the comment at the deletion says that old copies go only after a new one is complete.
- A dated directory of a copy that failed counts toward the retention, so that it may displace an older whole
  one. `KeptUntilCopied` says that a younger whole one is there by then.
- Two snapshots of one date overwrite each other's copy.

Agent rules:

- An edit by the agent between the copy and the replacement is lost, and is not in the backup either.
- Two runs at once would share a temporary name, and one that read the record before an install prunes by
  the old one.

Backstop:

- `dark` is set after `power_off` returns, so a stop that arrives while it runs ends the backstop with
  the panels off, although the comment at `finish` says that they come back up "however it is stopped"
  (`NoPanelForgotten` with the fault `stop_off`).
- The comment at `ddc_setvcp` says that a panel that did not answer "is retried by the caller rather than counted as
  dark". The caller counts it as dark, and its own comment says so: a panel that a write to power down did not reach stays
  lit for as long as nobody comes. Likewise one that was lit by a wake which another panel missed: if the person leaves
  again before the next attempt, `dark` still holds and it is not powered down. Both are `spared` in `QuietGoesDark`.
- `ddc_setvcp` answers for the displays `ddcutil detect` lists. When one of two panels does not answer the
  bus, the write to the other is taken for a whole one and the backstop stops trying
  (`NoPanelForgotten` with the fault `detect`).

## Proofs

All proofs hold for every set of runs, hosts, names and faults.

- `LutrisLaunchProofs`. `TypeCorrect`; then `LaunchInvariant`: `LaunchInv` is inductive. The
  exclusion needs `HolderOnly` (who is in `Critical` is the lock's holder). That a teardown reaches
  nothing in flight needs in addition that nothing of a launch exists before it is spawned
  (`FreshUntilSpawned`) and that targets are kept only inside a teardown (`TargetsInTeardown`):
  while the holder is in its teardown, any other run with processes has left `Critical`, and a run
  that enters it later has none yet. `LaunchersWarnedFirst` needs that an owner found is a run that
  has spawned (`OwnersStarted`) and so never starts again once stopped. `ImplementsGuard` maps
  every step to a step of `LaunchGuard` or a stutter; it assumes a runtime directory, without which
  the code says it launches without the guard.
  What a run sees of earlier ones is a second invariant, `TeardownInv`: an instance of the game with
  processes is among the owners the teardown found (`InstancesFound`), a process stuck in the kernel is among
  its targets and then among the survivors it returns (`BlockedKnown`), and no display is watched before the
  wait (`DisplayLater`). `NoUnwaitedInstance` and `SurvivorsIgnored` follow. Both assume a runtime directory,
  since a run without a lock is not alone, and no `OSError` in the teardown, since `main()` then goes on without
  the lists it would have returned.
  `ReportsAgree` has two halves. That a failure is told needs that neither the exit code nor the window is
  settled while there is something to wait for (`Unsettled`) and that an end that is certain to be
  unsuccessful has been told (`FailureDue`); that what was told is a failure needs `ToldFails`, that
  only the interrupt of a run kills its Lutris (`KilledInterrupted`), and `BusRuns`. The faults each assumes away
  are those for which the code does otherwise, listed above: `spawn` and `interrupt` for the first, `lutris`
  for the second. Crashes, failed teardowns and stuck processes are allowed.
  `GuardPromise` proves of `LaunchGuard` alone what it promises, and `RunsKeepPromise` is what the
  refinement carries over to the runs.
- `PlaybookProofs`. `PlaybookInvariant` and from it the four safety properties, two of them conjunctions. The re-entry is
  the difficulty: `ReentryKeeps` says that what sudo is given is what the operator's process had,
  `ReentryOnce` that who comes back is root with hosts and so cannot reach `sudo` again;
  `RouteSettled` and `PromptSettled` carry decisions to the child; `ChildInPlace` ties the child to
  the program counter.
- `SyncSectionsProofs`, the playlists. `PlaylistsInvariant`: `PlaylistsInv` is inductive. `ListedUntilGone` needs
  `StaleCovers` (whatever the manifest lists beyond what is generated is on the list to remove, or
  gone) and `NothingLeft` (that list is empty when the manifest is written); `DoneListed` needs
  `Pushed`, and `StaleApart` for it not to be undone by the removals. Faults are any subset, so the
  theorems hold with a command cut off anywhere.
- `SyncMirrorProofs`. `TypeCorrect` rests on `SpellingInv`: what is to be pushed or made is spelled as
  the library spells it, which is why the order in which a listing, the removals and the pushes use the
  two spellings matters. `PruneSparesLibrary` needs `ListedWhole`, that a listing that passed
  `empty_source_refusal` is of all there is but what could not be read, and `DoomedGone`, that the list
  to prune, computed once, stays true while it is worked through; the second is where a library edited
  during the run would break it, and the theorem assumes that away.
  `DoneMirrored` rests on `MirrorInv`: the listing is still that of the library (`ListedRight`), the prune
  leaves what was listed (`FoundKept`), what need not be pushed, or has been, is where a push of it would land
  (`PushedRight`), and a tree that is mirrored is not touched again (`MirroredRight`). The difficulty is two
  pushes that land in one place: `LandApart` excludes it, because a listing has one spelling of a directory.
  A library edited or remounted under the run is assumed away, as its listing would be out of date.
  `NextRunIdle` needs `IdleInv` in addition: once the prune is over there is nothing but what was listed
  (`NoStrays`) nor any directory but of that (`NoStrayDirs`), so that every push lands under the very path the
  next run will look for. It assumes that the removal of empty directories works, and that files of the firmware's
  are on top (`PreservedOnTop`), where the firmware puts them: one in a directory that is renamed by
  case alone would keep the old spelling, and the tree would be pushed again by every run.
- `IdleBackstopProofs`. `TypeCorrect` with `Bounded`: each counter is below its bound whenever another
  poll may come. `FrozenNotBelieved` rests on `HonestReader` (a reader that is not behind has missed no
  input since `last_input`) and `HonestStamp` (a stamp that is believed and says idle was true no
  longer ago than its age); both hold with every fault. `NoPanelForgotten` is inductive as it stands and
  assumes that the bus lists every panel and that no stop comes while one is powered down.

- `SyncSectionsProofs`, the configuration. `TypeCorrect`. `LinesNotLost` needs that the text a push is made of is still what it
  replaces (`FreshRead`), which in turn needs RetroArch closed from the stop on (`ClosedDuring`), that an
  open RetroArch has every line it will write over (`OpenKnows`), and that the place it does not read is
  empty until it is granted the access that moves it (`OneHome`). `HeaderlessSpared` needs that
  what the listing found still begins with the header when it is removed (`PruneInv`). An app up beside a run
  is the case both except. `DoneRight` needs `RightInv`, which follows a run beside no app from
  section to section: what was read is what the push replaces (`CfgRead`), the configuration is merged from
  then on (`CfgRight`), the per-core files are there (`OverRight`), the prune has found all that is to go and
  nothing the role stages (`StaleFound`), and the gamelists follow (`PinRight`), each as long as no section
  has failed. The merge leaves `DirKey` alone, so the directory the files went to is the one the next run will
  look in (`MergeDir`). For every set of keys, files, systems and faults.
- `BedrockLaunchProofs`. `BedrockInvariant`: nothing of a click exists before it plays (`Unstarted`), a
  session that flatpak does not list yet is the lock holder's (`SpawnedHeld`), so who has looked and found
  nothing is alone (`AloneGuarded`, `AloneListed`), and the marker is not that of an undisturbed
  session from when it was cleared until the next one writes it (`MarkerAway`). From it `OneGame`, `MarkerJudged` and
  `SilenceMeansShown`, and `ImplementsGuard`, the second implementation of `LaunchGuard`.
- `BackupNasProofs`. `TypeCorrect`; then `BackupInv` is inductive, for every number of slots and dates and
  every retention. rsnapshot renames and never brings an older snapshot to a younger one's place
  (`NewestFirst`), so the path a run has taken names nothing older than any copy (`PathIsNewest`), the directory it
  is in has the youngest name there is and what its path has come to name is no older (`NamedNewest`); with
  that no two snapshots meet in a whole copy (`OneSnapshot`), and what is old when it comes to delete has a
  retention's worth of younger ones (`KeptByNow`, with the library's facts on cardinalities). `DoneAsAsked` needs what
  is known of the device at each place (`OpenKnown`): open from the mount on, and at the end as asked unless
  `CLEANUP_FAILED` says otherwise.
- `PruneAgentRulesProofs`. `TypeCorrect`; then `PruneInv`: what a run has read of the record is true
  (`RecordRead`), what it loaded is what the file holds unless the agent has written since (`LoadedTrue`) and
  so is what it set aside (`SetAside`), and what lies under the temporary name when it replaces the file
  is what it staged, not what a run before it left (`Staged`). `NeverTorn` and `SoundReplacement` follow, with
  every fault.

Assumptions on constants, each a named `ASSUME` of its module: the user's Lutris, the launcher and the
"nobody" values are not runs; `RuntimeDir` is Boolean; the controller is in the inventory; ROM systems are
pruned trees; a file may be spelled with every spelling of its directory, and the root of a tree has one only;
the keys that are left alone are neither set nor dropped; bounds and counts are natural numbers, the code's own positive;
values that stand for no list, no writer or a file half written are none of the values they stand beside.

Every safety property a run checks is proved, under the assumptions named above. Only model-checked are
the liveness properties, whose fairness is out of the prover's reach: `ClickSettles` of both launchers,
`TermPassedOn`, `RunGetsThere`, both `Converges`, `StaleGoes`, `FollowsPerson`, `BlindLetsGo`, `NewestCopied` and
`Exact`. The strengthened invariants were checked by TLC on the instances of the runs before they were proved.

## Plan

1. `LutrisLaunch` with `LaunchGuard`, then `Playbook`, with their proofs. Done.
2. The synchroniser: `SyncMirror`, `SyncPlaylists`, `SyncConfig`, with their proofs. Done.
3. `IdleBackstop`: reader, backstop, restarts, with its proofs. Done.
4. `BackupNas` against rotations, with its proofs. Done.
5. `BedrockLaunch` as a second implementation of `LaunchGuard`, with its proofs. Done.
6. `PruneAgentRules` against the agents, with its proofs. Done.
7. Safety parts of the liveness properties that can be stated without fairness: what a run of the backstop has
   tried before it lets the panels go, what a rerun of the synchroniser leaves to do.

## Not modelled

- The torrent scripts. What decides whether they are right is when rtorrent, scp and the remote shell
  are done with a file; nothing in the repository fixes that, so a model would be mostly assumption.
- The router's health checks: one process under one lock that keeps nothing from one run to the next; what
  they guard against is a matter of seconds rather than of order.
- Issue and renewal of certificates: one script in a row, and Ansible tasks.
- Generation of playlists and thumbnails, 3DS intake, the game configuration scripts, the gamescope
  wrappers: sequential programs that own their files, whose difficulty is parsing, conversion and
  names.
- In the configuration sections, what an app that is up writes between a read of the run and the write that rests on it
  (`Pull`, `ListStale` and `Pin` are single steps); the properties except runs beside an app. Of a gamelist only the
  emulator is kept: the entries of its games, which a push that is cut off loses, are not followed.
- Of the modelled programs: the reading of Lutris' database and of YAML, what settings are
  chosen, how a document is spelled, the wording of banners and logs. A dry run or `--check` writes
  nothing.
- Roles, playbooks and templates of configuration files: their semantics is Ansible's and the
  configured programs'.
- Tests, linters and CI, documentation.

# Verification of it-toolbox

it-toolbox is a PySide6 desktop application: a tree of servers (GCP, QEMU hosts,
saved connections, routers) from which one opens terminals, RDP, SPICE and file
sessions, most of them through tunnels; next to it, cloud-storage mounts, server
administration and small tools.  The project in this directory models the parts
of it that run concurrently, in TLA+, checks them with TLC, and proves some of
the results with TLAPS.  Sources are named relative to `src/src/it_toolbox/`.

What the models show, in short:

* One tunnelled connection delivers in each direction a prefix of what was written, with
  one exception: what comes in one message with the relay's answer, behind it, is thrown
  away by the code.  It keeps its resend buffer exact against any acknowledgements, owes the relay a
  bounded number of them, connects in bounded time (all proved) and always cleans up.
* Tabs, tunnels, session tables and the list window stay in step whichever of
  user, session and quitting closes what, and no tunnel is stopped twice (proved);
  every start, stop and quit ends.
* An RDP session loses no input, no wake-up and no paint between its three
  threads (proved).
* A mounted remote is never lost track of, and unmounting waits for its uploads (both
  proved), except in the cases listed under *Findings* and *Hazards*.
* A SPICE session sends the last mouse position and every click where it was made,
  and keeps the guest's clipboard that of the host (both proved), leaves no row of the
  picture out of date, and its helper process ends with its tab (proved, with one
  exception) and with the app.
* A restore of the configuration, an update of the app and a set-up of the Linux
  tools can be interrupted anywhere: the old configuration is kept, an app remains,
  and incomplete tools are not taken for ready (all proved), each with the
  exceptions that section 2 names.
* A frame of an RDP session is drawn by whoever has it, also when the GPU view gives up
  (proved); the desktop comes to have the size of its window and pastes what was copied
  last.  A terminal feeds and draws all that its
  program prints, and stands still only where a paste meets a program that echoes.
* What the user enters (connections, remotes, settings, machines, networks, users,
  tasks) is what is kept and done, and lists come to show it; section 2 names, part by part, the
  executions in which they do not, a display or boot order saved for a running machine
  among them.
* A remote administration tab loses no SSH connection (proved); file transfers use
  their connection one at a time; a stress test leaves nothing on the server; the
  ProFTPD helper's records, mounts and owners stay in step.
* The account, the tree and the mailbox tab end up showing what is chosen now,
  whatever answers come late (proved, with the exceptions of section 2).
* Six statements of the code's own comments do not hold; each has a run that
  finds the execution.

## 1. The system

| Part | Code | State | Operations | Interacts with |
|---|---|---|---|---|
| IAP tunnel protocol | `core/iap_tunnel.py` | session id, byte counters, unconfirmed chunks, receive buffer, websocket | connect with backoff, two pump tasks, acknowledge, close | local TCP client, Google's relay |
| Background tunnel | `core/tunnel_session.py` | a thread, its asyncio loop, ready event, serve task | `start`, `stop` | IAP tunnel; called by sessions on pool threads and on the main thread |
| SSH / QEMU tunnel | `core/ssh_tunnel.py`, `core/qemu_tunnel.py` | an ssh child process, a port | `start`, `stop`, dies on its own | sessions |
| Thread pool helper | `core/async_utils.py` | queue, at most 16 threads, runnables kept alive | run a function, deliver result or error on the main thread | every view |
| Connection sessions | `modules/connection_manager/ui/main_view.py`, `ui/active_sessions_dialog.py` | four tables: tabs, widgets, tunnels, list window; next id | connect, open, close, finish, disconnect, stop all on quit | tunnels, widgets, pool |
| RDP session | `core/rdp/rdp_session_worker.py`, `widgets/rdp_widget.py`, `widgets/rdp_gpu_view.py` | input queue, wake event, flags for the frame, the widget's image, the view's texture | queue input, drain, pump, paint, copy, show, stop | FreeRDP (C library, own threads), sessions |
| FreeRDP client | `core/rdp/freerdp_client.py`, `disp.py`, `cliprdr.py` | a context, two channels, framebuffer and desktop sizes, clipboard text | connect, resize, offer and give text, end | RDP session, the server |
| Cloud mounts | `core/rclone_mount.py`, `modules/cloud_storage/ui/main_view.py` | table of `rclone mount` processes, busy marks | mount, unmount, remove, purge the dead, unmount all on quit | rclone processes, pool |
| Cloud remotes | `core/rclone_client.py`, `modules/cloud_storage/ui/*`, `widgets/rclone_browser_widget.py` | rclone's configuration, a wizard's page, a tab's folder and rows | add a remote question by question, list, browse, upload, delete | rclone, pool |
| SPICE session | `core/spice/*`, `widgets/spice_widget.py` | GLib loop on a thread, pending mouse position, dirty rows, clipboard text, agent's state | start, stop, input, frame, clipboard, resize | SPICE library, sessions |
| Linux helper over WSL | `core/wsl/*`, `wsl_helper/*`, `core/spice/remote_spice_worker.py` | child process, socket, stopping flag | handshake, messages, stop | WSL, SPICE widget |
| gcloud account | `core/auth/*`, the settings page, the connection manager, identity management | the account each view shows, their lists of projects | sign in and out, check, list, select projects | gcloud on the pool, an event to all views |
| Connection tree | `modules/connection_manager/ui/main_view.py` | per item: what is loaded, a loading mark | expand, refresh, rebuild, power action, poll | pool, Google's API, QEMU hosts |
| File clients and browsers | `core/ftp_client.py`, `widgets/*browser*` | one connection, a queue of transfers | connect, navigate, upload, download, close | pool |
| Stress tests | `core/sftp_stress_test.py`, `core/ftp_stress_test.py` | worker threads, a folder on the server | prepare, run, stop, clean up | servers |
| Saved connections and logins | `modules/connection_manager/ui/manage_*_dialog.py`, `models.py`, `gcp_client.py`, `core/settings.py` | three lists of connections, the login of an instance, secrets encrypted to an SSH key | manage, remember, reset a password, upload a key | tree, Google's API, sessions |
| Configuration | `core/settings.py`, `core/config_backup.py`, the settings page | JSON files | load, save, export, restore | every part |
| Updates | `core/update_checker.py` | the app's bundle, its backup, a script left behind | check, download, exchange the bundles | GitHub |
| WSL set-up | `core/wsl_distro.py`, `core/linux_backend.py`, the settings page | a WSL distribution, a version file, the cached backend | install, update, remove | wsl.exe, tree |
| Remote administration | `core/remote_helper.py`, `widgets/remote_helper_widget.py` | a tab's connection | connect, reconnect, single remote commands, close | ssh |
| Hosting manager | `core/hosting_manager.py`, `widgets/hosting_*.py` | the site chosen, its panels, polls, an import | choose, change, back up, restore, move, import | the server's own jobs |
| Scheduler manager | `core/scheduler_manager.py`, `widgets/scheduler_*.py` | three lists, a latch, a timer | load, change, import | the server |
| ProFTPD manager | `core/proftpd_manager.py`, `widgets/proftpd_manager_widget.py` | lists of users and groups, a follower of the log, a timer | change users, follow traffic, kick | the helper script |
| Cockpit machines | `modules/cockpit/ui/main_view.py`, `core/cockpit_machines.py`, `core/ssh_key_install.py` | a list in a file, a tree, checks under way | add, edit, remove, detect, install a key | the managers' tabs |
| ProFTPD helper script | `resources/proftpd/cockpit-proftpd-helper` | a database, mount units, mounts, owners | users, groups, virtual directories | systemd, the server tab |
| QEMU machines | `qemu_client.py`, `qemu_provisioning.py`, `ui/create_vm_dialog.py`, `ui/configure_vm_dialog.py` | a dialog and what it was filled with | deploy, configure | virsh on the host, tree |
| Identity management | `modules/identity_management/` | a key, lists, the page of a device or project | refresh, select, search, sign out | JumpCloud, gcloud |
| Router dashboard | `glinet_client.py`, `widgets/glinet_dashboard_widget.py` | four lists, an edit dialog; a session of the router per call | load, edit a network, reboot | routers, pool |
| Readers | `core/mbox_reader.py`, `widgets/mbox_browser_widget.py`, `core/eml_reader.py` | an open file, a query, a selection | index, search, load, close | pool |
| Terminals | `widgets/terminal_widget.py`, `widgets/pty_backend.py`, `modules/shell_launcher` | a child process, a pty, two screens, modes, a timer | type, paste, print, draw, resize, end | sessions |
| Shell of the application | `app.py`, `modules/registry.py`, settings pages | pages, theme | navigate, quit | all |

What is hard in it: five kinds of threads (Qt's main thread, its pool, asyncio
threads, session threads, library threads) that share objects mostly without
locks; results that arrive after the thing they belong to is gone; child
processes that die on their own or outlive the program; nested event loops
(message boxes, menus); stops with timeouts; and quitting in the middle of it.

What makes each part correct:

* *Tunnel*: a pipe; acknowledgements neither lost nor owed; bounded connecting;
  both ends closed on every way out.
* *Sessions and tunnels*: tables agree; nothing closes a session but its own
  end; a tunnel is stopped once, and does end; nothing waits for ever.
* *RDP*: order and completeness of input; the newest frame is shown; no
  sleep on work; ends are reported.
* *Mounts*: no untracked process, one process per folder, uploads before the
  stop, nothing busy for ever, nothing left after the program.
* *SPICE, helper*: the same as RDP for input and frames; a stop at any moment
  ends the thread and the helper.
* *Tree*: no data of a former account, no result on an item that is gone, no
  load lost or doubled.
* *Configuration, update, Linux tools*: after a crash, what there was before is in
  place or can be put back, and what is half made is not used.
* *File tabs, administration tabs, stress tests*: a connection is used by one
  thread at a time and closed at last; nothing is left on the server.
* *ProFTPD helper*: what the database records is what is mounted, by whom it may
  be written, now and after a reboot.
* *Managers (hosting, scheduler, ProFTPD, Cockpit)*: nothing is done to another
  site, machine or user than the one shown; a list comes to show what was done; what
  runs on the server is followed.
* *Dialogs (connections, settings, machines)*: what is accepted is what is stored or
  made, and nothing else changes with it.
* *Terminals, RDP's desktop*: nothing printed is lost or left undrawn, and the
  sizes of window, buffer and remote end come to agree.

## 2. Modules

| Module | Models | Needs |
|---|---|---|
| `DuplexPipe` | abstract: what a forwarded connection promises | |
| `IapTunnel` | one tunnelled connection | `INSTANCE DuplexPipe` |
| `IapTunnelProofs` | theorems about `IapTunnel` | `EXTENDS IapTunnel` |
| `ConnectionSessions` | sessions, background and ssh tunnels, thread pool, quitting: the composition of four components | |
| `RdpSessionWorker` | RDP session thread, FreeRDP's painter, the widget | |
| `MountManager` | mounts, rclone processes, the cloud view, quitting | |
| `SpiceInput` | mouse moves and clicks across two threads | |
| `SpiceDisplay` | dirty rows, throttle, frames, canvas | |
| `SpiceAgent` | the guest's agent: clipboard and size; the finding about the size | |
| `SpiceHelper` | a session in the Linux helper: two processes, five threads; theorems | `TLAPS` |
| `ConfigFiles` | saving, backing up and restoring the configuration | |
| `StressTest` | one run of the SFTP or FTP server test | |
| `HelperTab` | the connections of a remote administration tab | |
| `FtpBrowser` | a tab of the FTP and SFTP browser | |
| `GcloudAccount` | the account in three views | |
| `ConnectionTree` | the requests of the connection tree's items | |
| `MboxBrowser` | a tab of the mailbox browser | |
| `AppUpdate` | the update of the app on macOS; theorems | `TLAPS` |
| `ProftpdHelper` | the privileged helper of a ProFTPD server | |
| `WslDistro` | the WSL distribution with the Linux tools; theorems | `TLAPS` |
| `HostingSites`, `HostingImport` | the Sites tab of the hosting manager; its import wizards | |
| `HostingPanels` | its tabs about the whole server: databases, malware scanning, intrusion protection | |
| `SchedulerTab` | the lists of the scheduler manager | |
| `ProftpdTraffic`, `ProftpdUsers` | the live traffic and the users of the ProFTPD manager | |
| `CockpitMachines` | the list of machines and the checks of them | |
| `RdpDesktop`, `RdpPicture` | FreeRDP's context, size and clipboard; the frame on its way to the screen | |
| `TerminalTab` | a terminal tab | |
| `InstanceLogins` | the logins of an instance | |
| `SavedConnections`, `StoredSettings` | the lists the user edits; the single settings and their page | |
| `VmDeployment`, `VmConfiguration` | the two dialogs of QEMU machines | |
| `IdentityBrowser` | the identity management view | |
| `RcloneBrowser`, `AddRemote` | a tab that browses a remote; the wizard that adds one | |
| `GlinetDashboard` | a router's tab | |
| `ConnectionSessionsProofs`, `RdpSessionWorkerProofs`, `MountManagerProofs` | theorems about these | `EXTENDS` the module |
| `ComponentProofs` | theorems about `ConfigFiles`, `HelperTab`, `SpiceInput`, `SpiceAgent`, `ConnectionTree`, `GcloudAccount`, `MboxBrowser`, `RdpPicture` | `EXTENDS` the eight |
| `MCDesktops` | model-checks `RdpSessionWorker` and `SpiceHelper` | `EXTENDS` both |
| `MCComponents` | model-checks the 32 modules that share no state with another | `EXTENDS` the ten with theorems; `INSTANCE` of the others |

Every module keeps the names of the code.  Definitions that begin `\* Mutant of`
are deliberately wrong variants of the definition below them; no specification
uses them.  Replacing the definition by its variant makes the property named in
`PROJECT.json` fail, which shows that the property depends on that code.

### IapTunnel

State: the fields of `IapTunnelConnection`, `_connect`'s local variables (as
long as it runs), the two tasks' positions, the websocket with what is in flight
each way, and the two ends.  A step is the code between two `await`s.

* Bytes are named by their position in the stream; a frame is one or two units
  (header, body), and `Receive` takes any run of units, so frames split and
  merge as websocket messages do.
* `Open`, `AckRejected`, `AckLost`, `AckRefused`, `AckAccepted`, `BackOff` are
  the loop of `_connect` with the budget, the timeouts and `_await_connect_ack`.
  Time passes only there (`waited`).  The growth factor of the backoff is a
  choice between the old value and the maximum.
* `ReadLocal` ... `Sent` are `_pump_local_to_remote`; `Receive` ...
  `DecodeUnexpected` are `_pump_remote_to_local`; `GatherEnds`, `CloseBoth` the
  end of `pump`.  `ConfirmBytes` is `_confirm_bytes`, with its partial effect
  when it raises.
* The relay (external) answers, sends within its window, confirms, closes,
  drops; with `Misbehaves` also sends what the protocol does not allow, once.
* Of the message with the relay's answer `_await_connect_ack` decodes the first frame and
  throws the rest away.  `AckAccepted` lets data be there (`DataBehind`), which is lost
  (`discarded`): the pipe that the tunnel implements, `DuplexPipe`, has one step for it,
  `LoseDown`, before anything has arrived.  Such bytes are never acknowledged either, so
  that `WindowNeverStalls` is about connections without them.  Whether Google's relay
  sends any before it has seen something of the client is not in this code.  Assumed is
  that the message ends with a whole frame; of one that is cut in the middle of a frame,
  the tail would be read as a frame of its own.

### ConnectionSessions

An *attempt* is one click with the tunnel, widget and session it leads to:
`ConnectInstance`, `ConnectManual`, `ConnectQemu` and `ConnectFiles` start a tunnel
(`StartTunnel`) or open the session at once (`OpenAtOnce`), `OpenPlain` a tab without one.
`ThreadBinds`, `ThreadServes`, `ThreadEnds` are `BackgroundTunnel._run`, with the
gap between `_ready.set()` and the assignment of `_serve_task`; `SshForwards`,
`SshDies` the ssh process; `PoolTakes` a free thread taking the next job;
`StartReturns`, `StopBegins`, `StopReturns` a job's end; `Deliver` the main
thread taking a queued signal; `OpenSession`, `DisconnectRequested` the handlers
that keep the four tables; `Quit`, `QuitStops`, `QuitJoins`, `Exit` the end.
Main-thread handlers are one step: nothing else runs on that thread meanwhile,
and what pool threads do in between touches none of the tables.

### RdpSessionWorker

One step per access to a shared object.  The session thread: `LoopTop`,
`ResetWake`, `DrainOne`/`DrainEnds`, `Pump`, `Defer`/`ClaimFrame`/`CopyFrame`,
`WaitEnds`, `Teardown`.  FreeRDP: `Paint`, `FlagFrame`, `WakeForFrame`.  The GUI:
`QueueInput`/`SetWake`, `TakeFrame`, `PaintEvent`, `OnConnected`, `OnEnded`,
`Dismiss` (the message box, whose nested loop goes on delivering), `UserCloses`,
`JoinEnds`.

### MountManager

`th` holds, for every pool thread and for the main thread inside `unmount_all`,
the operation, its remote, where it stands and its local variable `mount`.
`Check`/`Purge`/`Launch`/`Register`/`GiveUp` are `mount()`;
`Get`/`Drained`/`DrainTimesOut`/`Pop`/`Stop` are `unmount()`; `Delete` follows in
`_unmount_and_delete`.  The main thread's `mount_point()` is split where another
thread can come in between: `LookAtDead`, then `PurgeDead` with its possible
KeyError, then `LookDone` with what the handler does next.  The tree's context
menu is a state of its own (`menu`), because it offers what was true when it
opened.  `Refuse` stands for all early errors of `mount()`.  A folder is mounted
while its process lives: `kill` and `_force_unmount` succeed.  Names of ended
processes are used again, so the number of mounts is not bounded, only how many
exist at a time.  `entangled` and `late` are history variables, used by
properties only.

### SpiceInput, SpiceDisplay, SpiceAgent

Three aspects of one SPICE session that touch different attributes.

* `SpiceInput`: `MouseEvent`, `TestScheduled`, `SetScheduled`, `AddFlush`,
  `SendMouseButton` are the calling thread in `send_mouse_move` and
  `send_mouse_button`, one step per access to an attribute; `FlushClears`,
  `FlushSends`, `ButtonCallback` run on the GLib loop.  What is sent before
  `ChannelUp` is dropped, so the property speaks of later events.
* `SpiceDisplay`: each handler of the server's signals is one step of the loop
  thread (`PrimaryCreate`, `PrimaryDestroy`, `Invalidate`, `FrameTimeout`);
  `FrameReady` is the widget, later.  A row holds the number of the paint that
  drew it.  `FrameTimeout` may find that a direct frame was sent meanwhile; it
  then sends the whole picture once more, which costs time and no correctness.
* `SpiceAgent`: the widget (`HostCopies`, `Resize`, `ResizeSettled`, `OnConnected`,
  `OnAgentConnected`), the loop (`ClipboardCall`, `ResizeCall`) and the guest
  (`AgentConnects`, `AgentUpdate`, `AgentLeaves`, `GuestCopies`, `GuestGrab`).

### SpiceHelper

The start of `RemoteSpiceWorker` (`Popen` ... `PumpEnds`), the widget and the steps
of `HelperProcess.stop` on closing a tab (`CloseSpiceSession` ... `StopJoins`), and in the
helper its main thread (`Boot` ... `CleanUp`), the watcher of stdin (`StdinEnds`,
`CloseHolder`, `GraceOver`) and the runner's thread (`MakeLoop` ... `SessionEnds`).
`HelperCrashes` and `AppEnds` kill either process at any step.  `late` marks a tab
closed before its helper's process was known: `stop` finds no process, and the
helper spawned a moment later runs until the app ends.

### ConfigFiles

A save truncates and fills a file (`SaveTruncates`, `SaveFills`): most savers use
`write_text`, so a crash in between leaves a torn file.  `Export` and `ExportEnds`
write the user's zip.  `Restore` opens the safety zip, `SafetyEnds` closes it, then
`Remove`, `Removed`, `WriteTemp`, `Replace` and `RestoreEnds` are the loops of
`restore_config`.  `Interrupted` ends any of these at any step: a full disk or a
crash.  `ExportFails` is an error while a file is added to a zip: the `with` statement
closes it, so that it is readable and holds a part of the files, the last perhaps cut
short (`Pieces`).  `read_backup` accepts such a zip, since it does not compare it with the
list in its manifest; restoring it removes the files it lacks, and what `RestoreIsUndoable`
then promises is that the safety zip has them.  A safety zip that fails this way ends the
restore before anything is changed.  Two things are outside the model.  After a restore the app asks for a
restart, and until then other pages may still save settings they hold in memory
over restored files; and the safety zip's name has a resolution of one second.

### StressTest

`Prepare`, `Prepared`, `PrepareFails` make the folder; `Connect` ... `WorkerEnds` are
a worker; `Wind` asks for a wind-down, of which `Stop` and `CloseSession` can start
two: `Joined`, `ListRoot`, `WipeEntry`, `WipeFolder` walk and remove the tree, each
failing on what the other has removed already, as the code does, without giving
the rest up.  A connection the server ends (`LoseConnection`, `WipeDropped`) leaves
what was not yet removed: no wind-down is tried again.  So does a `prepare` whose
folder was made although the reply was lost.

### HelperTab

`ConnectToServer` (with the close of a connection it replaces), `Connected`,
`ConnectFailed`, the questions of `prompt_to_retry` (`Retry`, `GiveUp`), `Reconnect`
and `CloseSession` on Qt's thread; `LoggedIn`, `LoginFails`, `Ready`, `NotReady`,
`CloseRuns` on the pool.

### FtpBrowser

`Enqueue` and `Process` are `_enqueue` and `_process_queue`; `Upload` and `Download`
say which jobs a folder becomes.  `CallEnds` ends a call on the pool, and
`OnConnected` ... `OnError` take its answer.  What `TransfersOneByOne` promises is the
code's own traffic.  The user's Refresh, navigation and New Folder use the session
beside the queue (`UseSession`), and the refresh of a queue run empty may meet a
transfer asked for during it; both are in the model and the property says so.

### GcloudAccount

Each job (`check`, `list`, `select`, `sign in`, `sign out`) has two steps: `Asks`,
where it reads or changes gcloud's account, and its answer.  `AccountChanged`
announces a change to the three views, `SettingsChecked`, `ManagerChecked`,
`IdentityChecked` take a check's answer, `PopulateProjects` ... `DialogRejected` are
the project dialogs with their nested event loops.  The property excepts, with
history variables, what the code allows: two changes under way at once, a first
check that fails or that answers after a newer change (the tree and the settings
page then show the older account), and a list of projects that arrives after the
sign-out and fills the tree (`changesCrossed`, `unsure`, `lateList`).

### ConnectionTree

An item has a number, so that an answer for an item that was rebuilt finds nothing
(`ApplyProjectSelection`, `SetSignedOut`, `PopulateQemuHosts`).  `LoadCategory` has
the guard `IS_LOADING_ROLE`; `LoadQemuVms` has none, so two requests of a host may
answer in either order (`crossed`).  `DataChange` lets the cloud's data age, a request
reads them at some time (`Reads`) and answers later (`Answered`).

### MboxBrowser

`QueryChanged`, `StartBodySearch`, `CurrentItemChanged`, `CloseMailSession` are the user
and the search timer; `OpenFile`, `Indexed`, `IndexFails`, `SearchEnds`, `LoadEnds` the jobs; `Loaded`,
`SearchAnswered`, `DetailAnswered` the answers with `_search_generation` and the
comparison with `_current_key`.  Closing the file under a search makes it fail.

### AppUpdate

`DownloadImage`, `Unpack`, `HandOver` are the pool's job; `Waited` ... `OpenNew` the lines
of the script, with `mv` across volumes as a copy that may be cut short.  The script
waits a minute for the app to end and then exchanges the bundles under an app that
still runs (quitting may take longer, because it unmounts).  `stranded` marks the
one way to lose the app: a crash has left only the backup, the app is run off a disk
image, and the update from there removes the backup first.

### ProftpdHelper

A call runs in one transaction: `CreateUser` ... `RemoveGroupMount` change what it
sees of the tables and say which mounts it has to add and remove; `AddMount` and
`RemoveMount` do so one by one, at once; `Commit`, or `RollBack`, `AddFails`,
`CallDies`, which take the tables back and not the mounts.  `strays` and `disturbed`
say where those leave a difference: a group's mount that failed for a later member,
a mount that was still busy, an owner who was rolled back, a directory claimed by a
named group or mounted twice by one user.  Calls do not overlap in the model;
the script reads member lists before its transaction, so two at once could lose one.

### WslDistro

`StartWslInstall`, `StartLinuxToolsInstall`, `RemoveClicked`, `UseTools` start a job;
`DownloadTools`, `ReplaceDistro`, `Make`, `Import`, `Mark`, `SyncKeys`, `RemoveTools`,
`Erase`, `UseInJob` are its steps, each of which may fail, with or without its effect, or
be cut off by `ToolsCrash`.
`BackendChanged` announces what has changed, `ToolsError` does not: after a job that
failed late (`unannounced`), the tree and the cached backend are out of date until
the next start or the next success, although the comment of `linux_tools_events`
says "Emitted after ...".  A version file that a failed removal leaves (`leftover`)
can make a later incomplete import count as ready.  The app is assumed not to be
downgraded.

### HostingSites, HostingImport

`HostingSites` is the Sites tab.  `Select`, `OpenTab`, the forms and their dialogs
(`SaveSettings` ... `CronChange`), the row's menu (`SitesMenu`) and `Reconnect` are the
user, and so is the editor of a site's whole vhost (`SaveVhost`), which an older helper
does not have (`vhosts`); a call (`Ask`) is served or fails at any time (`Serve`, `Fail`) and its
answer handled in any order (`SiteAnswered` ... `Failed`); `TimerFires` polls a move or
a backup, which end on the server (`MoveEnds`, `BackupEnds`).  Some answers are
compared with the site shown, those of the SFTP, cron, log and traffic panels are
not (`late`); a late load of a site selects it again; a poll that fails, or that a
reconnect stops, is not repeated (`unfollowed`).

`HostingImport` is the two wizards: `Scan`, `Choose`, `Start`, `Cancel`, `Clear`,
`TimerFires` ask, `Serve`/`CallFails` are the server's end, `Answered` and
`NoteAnswered` take the answers through `ShowStatus`.  The next poll is set by an
answer that says the import runs.  So a failed poll, results cleared before they were
read, an older answer after a newer one and a lost answer to the start each leave a
page that nothing will change; a dialog that was closed goes on polling.  The
property excludes these with `lost`, `misled` and `others`.

### HostingPanels

The tabs about the whole server.  Each keeps the last answer it was given, from which
its dialogs are filled; a call is served or fails at any time (`Serve`, `Fail`), and its
answer (`ShowStatus` ... `ShowCredentials`, `Failed`) asks for the tabs that it concerns.
The settings of intrusion protection send the whole list of addresses that are never
banned as the dialog was filled, so one whose answer was still out is taken off again
(`forgotten`).  A new password is shown once, after two reloads that raise while the tab
connects again, and never is then (`unnoted`).  The databases are listed only when the
last status has MariaDB, so after an answer that failed or was overtaken they stay as
they are shown (`excused`).

### SchedulerTab

`RefreshTasks` with its latch `_loading_tasks`; the changes, the import and the
dialogs with their own event loops; `Tick` and `Later` are the timers.  Two
executions are excluded: a load dropped because one is under way (`excused`), and the
latch set by a load that then raises for want of a connection, which drops every
later one (`stuck`).

### ProftpdTraffic, ProftpdUsers

`ProftpdTraffic` has the connection, the pages, the follower of the log (`TailEnds`,
`Finished`) and the timer that asks who is connected.  The latch of that question is
set before it raises for want of a connection (`raised`); `_sessions_unavailable` stays
for good, also after Reconnect; enabling or disabling that fails half-way, a check
that fails after Reconnect and a follower that ends by itself leave the panel other
than the server (`excused`).

`ProftpdUsers` has the lists, the dialog with the row it was filled from, and the
group's combo.  A combo built before the users were listed stays short (`since`), the
deletion of several users may stop half-way and loads nothing again, the group
keeps deleted members until it is loaded, and a dialog filled from an old row
writes back an old lock (`muddled`).

### CockpitMachines

Every operation reads and writes the list whole.  The edit and remove dialogs save the
list they read before they opened, under answers that arrive meanwhile (`behind`); an
answer is matched by login and not by container (`stale`); two machines may be edited
to be the same, of which the second stays "Checking..."; and a crash inside a save
(`torn`) reads as no machines, so that the old servers are not taken over again.

### RdpDesktop, RdpPicture

`RdpDesktop`: the context (`NewContext` ... `Disconnect`), the two channels, which are
set up in their own time (`DisplayConnects`, `ClipboardConnects`, `MonitorReady`), the
requests of the window (`Resize`, `Text`) in the worker's queue, and the server, which
takes, refuses or changes a size.  A request before the channel is bound is dropped
(`missed`); one that is clamped or refused leaves the framebuffer at another size than
the desktop (`unreported`).

`RdpPicture`: `Delivers` ... `PaintEvent` are the widget, `Initialize` ... `NewRhi` the
GPU view, each of whose steps may fail and hand the picture back (`GpuGivesUp`).  After a
new QRhi the view is blank until the next frame (`blanked`); a give-up right after an
upload consumes a frame twice (`again`).

### TerminalTab

The program (`Writes`, `Prints`, `Reads`, `Echoes`, `Exits`), the pty with room for so
much in each direction, the window that reads it (`Feed`) or, on Windows, the thread
that does (`ReaderReads`, `Delivered`), the two screens with their saved cursors
(`Fed`), the timer (`Render`), and the user (`KeyPress`, `Paste`, `Resize`, `CloseTab`,
the automation's question).  Excluded: a window that waits to write a paste while
the program waits for its output to be read (POSIX only); a document that is drawn
again only when the program writes after a resize (`stale`); and a cursor saved
inside the alternate screen, which is the shell's too (`moved`).

### InstanceLogins

A job reads the metadata, posts all of it, and is rejected when somebody else has
written (`Read`, `Post`, `PostRejected`); a reset then waits for the agent (`Agent`,
`TimesOut`).  `OpenDialog` ... `CloseShown` are the dialogs, under which answers go
on.  A login is older than the account after a reset that timed out but was done, one
that could not be encrypted, two that were answered in the other order, or a dialog
that kept a password which was replaced while it was open (`excused`); two resets at
once leave the status text of one (`overlapped`).

### SavedConnections, StoredSettings

`SavedConnections`: a Manage dialog (`Manage`, `AddItem`, `EditItem`, `RemoveItem`)
works on a copy; `CloseManage` encrypts and saves; `Remember` is the password typed
when connecting; `ChangeKey` and `Crash` happen at any time.  One password that cannot
be encrypted loses the edit (`refused`); a connection saved with a password loses its
gateway (`rebuilt`); an entry edited again loses a password typed before (`blanked`).

`StoredSettings`: `Absent`, `Text`, `Empty` and `Load...` are how each kind of setting
reads its file, `Shown` what its control makes of it.  A module switched after a
restore writes back the older boxes (`stale`), and a resolution with no preset is
shown as "Match window size".

### VmDeployment, VmConfiguration

`VmDeployment`: each change of the pool asks for its images (`Requests`), and answers
come in any order (`VolumesLoaded`, `VolumesFail`), so that the typed name may be
looked up in another pool's list (`sure` is false then).  `Reject` closes the dialog
also while virt-install runs, and the tree is then not told (`ours`).

`VmConfiguration`: `vm` is the stored machine and `live` what virsh tells of it, which
is the running one as long as it runs (`dumpxml` is called without `--inactive`, and
`domblklist` and `domiflist` tell of the running machine as well).  `Configure` and
`Loaded` fill the dialog with `live`; `Accept` makes the series of calls from what differs
(`Calls`); `Call` and `CallFails` are their ends, with or without the effect.  Each call
says what it makes of the two: `resize_vm` changes only the stored machine; disks, the
CD and the network change both when the dialog knew that it ran; of a running machine a
removed disk or interface may stay until it stops (`Released`), as the docstrings say; and
`set_display_device`, which stands for `set_boot_order` too, stores `live` with its change.
So a save that changes vCPUs and display of a running machine stores the old vCPUs, one
that changes display and boot order stores the old display, and a disk or interface that
the guest has not let go of comes back into the stored machine (`reverted`): the
docstrings of `set_display_device`, `set_boot_order` and `get_vm_resources` speak of the
persistent definition.  `AcceptedIsMade` names these exceptions and says that what is not
as accepted is as it is live; `DialogTrue` says that the dialog shows the machine virsh
tells of, and the stored one where nothing was staged.  The property also
excludes what a failure leaves between two calls that belong together (`broken`), a
save that is repeated or ran beside another and removes the disk which has got a removed
one's name (`mistaken`), values set back after a failure, and what another series does
after Esc (`crossed`).  Of virsh it is taken that `change-media --config` looks at the
stored drive, that `--live` is refused for a machine that does not run, and that a disk of the
boot disk's kind, IDE, cannot be attached to one that does.

### IdentityBrowser

`Refresh` and the detail pages ask for lists and fields; `Unlock` is the modal
question for the key's passphrase, under which the timer and answers go on;
`ReadPage` reads a list by limit and skip while a device may leave (`shifted`).  A late
answer of an older key or account is taken for the list (`overtaken`); a failed load
leaves "Loading..." over the rows it had (`failed`); a cancelled passphrase leaves it
over a page (`unasked`).  Without a JumpCloud key the gcloud projects are not asked
for at all, which `opened` reflects.

### RcloneBrowser, AddRemote

`RcloneBrowser`: a call has a step in which its thread comes to it (`Begin`).  The
listing and each file of an upload read the tab's folder there, so that a user who has
moved on gets the rest of the files elsewhere than the status bar said (`wandered`),
and a listing that comes late fills the table with the rows of a folder the tab has
left, on which Delete and Download then act in the one it is in (`late`).  A change
that failed may have been made, and nothing is listed again (`excused`).  The remote is
one that has folders of its own, as a disk has.

`AddRemote`: a page is built anew each time (`Built`), which deletes the buttons that
calls made from it will want to enable.  `Create` and `Submit` make a call, of which
`StepAsks`, `StepDone` and `Failed` take the answer, on whatever page the dialog shows
by then.  The box of the advanced options is not disabled with the buttons, and Escape
closes the dialog at any time: a user who does so under a call (`crossed`) may make a
remote twice, or get no word of an error.

### GlinetDashboard

Each call is `Login`, one request (`Read`, `ReadVpn`, `WriteWifi`, `AskReboot`) and
`Logout`, in a thread of the pool; `GoesAway` takes the router out of reach, or
restarts it, between any two of them.  A save writes the network enabled or not as the
row showed it when the dialog opened, so a dialog filled from an old row undoes what was
done since (`muddled`); the classic status of the tunnels takes every failure for
"not configured", so a router that goes away after the login shows them as off
(`excused`); a session whose router cannot be reached at the logout stays (`leaked`).

## 3. Runs

Passing runs:

| Run | Question | Bounds | Properties |
|---|---|---|---|
| `iap` | a relay that keeps to the protocol | 2 bytes up, 8 down in frames of 2, threshold 4, window 6, budget 2 | `AckDebtBounded ConnectBounded EndsCleanly WindowNeverStalls` |
| `iap_rogue` | a relay that may also break it | 2 up, 4 down in frames of 2, one improper answer per attempt and one improper frame | `TypeOK ResendBufferExact ImplementsPipe` |
| `sessions` | sessions, tunnels, pool, quit | an IAP session, an ssh-gateway session, a tab without tunnel; a pool of one thread | `TypeOK TablesAgree OnlyAskedSessionsClose TunnelStoppedOnce StopsEnd AttemptsResolve` |
| `rdp` | the life of an RDP session, and that of a SPICE session in its helper | RDP: 2 inputs, 2 paints; SPICE: none | `TypeOK InputsInOrder NoLostWakeup FrameHandover LatestFrameShown EndTogether`; `TabEndsHelper EndReachesTheOther` |
| `mounts` | mounts, unmounts, removals, quit | 1 remote, 2 pool threads, 2 processes at a time, 1 file per mount | `TypeOK ProcessesAccounted OnlyLateMountsSurvive UploadsFinishFirst EverythingEnds` |
| `components` | 32 parts that share no state with another | see the table below | `TypeOK` of all, and one property per part |

The parts of `components`, with the property of the run and, in brackets, its part:

| Part | Bounds | Property |
|---|---|---|
| `ConfigFiles` | 2 files, 1 content beside none and torn, 2 restores | `RestoreIsUndoable` |
| `HelperTab` | 3 connections | `ConnectionsAccounted` |
| `SpiceInput` | 3 events | `PointerNeverBehind` |
| `SpiceDisplay` | resolutions of 2 and 3 rows, 4 paints | `DesktopFollows` (`PictureArrives`) |
| `SpiceAgent` | 2 texts, 2 sizes, 3 events | `ClipboardFollowsHost` |
| `StressTest` | 2 workers, 7 paths three levels deep, 2 wind-downs, 1 lost connection | `AskedIsDone` (`NothingIsLeft`) |
| `FtpBrowser` | a folder in a folder and a file, 1 transfer beside the first upload, 1 other call | `AskedIsDone` (`TransfersOneByOne`) |
| `GcloudAccount` | 2 accounts, 2 jobs out at a time | `AccountsAgree` |
| `InstanceLogins` | 2 users, 2 jobs, 1 event | `KeptAsEntered` (`LoginsAgree`) |
| `ConnectionTree` | 1 category, 1 host, 4 builds of the tree, 3 ages, 2 requests out | `NoStaleAnswer` |
| `MboxBrowser` | 2 queries, 2 messages, 4 events | `MailboxFollowsUser` |
| `AppUpdate` | 3 versions, 2 crashes | `AppSurvives` |
| `WslDistro` | 3 versions, 2 crashes | `ToolsInStep` |
| `ProftpdHelper` | 2 users, 1 directory, 1 group, 4 calls | `AskedIsDone` (`ServerInStep`) |
| `ProftpdTraffic` | 3 events, 2 calls | `AskedIsDone` (`TrafficFollowed`) |
| `HostingSites` | 2 sites, 3 events, 2 calls, in three of the tabs | `AskedIsDone` (`SiteFollowsUser`) |
| `HostingImport` | 3 events, 2 dialogs, 2 calls | `AskedIsDone` (`ImportFollowed`) |
| `HostingPanels` | 1 address, 2 events, 2 calls | `AskedIsDone` (`PanelsFollow`) |
| `RdpDesktop` | sizes 1 to 3, 2 events | `DesktopFollows` |
| `RdpPicture` | 3 paints, 3 events | `FrameArrives` |
| `TerminalTab` | 5 programs of up to 4 outputs, pty of 1 and 2, 2 sizes | `DesktopFollows` (`TerminalFollows`) |
| `SchedulerTab` | 2 events, 2 calls | `AskedIsDone` (`ListsFollow`) |
| `ProftpdUsers` | 2 users, 2 events, 2 calls | `KeptAsEntered` (`UsersFollow`) |
| `CockpitMachines` | 2 logins, 2 containers, 3 events, 2 checks, 2 dialogs | `KeptAsEntered` (`CockpitFollows`) |
| `SavedConnections` | 1 name, 2 entries, 3 events | `KeptAsEntered` (`ConnectionsKept`) |
| `StoredSettings` | 2 modules, 3 events | `KeptAsEntered` (`SettingsKept`) |
| `VmDeployment` | 1 machine, 1 dialog, 4 loads | `KeptAsEntered` (`DeployFollows`) |
| `VmConfiguration` | 2 saves and 2 changes in forms; 3 events, each a dialog opened or a change of power | `KeptAsEntered` (`VmAsAsked`) |
| `IdentityBrowser` | 1 field, three budgets of selections, looks and key or account changes | `AskedIsDone` (`BrowserFollows`) |
| `RcloneBrowser` | 2 files and a folder, uploads of 2 files, 3 events, 2 calls | `AskedIsDone` (`RemoteFollows`) |
| `AddRemote` | 1 name, a type without and one with a question, 4 events (a wizard is two), 2 calls | `KeptAsEntered` (`WizardFollows`) |
| `GlinetDashboard` | 2 networks, 1 tunnel, 2 events, 2 calls | `KeptAsEntered` (`RouterFollows`) |

Where a part may begin in several states, `Init` of `MCComponents` takes the one that
shows most (for `ProftpdHelper` a group with both users as members); `ConfigFiles`
begins in all of its states.

Why these bounds are enough for the cases that matter:

* `iap`: the acknowledgement threshold is 4 (twice `MaxFrame`), so with frames of 2, the
  largest the protocol allows, an acknowledgement becomes due with the third, after two
  that were put off; the window of 6 is then full, and the fourth frame can only be sent
  once that acknowledgement has arrived.  Data behind the relay's answer is none or one
  frame.  Two bytes up allow
  one chunk of two or two of one, and an acknowledgement in the middle of a
  chunk.  A budget of 2 with timeouts of 1 gives several attempts and the
  deadline on each side of a sleep.
* `iap_rogue`: four bytes down are two frames, or one behind the answer and one after it,
  beside one frame and one answer that the protocol does not allow.
* `sessions`: a pool of one thread makes every start queue behind every stop; two
  tunnels of different kinds and one tab without meet all handlers; ids are used
  up to the third.
* `rdp`: of RDP a move replaced by a move, a move before a click, and paints before,
  during and after a copy are all there with two of each; the SPICE
  session is one, and either process may be killed at any step.
* `mounts`: any two of mount, unmount, removal and quit overlap on one remote,
  and two processes let a new mount come up while an old one is being stopped.
  Operations on different remotes share only the refresh of the tree.
* `components`: each part has the actors it takes for any two of its operations to
  overlap, and one more of what they fight over (a second worker and a second
  wind-down, a second account, a second query); bounds on events are high enough for
  a cycle to be begun a second time (an update after an interrupted update, a mount
  after a removed mount).  `ConfigFiles`: a loop over two files can be cut short between
  them, and a second restore begins after a failed one.  `HelperTab`: a connection is
  made while one is closed and another was given up.  `SpiceInput`: a burst that is
  coalesced, and a click behind it.  `ConnectionTree`: a sign-out and a sign-in again while
  both requests are out.  `GcloudAccount`: a job of the user under the first checks.
  `VmConfiguration`: two settings in one save, a dialog opened again on what the first has
  staged, and a machine that starts or stops unknown to the tree.

Runs that find a statement of the code violated are listed under *Findings*.
`components` is one run because its parts share no state: `Init` of
`MCComponents` chooses the part whose steps are taken, and the others keep their
initial values, so that the run explores the union of 32 state spaces (1.5 million
states, 39 steps deep) and not their product.  Each part's actions are those of its
own module, unchanged.  The configuration names a `VIEW`: of a state it is enough to
compare the part and its variables, because those of the other parts have one
initial value each (`Init` sees to that) and no step changes them.  Two states with the
same view are therefore equal, except that the jobs of `GcloudAccount` are compared
without their numbers, which only keep equal jobs apart.

Deadlock is checked where a program never stops (`mounts`, which has an explicit
final state); in the other runs a connection, a session or the program ends, or a
bound is reached, and the check is off.

### Fairness

Weak fairness on each thread, task and event loop: the operating system runs
every thread, asyncio and Qt run what is ready, and timers fire, because every
wait in question has a timeout (connect 60 s, start 30 s, stop 5 s, drain 60 s or
30 min, FreeRDP's wait 1 s or less).  In `MountManager` a result's delivery is
strongly fair: Qt's queue is first in, first out, so handlers of other events
cannot keep a queued result away.  Nothing is assumed of users, of clients that
need not write or close, of sessions that need not end, of rclone or of uploads,
with these exceptions: in `IapTunnel` the client accepts what is written to it
and the relay reads and sends; in `RdpSessionWorker` the user dismisses message
boxes and the tab is in front, without which Qt paints nothing.  In `SpiceHelper`
the app's worker and widget and, of the helper, the start, the thread that
watches stdin, the reaction to an input that ended and the clean-up are fair;
the service itself may be stuck in the tunnel or in the session for as long as it
likes.  The parts of `components` are checked for safety only.

## 4. Proofs

`IapTunnelProofs` proves for every frame size, budget, timeout, window, amount of
data and kind of relay, from the assumptions `SizesAssumption` (sizes are
natural numbers, frames not empty) and `TimesAssumption` (times are natural
numbers, the first sleep is not longer than the longest):

* `TypeCorrect`: `Spec => []TypeOK`
* `ResendBufferAlwaysExact`: `Spec => []ResendBufferExact`
* `ConnectAlwaysBounded`: `Spec => []ConnectBounded`

The first two rest on the inductive invariant `IInv`: the types, the exactness of
the buffer, and two facts the code relies on silently.  `NothingSentYet`: before the
relay has accepted, nothing was read from the client, so a confirmation inside
`_await_connect_ack` has nothing to confirm; without it `AckAccepted`, which
empties the buffer after resending, could lose bytes.  `DrainingData`: while
`drain()` is awaited the frame it belongs to still heads the buffer; without it
the step after the await has no frame to take.  `ConfirmExact` is the core
lemma: cutting and dropping chunks keeps the buffer exact for any number the
relay claims.  Then one lemma per group of actions, one step per action.

The third uses an invariant of its own, `ConnectClock`: how much may have been
waited in each phase.  The deadline is looked at before every sleep, so at most
one sleep and one attempt of two waits follow it.  Then the flow of the data:

* `AckDebtAlwaysBounded`: `Spec => []AckDebtBounded`
* `TunnelIsAPipe`: `Spec => ImplementsPipe`, the refinement of `DuplexPipe`: the initial
  states map to its initial states, and every step to a step of it or to a stutter.
  Whatever the relay does, each end gets a beginning of what the other wrote, once the
  data in one message with the relay's answer, if any, is taken off the front; that it is
  taken off there and nowhere else is what `DuplexPipe` says.

These two rest on `FlowInv`, which adds to `IInv` what is on its way.
`NothingFlowsYet`: before the relay has accepted, nothing flows either way.  `UpFlow`:
the relay has got a prefix, and the frames in flight hold, from there on, what was read
from the client (`Upwards`: a position in the stream for each unit in flight).
`DownFlow`: the same from the relay to the client through the receive buffer
(`Downwards`), counted from behind the data that was thrown away (`Arrived`), where the frame whose `drain()` is awaited is in the buffer and with the
client at once; without that exception the invariant fails at the step before the
await.  `AckFlow`: no acknowledgement is ahead of what was handed over.  The lemmas
about `Upwards` and `Downwards` say what each access does to a queue: a frame
appended, a message taken, the head consumed, a connection lost in the middle.

Each of the other modules proves `TypeCorrect` and properties that a run checks on a
small instance.  What a proof needs of the constants is an `ASSUME` of the module,
which TLC evaluates in its runs.

* `ConnectionSessionsProofs`, `TablesAlwaysAgree`, `NoOtherSessionCloses` and
  `StoppedOnce`, for any attempts and any pool.  `Numbers`: a session number names one
  attempt, because the counter is one more than the number of sessions numbered.
  `Entries`: while the app runs, a session's entry in the table and the number of its
  widget name each other; together they keep a late close from reaching a newer
  session.  `Starts` and `StopsOnce`: a start or a stop is in one place, be it the
  queue, a thread, the inbox or the lists of the quit; without them a stop could be
  queued by the close and again by the quit.
* `RdpSessionWorkerProofs`, `InputOrder`, `WakeupsKept` and `FramesHandedOver`, for any
  number of inputs and paints.  `MoveIsLast`: the move that waits is the last event
  taken, and everything sent was taken before it, so that sending it first keeps the
  order.  `InputWakes`: from the end of the drain to the end of the wait, input that
  arrives has set the event or is about to; without it the proof fails at the steps
  between drain and wait, where a reset of the event would break it.  `OnePlace`:
  `_frame_in_flight` is a token; of the queue, the widget and the worker's copy one at
  most has the frame.
* `MountManagerProofs`, `EveryProcessAccounted`, `OnlyLateMounts` and `UploadsBeforeStop`,
  for any remotes, files, processes and pool threads.  `Busy`: `_mount_busy` admits one
  mount or unmount of a remote, from the choice in the menu to the delivery of its
  result; a look at the table that ends between the two is part of it.  `Alone` and `Mounting`: one thread of
  the pool works on a remote, and while it mounts the table has no entry and the quit
  leaves it alone; without them a second mount could overwrite an entry whose process
  lives.  `Agree`: table and threads refer to one process of a remote.  `Unmounting`:
  `unmount_all` comes to every entry it found, so that only late ones are left.
  `UploadsOwed`: what waited when `unmount` asked stays saved, and after the drain none
  of it waits; it holds because a process that is referred to keeps its name and its
  uploads only go forward (`Forward`), which other threads' steps respect too.
* `ComponentProofs`, `PointerKeptUp`, for any number of events.  The strengthening:
  the flag is up only while a flush is queued or about to be (`FlagMeansFlush`), and
  a queued click waits behind a flush that takes the pointer to it
  (`FlushGoesFirst`).  The second is why a click cannot overtake its move although
  the move's own flush was coalesced away.
* `SpiceHelper`, `ClosedTabHasNoHelper`.  `SpawnedOnce`: the helper is spawned
  by one step of the worker, before which it does not run; `StopKnows`: how much of
  the helper is gone at each step of `stop`.
* `ComponentProofs`, `RestoreUndoable`, for all sets of files and contents and any
  number of restores, with exports that fail half-way and restores of what they leave.
  `Safe`: until the safety zip is closed only the user changes
  the configuration, and afterwards the zip holds it; `Loops`: what the two loops
  have done so far.
* `ComponentProofs`, `NoConnectionLost`, for any number of connections.
  `OneAtATime`: while one is made the tab has none, the button is disabled and no
  question is open; `AnswerFits`: an answer is about the attempt.
* `ComponentProofs`, `NoAnswerIsStale`, for any categories, hosts, requests and builds: an
  action property, from an invariant about each item.  `Made` and `Requested`: an item that is
  in the tree was made, and a request is of a build that was.  `OneOut`: a category is
  marked as loading exactly while a request for it, as it was built last, is out, and no
  item has two of these, except a host that is asked again (`crossed`); a request of an
  older build does not count, because its answer finds no item.  `Newer`: what is shown
  was not read later than what an open request has read.
* `ComponentProofs`, `ViewsComeToAgree`, for any accounts and any number of jobs.
  `JobsApart`: a view checks once, and the changes are one at a time until two cross.
  `GotIsKept`: what a job was told by gcloud is still so when it answers.  `Waits`: a page
  that says it is busy has a job.  `Agreed`: a view that has heard of gcloud agrees with
  it, unless a change has reached gcloud and is not announced (`Moved`), or its own first
  check is out (`Due`); the property speaks of quiet moments only, and
  these two say what holds in between.  `NothingOfNobody`: without an account no list of
  projects is kept, nor asked for.
* `ComponentProofs`, `ClipboardKeptUp`, for any texts and any number of copies and of agents
  that come and go.  `NewestIsCalled` and `NewestIsHeld`: the last text call is of the
  newest text, and when none is queued the session holds it.  `TextWaits`: as long as the agent
  has no capabilities a text is pending exactly when there is one; without the "exactly"
  the step that learns the capabilities could offer nothing.  `TextOffered` follows there.
* `ComponentProofs`, `MailboxKeptUp`, for any queries, messages and events.  The property's three
  parts are inductive but for two facts.  `IndexedOnce`: the file is opened before it is
  indexed, once, and closed when that fails.  `SearchesTold`: a search of the
  present generation is of the query in the box and was not cancelled, which is why
  comparing generations is enough.
* `ComponentProofs`, `FrameNeverLost`, for any number of paints and of events.
  `FrameIsOwed` is a part of the property and carries the rest.  `Drawable`: a frame that is
  owed exists, and a view that has one not drawn is shown and about to draw, unless
  the session is over; without it the hand-over of a view that gives up could find nothing to
  hand over.  `NewestSent`: the last frame sent is the newest, unless one is dirty.
  `ImageIsSeen`: the texture, or the screen, is the widget's image, unless a draw is due.
  `OneInFlight`: the token of `RdpSessionWorkerProofs` again, now across widget and view.
* `AppUpdate`, `AppNeverLost`, for any number of versions and of crashes, from
  `BundlesAssumption`.  `Prepared`: the job is the running app's, and the new bundle is
  whole from the hand-over to the end of the script.  `WholeBefore`, `WholeMeanwhile`,
  `WholeAfter`: which of the two bundles is whole at each step of the script;
  meanwhile it is the backup, which is why the undo can put one back.  After a crash the
  script may start with neither in its place, which `stranded` excludes.
* `WslDistro`, `ToolsAreInStep`, for any number of versions and of crashes, from
  `VersionsAssumption`.  `OneJob`: a job belongs to an app that runs, and its buttons are
  disabled until the answer.  `MarkerIsTrue`: a version file that is new enough is that
  of the distribution there is, unless a removal has left it.  `Progress`: an
  installation starts from tools that are not ready, so that replacing them changes no
  answer until the file is written.  `BackendFollows`, `PageFollows`: what the cached
  backend, the tree and the page show, except between a change and its announcement.

Only model-checked are all liveness (fairness is outside the prover's reach), and of
`components` four invariants: `TypeOK` as far as it is that of parts without theorems,
`DesktopFollows` (`SpiceDisplay` folds over rows, which would need induction over data)
and `AskedIsDone` and `KeptAsEntered`.  The parts of these two mostly exclude executions by history
variables, and a proof would need an invariant about each exclusion; `ServerInStep` of
`ProftpdHelper` would need, beside that, to follow sets of mounts through a call that
fails half-way.

## 5. Findings

Each run stops with the execution; the property quotes the comment.

| Run | The comment | What the code does |
|---|---|---|
| `iap_retry` | `ProtocolError`: "The server sent something that violates the expected protocol." | A first connect that fails after the websocket opened is retried with the connect URL, but its answer is judged as a reconnect's: a proper answer is an error, on every retry. |
| `iap_drop` | `IapTunnelConnection`: "transparently reconnecting (with backoff) on websocket drops" | A drop ends the connection; no reconnect is tried. |
| `session_stop` | `BackgroundTunnel.stop`: "Tear down the tunnel. Safe to call from any thread." | A stop right after `start()` finds no serve task to cancel; the tunnel goes on listening. |
| `rdp_stop` | `_wake`: "Interrupts the pump's wait ... whenever there's ... a stop to act on." | A stop between the loop's test and the reset of the event is not seen until the wait times out. |
| `mounts_quit` | "Mounts don't outlive the app" | A mount coming up while the program quits is registered after `unmount_all` and outlives it. |
| `spice_agent_size` | `SpiceWidget`: "this is that retry, sent immediately once the agent is actually in a position to honor it" | The retry runs when the agent connects, before its capabilities are known, and is dropped; nothing asks again when they are. |

In `mounts`, `OnlyLateMountsSurvive` states the exception exactly: what survives
came into the table after the quit had begun.  `ProcessesAccounted` and
`OnlyLateMountsSurvive` except a remote removed while another operation of
it is under way (`entangled`), which the menu allows: such a removal can leave a
mount nobody tracks.  The exceptions of the other properties are named in section 2.

## 6. Hazards

`PROJECT.json` lists them with their lines and the properties that watch them.  Where
a property excludes an execution, the note says which; the model reaches it.  Related
hazards of one place are listed together.

## 7. Not modelled

* Inside the modelled parts: labels and status messages, command lines, log files,
  Windows drive letters, `TunnelManager`'s command line, SPICE's keyboard and scaling,
  RDP's scan codes, the protocols FTP and SFTP, the Windows installer, a terminal's
  colours, selection and scroll-back.
* FreeRDP's bindings: 5000 generated lines that declare a C library.
* Forms and tables: what the fields of a dialog are (`scheduler_dialogs.py`, and of
  `hosting_dialogs.py` all but what is filled in, accepted and sent), the widgets that show
  what the server answers, the Backups tab of the hosting manager (its destinations and
  schedules: a list with its calls, like those of `SchedulerTab`), the columns and searches
  of identity management, themes and icons.  They hold no state beyond what they show, and
  are the bulk of the lines the map does not cover.
* In `AppUpdate`, an `rm -rf` that fails: the script looks at the outcome of none of its
  three (`update_checker.py:255`, `:260`, `:262`).  Where the first fails and the folder of
  the last update stays, the old bundle is moved into it and not in its place.
* Python 3.12 and later, where the cancelled `serve_forever` of a tunnel may wait for its
  clients: that delays `ThreadEnds` of `ConnectionSessions`, but not the join, which has a
  timeout.
* Under WSL `HelperProcess.stop` kills `wsl.exe`, and the Linux helper ends because its
  pipe does: in `SpiceHelper` both are one process.
* What the single remote commands do on the server, and the parsing of their answers
  (`hosting_manager.py`, `scheduler_manager.py`, `proftpd_manager.py`), except the ProFTPD helper script, which is part of this repository and
  modelled.
* The browser of buckets, which is like that of rclone remotes.
* The download of rclone, and the menu for its path.
* Discovery of shells, the message viewer, the list of recent files: they read and
  keep nothing.
* Packaging and build scripts: sequences of external commands.

The map covers 30% of the implementation's lines; the bindings and the forms are
most of the rest.

## 8. Plan

1. RDP's resizing over the wake event of `RdpSessionWorker`: `RdpDesktop` and
   `RdpSessionWorker` composed.
2. Two ProFTPD helper processes at once; a manager's tab composed with the script.
3. A proof of `ServerInStep` of `ProftpdHelper`, whose failures leave mounts behind.
4. The Backups tab of the hosting manager.

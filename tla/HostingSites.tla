---------------------------- MODULE HostingSites ----------------------------
(***************************************************************************)
(* The Sites tab of the hosting manager: the list of sites and SiteDetail  *)
(* (widgets/hosting_manager_widget.py) with its SiteBackupsPanel           *)
(* (hosting_backups.py) and TrafficPanel (hosting_traffic.py).             *)
(*                                                                         *)
(* No call to the server blocks the window: the user may choose another    *)
(* site while some run, and they end in any order.  A few of the answers   *)
(* are checked against the site shown when they come; most are not.        *)
(*                                                                         *)
(* Left out: the other tabs of the manager, the cards of the applications, *)
(* and what a site's settings are.  The tabs that need no call to be       *)
(* filled (Settings, HTTPS, Databases, nginx) are one, "settings".         *)
(* Backups are taken as set up.                                            *)
(***************************************************************************)
EXTENDS Naturals, Bags

CONSTANTS
  Sites, NoSite,
  MaxEvents,     \* bound of the model: what the user does, and failures
  MaxCalls       \* bound of the model: the calls under way at a step of the user

\* Of the constants; an ASSUME of the module that instantiates this one.
SitesAssumption == NoSite \notin Sites

VARIABLES
  sites,       \* the rows of site_table
  selected,    \* the row that is selected
  site,        \* SiteDetail.name
  tab,         \* the current one of SiteDetail.tabs
  held,        \* the site whose data each panel or form holds
  vhosts,      \* the helper has whole vhosts: vhost is not None
  loadedFor,   \* loaded_for of the two panels that have it
  sftpLoaded,  \* sftp_loaded
  job,         \* the state of storage_job
  timers,      \* of _storage_poll and _poll, those that run
  wasBusy,     \* _was_busy
  calls,       \* the calls under way, with their answers once they have one
  connected,   \* the tab's connection is up
  hosted,      \* the sites on the server,
  moves,       \* the moves of their files there,
  backups,     \* and the sites being backed up or restored
  astray,      \* history: the selected site's answer failed, or another's came
  late,        \* history: panels whose last answer was of a site not shown
  unfollowed,  \* history: polls that failed, or that a reconnect stopped
  events

vars == <<sites, selected, site, tab, held, vhosts, loadedFor, sftpLoaded, job, timers,
          wasBusy, calls, connected, hosted, moves, backups, astray, late,
          unfollowed, events>>

Maybe == Sites \union {NoSite}
Panels == {"cron", "sftp", "logs", "backups", "traffic"}
Forms == {"settings", "nginx"}
Polls == {"storage", "backups"}
JobStates == {"none", "running", "over"}
Kinds == Panels \union
  {"load", "save", "nginx", "vhost", "keys", "job", "poll", "measure", "move", "dismiss",
   "snapshots", "status", "backup", "list", "create", "delete"}

\* "names" are the sites in an answer that lists some.
Call == [kind : Kinds, of : Maybe,
         answer : {"waiting", "failed", "ok"} \union JobStates,
         names : SUBSET Sites]

TypeOK ==
  /\ sites \subseteq Sites /\ hosted \subseteq Sites /\ backups \subseteq Sites
  /\ selected \in Maybe /\ site \in Maybe
  /\ tab \in Panels \union {"settings"}
  /\ held \in [Panels \union Forms -> Maybe]
  /\ loadedFor \in [{"backups", "traffic"} -> Maybe]
  /\ job \in JobStates
  /\ timers \subseteq Polls /\ unfollowed \subseteq Polls
  /\ IsABag(calls) /\ BagToSet(calls) \subseteq Call
  /\ moves \in [Sites -> JobStates]
  /\ late \subseteq Panels \union {"nginx"}
  /\ {vhosts, sftpLoaded, wasBusy, connected, astray} \subseteq BOOLEAN
  /\ events \in Nat

Ask(kind, s) ==
  [kind |-> kind, of |-> s, answer |-> "waiting", names |-> {}]

\* The list of the first status is on its way.
Init ==
  /\ sites = {} /\ selected = NoSite /\ site = NoSite
  /\ tab \in Panels \union {"settings"}
  /\ held = [p \in Panels \union Forms |-> NoSite] /\ vhosts \in BOOLEAN
  /\ loadedFor = [p \in {"backups", "traffic"} |-> NoSite]
  /\ sftpLoaded = FALSE /\ job = "none" /\ timers = {} /\ wasBusy = FALSE
  /\ calls = SetToBag({Ask("list", NoSite)})
  /\ connected = TRUE
  /\ hosted \in SUBSET Sites
  /\ moves = [s \in Sites |-> "none"] /\ backups = {}
  /\ astray = FALSE /\ late = {} /\ unfollowed = {} /\ events = 0

detailVars == <<site, held, loadedFor, sftpLoaded, job, timers, unfollowed, late>>
serverVars == <<vhosts, hosted, moves, backups>>

-----------------------------------------------------------------------------
(* What the handlers share.                                                *)

\* SiteBackupsPanel.clear and SiteDetail.stop, from clear.
ClearDetail ==
  /\ site' = NoSite
  /\ timers' = {}
  /\ held' = [held EXCEPT !["backups"] = NoSite]
  /\ loadedFor' = [loadedFor EXCEPT !["backups"] = NoSite]
  /\ UNCHANGED <<sftpLoaded, job, unfollowed, late>>

\* _on_tab_changed: what it asks for of site s, in a panel that holds what
\* h and the others say.
TabAsks(t, s, h, loaded, sftp) ==
  IF \/ t = "cron"
     \/ t = "sftp" /\ ~sftp
     \/ t = "logs" /\ h["logs"] = NoSite
     \/ t \in {"backups", "traffic"} /\ loaded[t] # s
  THEN {Ask(t, s)} ELSE {}

LoadedBy(asks, loaded) ==
  [p \in DOMAIN loaded |->
     IF \E a \in asks : a.kind = p THEN (CHOOSE a \in asks : a.kind = p).of
     ELSE loaded[p]]

\* What a panel holds, of those that showing another site clears.
Cleared == {"cron", "logs", "backups", "traffic"}

\* Mutant of Emptied: the snapshots of the site shown before stay.
EmptiedButBackups(h) ==
  [p \in DOMAIN h |-> IF p \in Cleared \ {"backups"} THEN NoSite ELSE h[p]]

Emptied(h) == [p \in DOMAIN h |-> IF p \in Cleared THEN NoSite ELSE h[p]]

\* _show_settings, _show_https, _show_databases and _show_nginx.
Filled(h, s) == [p \in DOMAIN h |-> IF p \in Forms THEN s ELSE h[p]]

\* show_site, with the calls that are left.
ShowSite(s, rest) ==
  LET changed == s # site
      h == Filled(IF changed THEN Emptied(held) ELSE held, s)
      loaded == IF changed THEN [p \in DOMAIN loadedFor |-> NoSite] ELSE loadedFor
      sftp == sftpLoaded /\ ~changed
      asks == TabAsks(tab, s, h, loaded, sftp)
  IN  /\ site' = s
      /\ held' = h
      /\ loadedFor' = LoadedBy(asks, loaded)
      /\ sftpLoaded' = sftp
      /\ job' = IF changed THEN "none" ELSE job
      /\ timers' = IF changed THEN timers \ {"backups"} ELSE timers
      /\ unfollowed' = IF changed THEN {} ELSE unfollowed
      /\ late' = late \ ({"nginx"} \union IF changed THEN Cleared ELSE {})
      /\ calls' = rest (+) SetToBag(asks)
                       (+) SetToBag(IF changed THEN {Ask("poll", s)} ELSE {})

\* show_storage.
ShowStorage(state, rest) ==
  /\ job' = state
  /\ timers' = IF state = "running" THEN timers \union {"storage"} ELSE timers
  /\ unfollowed' = unfollowed \ {"storage"}
  /\ calls' = rest (+) SetToBag(IF state # "running" /\ job = "running"
                                THEN {Ask("load", site)} ELSE {})
  /\ UNCHANGED <<site, held, loadedFor, sftpLoaded, late, wasBusy>>

\* SiteBackupsPanel.show_backup; "reset" is that of load.
ShowBackup(busySites, reset, rest) ==
  IF site # loadedFor["backups"]
  THEN calls' = rest /\ UNCHANGED <<detailVars, wasBusy>>
  ELSE LET busy == site \in busySites
       IN  /\ wasBusy' = busy
           /\ timers' = IF busy THEN timers \union {"backups"} ELSE timers
           /\ unfollowed' = unfollowed \ {"backups"}
           /\ calls' = rest (+) SetToBag(IF reset \/ (wasBusy /\ ~busy)
                                         THEN {Ask("snapshots", site)} ELSE {})
           /\ UNCHANGED <<site, held, loadedFor, sftpLoaded, job, late>>

\* HostingManagerWidget.show_sites.
ShowSites(names) ==
  /\ sites' = names
  /\ IF site \in names
     THEN selected' = site /\ UNCHANGED detailVars
     ELSE selected' = NoSite /\ ClearDetail

-----------------------------------------------------------------------------
(* The user.                                                               *)

User ==
  /\ connected /\ BagCardinality(calls) < MaxCalls
  /\ events < MaxEvents /\ events' = events + 1

\* _on_site_selected.
Select(s) ==
  /\ User /\ s \in sites \ {selected}
  /\ selected' = s
  /\ calls' = calls (+) SetToBag(IF s # site THEN {Ask("load", s)} ELSE {})
  /\ astray' = FALSE
  /\ UNCHANGED <<detailVars, sites, tab, wasBusy, connected, serverVars>>

Deselect ==
  /\ User /\ selected # NoSite
  /\ selected' = NoSite /\ astray' = FALSE
  /\ ClearDetail
  /\ UNCHANGED <<sites, tab, wasBusy, calls, connected, serverVars>>

\* _on_tab_changed, with a site.
OpenTab(t) ==
  LET asks == TabAsks(t, site, held, loadedFor, sftpLoaded)
  IN  /\ User /\ site # NoSite /\ t # tab
      /\ tab' = t
      /\ loadedFor' = LoadedBy(asks, loadedFor)
      /\ calls' = calls (+) SetToBag(asks)
      /\ UNCHANGED <<sites, selected, site, held, sftpLoaded, job, timers, late,
                     unfollowed, wasBusy, connected, serverVars, astray>>

\* What the buttons ask for, each on its tab.
Asks(kind) ==
  /\ User /\ site # NoSite
  /\ calls' = calls (+) SetToBag({Ask(kind, site)})
  /\ UNCHANGED <<detailVars, sites, selected, tab, wasBusy, connected, serverVars,
                 astray>>

SaveSettings == tab = "settings" /\ Asks("save")

\* The certificates and the redirect: Issue, Upload, Self-Signed, Remove SSL.
ChangeHttps == tab = "settings" /\ Asks("save")

\* _app_control, _deploy, _update_application, _set_office and its like.
ControlApplication == tab = "settings" /\ Asks("save")

\* The button beside the heading.
ToggleDisabled == Asks("save")

\* Enable, Disable and the actions of an app in the menu of a row: they act on
\* the site that is shown.
SitesMenu == selected # NoSite /\ Asks("save")

\* _save_nginx and _reset_vhost; without vhosts, the directives of the site.
SaveVhost == tab = "settings" /\ Asks(IF vhosts THEN "vhost" ELSE "nginx")

\* The Refresh button, or another log.
RefreshLogs == tab = "logs" /\ Asks("logs")

MoveFiles == tab = "settings" /\ job # "running" /\ Asks("measure")
DismissStorage == job = "over" /\ Asks("dismiss")
SftpSet == tab = "sftp" /\ Asks("keys")
CronChange == tab = "cron" /\ held["cron"] # NoSite /\ Asks("job")
BackupNow == tab = "backups" /\ ~wasBusy /\ Asks("backup")

\* The restore of a snapshot that the table holds.
Restore == tab = "backups" /\ held["backups"] # NoSite /\ Asks("backup")

\* delete_site, refresh_sites and create_site need no site shown.
ManagerAsks(kind, s) ==
  /\ User
  /\ calls' = calls (+) SetToBag({Ask(kind, s)})
  /\ UNCHANGED <<detailVars, sites, selected, tab, wasBusy, connected, serverVars,
                 astray>>

DeleteSite(s) == s \in sites /\ ManagerAsks("delete", s)
CreateSite(s) == s \notin sites /\ ManagerAsks("create", s)
RefreshSites == ManagerAsks("list", NoSite)

\* connect_to_server, with before_reconnect; a new connection, or none.
Reconnect ==
  /\ User
  /\ connected' = FALSE
  /\ timers' = {} /\ unfollowed' = Polls
  /\ held' = [held EXCEPT !["backups"] = NoSite]
  /\ loadedFor' = [loadedFor EXCEPT !["backups"] = NoSite]
  /\ UNCHANGED <<sites, selected, site, tab, sftpLoaded, job, late, wasBusy, calls,
                 serverVars, astray>>

\* on_connected and _on_first_status.
OnConnected ==
  /\ ~connected
  /\ connected' = TRUE
  /\ calls' = calls (+) SetToBag({Ask("list", NoSite)})
  /\ UNCHANGED <<detailVars, sites, selected, tab, wasBusy, serverVars, astray,
                 events>>

\* _poll_storage and _poll_status.
TimerFires ==
  \E t \in timers :
    /\ timers' = timers \ {t}
    /\ calls' = calls (+) SetToBag(
         IF t = "backups" THEN {Ask("status", NoSite)}
         ELSE IF site # NoSite THEN {Ask("poll", site)} ELSE {})
    /\ UNCHANGED <<sites, selected, site, tab, held, loadedFor, sftpLoaded, job,
                   wasBusy, connected, serverVars, astray, late, unfollowed,
                   events>>

-----------------------------------------------------------------------------
(* The server.                                                             *)

clientVars == <<vhosts, detailVars, sites, selected, tab, wasBusy, connected, astray>>

Answered(c, answer, names) ==
  calls' = (calls (-) SetToBag({c}))
           (+) SetToBag({[c EXCEPT !.answer = answer, !.names = names]})

\* The helper makes the call.
Serve(c) ==
  /\ BagIn(c, calls) /\ c.answer = "waiting" /\ connected
  /\ c.of \in hosted \/ c.of = NoSite \/ c.kind = "create"
  /\ c.of = NoSite => c.kind \in {"list", "backups", "status"}
  /\ hosted' = CASE c.kind = "create" -> hosted \union {c.of}
                 [] c.kind = "delete" -> hosted \ {c.of}
                 [] OTHER -> hosted
  /\ moves' = CASE c.kind = "move" -> [moves EXCEPT ![c.of] = "running"]
                [] c.kind = "dismiss" /\ moves[c.of] = "over"
                     -> [moves EXCEPT ![c.of] = "none"]
                [] OTHER -> moves
  /\ backups' = IF c.kind = "backup" THEN backups \union {c.of} ELSE backups
  /\ Answered(c,
       IF c.kind \in {"poll", "move", "dismiss"} THEN moves'[c.of] ELSE "ok",
       IF c.kind = "list" THEN hosted
       ELSE IF c.kind \in {"backups", "status", "backup"} THEN backups' ELSE {})
  /\ UNCHANGED <<clientVars, events>>

\* The connection fails it, or the helper: there is no such site.
Fail(c) ==
  /\ BagIn(c, calls) /\ c.answer = "waiting"
  /\ IF connected /\ c.of \in hosted \union {NoSite}
     THEN events < MaxEvents /\ events' = events + 1
     ELSE UNCHANGED events
  /\ Answered(c, "failed", {})
  /\ UNCHANGED <<clientVars, serverVars>>

MoveEnds ==
  \E s \in Sites :
    /\ moves[s] = "running"
    /\ moves' = [moves EXCEPT ![s] = "over"]
    /\ UNCHANGED <<clientVars, calls, hosted, backups, events>>

BackupEnds ==
  \E s \in backups :
    /\ backups' = backups \ {s}
    /\ UNCHANGED <<clientVars, calls, hosted, moves, events>>

-----------------------------------------------------------------------------
(* The answers, on Qt's thread.                                            *)

Answer(c, kinds) ==
  BagIn(c, calls) /\ c.kind \in kinds /\ c.answer \notin {"waiting", "failed"}

Rest(c) == calls (-) SetToBag({c})
others == <<tab, connected, serverVars, events>>

SiteAnswered(c) ==
  /\ Answer(c, {"load", "save"})
  /\ ShowSite(c.of, Rest(c))
  /\ astray' = (c.of # selected)
  /\ UNCHANGED <<sites, selected, wasBusy, others>>

\* show_cron, show_sftp, show of refresh_logs, show_traffic, and setPlainText of
\* the editor of directives.
PanelAnswered(c) ==
  LET p == IF c.kind = "keys" THEN "sftp" ELSE c.kind
  IN  /\ Answer(c, {"cron", "sftp", "keys", "logs", "traffic", "nginx"})
      /\ held' = [held EXCEPT ![p] = c.of]
      /\ sftpLoaded' = (sftpLoaded \/ p = "sftp")
      /\ late' = IF c.of = site THEN late \ {p} ELSE late \union {p}
      /\ calls' = Rest(c)
      /\ UNCHANGED <<sites, selected, site, loadedFor, job, timers, unfollowed,
                     wasBusy, astray, others>>

\* _after_vhost_change and _after_cron_change.
ChangeAnswered(c) ==
  /\ Answer(c, {"vhost", "job"})
  /\ calls' = Rest(c) (+) SetToBag({Ask(IF c.kind = "job" THEN "cron" ELSE "load",
                                        site)})
  /\ UNCHANGED <<detailVars, sites, selected, wasBusy, astray, others>>

\* ask of _move_files: the user says where to.
Measured(c) ==
  /\ Answer(c, {"measure"})
  /\ calls' = Rest(c) (+) SetToBag({Ask("move", c.of)})
  /\ UNCHANGED <<detailVars, sites, selected, wasBusy, astray, others>>

\* show of _poll_storage.
Polled(c) ==
  /\ Answer(c, {"poll"})
  /\ IF c.of = site THEN ShowStorage(c.answer, Rest(c))
     ELSE calls' = Rest(c) /\ UNCHANGED <<detailVars, wasBusy>>
  /\ UNCHANGED <<sites, selected, astray, others>>

StorageAnswered(c) ==
  /\ Answer(c, {"move", "dismiss"})
  /\ ShowStorage(c.answer, Rest(c))
  /\ UNCHANGED <<sites, selected, astray, others>>

BackupsAnswered(c) ==
  /\ Answer(c, {"backups", "status", "backup"})
  /\ ShowBackup(c.names, c.kind = "backups", Rest(c))
  /\ UNCHANGED <<sites, selected, astray, others>>

\* show of load_snapshots.
SnapshotsAnswered(c) ==
  /\ Answer(c, {"snapshots"})
  /\ held' = IF c.of = site THEN [held EXCEPT !["backups"] = c.of] ELSE held
  /\ calls' = Rest(c)
  /\ UNCHANGED <<sites, selected, site, loadedFor, sftpLoaded, job, timers, late,
                 unfollowed, wasBusy, astray, others>>

ListAnswered(c) ==
  /\ Answer(c, {"list"})
  /\ ShowSites(c.names)
  /\ calls' = Rest(c)
  /\ astray' = FALSE
  /\ UNCHANGED <<wasBusy, others>>

\* add of create_site.
Created(c) ==
  /\ Answer(c, {"create"})
  /\ ClearDetail
  /\ sites' = sites \union {c.of} /\ selected' = c.of /\ astray' = FALSE
  /\ calls' = Rest(c) (+) SetToBag({Ask("load", c.of)})
  /\ UNCHANGED <<wasBusy, others>>

\* done of delete_site.
Deleted(c) ==
  /\ Answer(c, {"delete"})
  /\ IF site = c.of THEN ClearDetail ELSE UNCHANGED detailVars
  /\ calls' = Rest(c) (+) SetToBag({Ask("list", NoSite)})
  /\ UNCHANGED <<sites, selected, wasBusy, astray, others>>

\* Busy's failed, and the errors that the polls swallow.
Failed(c) ==
  /\ BagIn(c, calls) /\ c.answer = "failed"
  /\ calls' = Rest(c)
  /\ unfollowed' = unfollowed
       \union (IF c.kind = "poll" THEN {"storage"} ELSE {})
       \union (IF c.kind \in {"backups", "status"} THEN {"backups"} ELSE {})
  /\ astray' = \/ astray
               \/ c.kind = "list"
               \/ c.kind = "load" /\ c.of = selected
  /\ UNCHANGED <<sites, selected, site, held, loadedFor, sftpLoaded, job, timers,
                 late, wasBusy, others>>

-----------------------------------------------------------------------------
Next ==
  \/ \E s \in Sites : Select(s) \/ DeleteSite(s) \/ CreateSite(s)
  \/ Deselect \/ \E t \in Panels \union {"settings"} : OpenTab(t)
  \/ SaveSettings \/ ChangeHttps \/ ControlApplication \/ ToggleDisabled
  \/ SitesMenu \/ SaveVhost \/ RefreshLogs \/ MoveFiles \/ DismissStorage
  \/ SftpSet \/ CronChange \/ BackupNow \/ Restore
  \/ RefreshSites \/ Reconnect \/ OnConnected \/ TimerFires
  \/ MoveEnds \/ BackupEnds
  \/ \E c \in BagToSet(calls) :
       \/ Serve(c) \/ Fail(c)
       \/ SiteAnswered(c) \/ PanelAnswered(c) \/ ChangeAnswered(c)
       \/ Measured(c) \/ Polled(c) \/ StorageAnswered(c)
       \/ BackupsAnswered(c) \/ SnapshotsAnswered(c)
       \/ ListAnswered(c) \/ Created(c) \/ Deleted(c) \/ Failed(c)

Spec == Init /\ [][Next]_vars

-----------------------------------------------------------------------------
Under(kinds) == \E c \in BagToSet(calls) : c.kind \in kinds

(* A restore names the site shown and a snapshot of the table: they belong *)
(* together, in whatever order sites are chosen and snapshots listed.      *)
RestoresItsOwn == held["backups"] \in {site, NoSite}

(* What the other panels hold is the site's too, unless an answer came     *)
(* after its site had been left.  (Of the SFTP panel this says less: until *)
(* its own answer comes it goes on showing the site before.)  So is what    *)
(* the forms hold, which is saved for the site shown.                       *)
PanelsFollow ==
  site # NoSite =>
    /\ \A p \in {"cron", "logs", "traffic"} :
         held[p] \in {site, NoSite} \/ p \in late
    /\ \A p \in Forms : held[p] = site \/ p \in late
    /\ sftpLoaded => held["sftp"] = site \/ "sftp" \in late

(* A move or a backup that is shown as running is asked about again,       *)
(* unless an earlier question failed or the tab was reconnected.           *)
RunsAreFollowed ==
  site # NoSite =>
    /\ job = "running" =>
         {"storage"} \intersect (timers \union unfollowed) # {} \/ Under({"poll"})
    /\ wasBusy /\ loadedFor["backups"] = site =>
         \/ "backups" \in timers \union unfollowed
         \/ Under({"status", "backups"})

(* The site shown is the one selected, or will be: no answer but a failed  *)
(* one, or one of a site chosen before, leaves the two apart.              *)
ShownIsSelected ==
  \/ selected = site
  \/ Under({"list"}) \/ astray
  \/ \E c \in BagToSet(calls) : c.kind = "load" /\ c.of = selected

SiteFollowsUser ==
  RestoresItsOwn /\ PanelsFollow /\ RunsAreFollowed /\ ShownIsSelected
=============================================================================

--------------------------- MODULE ConnectionSessions ---------------------------
(***************************************************************************)
(* The sessions of ConnectionManagerView: a click starts a tunnel on a      *)
(* thread-pool thread (core/async_utils.py), the tunnel's arrival on the    *)
(* main thread opens a tab, and closing the tab, the session's own end or   *)
(* the "Active Sessions" window takes both down again.  A tunnel is a       *)
(* BackgroundTunnel (a thread with an asyncio loop, core/tunnel_session.py) *)
(* or an SshTunnel (an ssh process, core/ssh_tunnel.py).                    *)
(*                                                                         *)
(* An attempt names one click and what it leads to: its tunnel, its widget, *)
(* its session.  Main-thread handlers run to completion and are one step.   *)
(***************************************************************************)
EXTENDS Naturals, FiniteSets, Sequences, SequencesExt

CONSTANTS
    Iap,        \* attempts that need a BackgroundTunnel (GCP)
    Gateway,    \* attempts that need an SshTunnel (SSH gateway, qemu+ssh)
    Direct,     \* attempts that open a tab at once: a session without a tunnel,
                \* or a tab that is no session (a bucket, a router)
    Silent,     \* attempts whose widget never ends by itself (file browsers)
    Guarded,    \* attempts whose widget drops its own end once closed (RDP,
                \* SPICE); a terminal's end may still be on its way
    PoolSize,   \* QThreadPool's maxThreadCount
    None        \* Python's None

Tunnelled == Iap \cup Gateway
Attempts == Tunnelled \cup Direct
Ids == 1..Cardinality(Attempts)

ASSUME AttemptsAssumption ==
    /\ IsFiniteSet(Attempts) /\ None \notin Attempts
    /\ Iap \cap Gateway = {} /\ Tunnelled \cap Direct = {}
    /\ PoolSize \in Nat \ {0}

VARIABLES
    stage,                \* how far the attempt has come
    thread,               \* the tunnel's thread or process
    queue, running,       \* the thread pool: jobs waiting, jobs under way
    inbox,                \* the main thread's queued signals
    next_session_id, session_id,
    active_sessions, session_tab_widgets, tabs, dialog,
    widget,               \* the tab's widget
    asked,                \* attempts whose end was asked for, or announced
    stopped,              \* tunnels whose stop() has returned
    app, to_stop, joining \* quitting: the tunnels _stop_all_sessions has left,
                          \* and the one whose stop() it waits in

poolVars == <<queue, running>>
tableVars == <<session_id, next_session_id, active_sessions,
               session_tab_widgets, tabs, dialog, widget>>
quitVars == <<app, to_stop, joining>>
vars == <<stage, thread, poolVars, inbox, tableVars, asked, stopped, quitVars>>

Job(what, c) == [what |-> what, of |-> c]
Jobs == [what : {"start", "stop", "join"}, of : Attempts]
Signals == [what : {"result", "error", "finished"}, of : Attempts]

Init ==
    /\ stage = [c \in Attempts |-> "idle"]
    /\ thread = [c \in Attempts |-> "none"]
    /\ queue = <<>> /\ running = {} /\ inbox = <<>>
    /\ next_session_id = 1
    /\ session_id = [c \in Attempts |-> 0]
    /\ active_sessions = [i \in Ids |-> None]
    /\ session_tab_widgets = [i \in Ids |-> None]
    /\ tabs = {} /\ dialog = {}
    /\ widget = [c \in Attempts |-> "none"]
    /\ asked = {} /\ stopped = {}
    /\ app = "running" /\ to_stop = {} /\ joining = None

-------------------------------------------------------------------------------
(* BackgroundTunnel and SshTunnel. *)

\* _run: the port is bound and _ready set before _serve_task is assigned.
ThreadBinds(c) ==
    /\ c \in Iap /\ thread[c] = "binding"
    /\ thread' = [thread EXCEPT ![c] = "bound"]

ThreadFails(c) ==
    /\ c \in Iap /\ thread[c] = "binding"
    /\ thread' = [thread EXCEPT ![c] = "failed"]

ThreadServes(c) ==
    /\ c \in Iap /\ thread[c] = "bound"
    /\ thread' = [thread EXCEPT ![c] = "serving"]

\* The scheduled cancel reaches the loop.
ThreadEnds(c) ==
    /\ c \in Iap /\ thread[c] = "cancelled"
    /\ thread' = [thread EXCEPT ![c] = "ended"]

\* The ssh process accepts connections on its port, or dies, by itself.
SshForwards(c) ==
    /\ c \in Gateway /\ thread[c] = "binding"
    /\ thread' = [thread EXCEPT ![c] = "serving"]

SshDies(c) ==
    /\ c \in Gateway /\ thread[c] \in {"binding", "serving"}
    /\ thread' = [thread EXCEPT ![c] = "ended"]

Unseen == UNCHANGED <<stage, poolVars, inbox, tableVars, asked, stopped, quitVars>>

\* A daemon thread or a process moves on by itself; threads die with the app.
TunnelStep(c) ==
    /\ app # "exited" \/ c \in Gateway
    /\ \/ ThreadBinds(c) \/ ThreadFails(c) \/ ThreadServes(c) \/ ThreadEnds(c)
       \/ SshForwards(c) \/ SshDies(c)
    /\ Unseen

\* stop(), first part: cancel the serve task, if there is one; terminate ssh.
Cancelled(c) ==
    IF c \in Iap /\ thread[c] = "serving" THEN [thread EXCEPT ![c] = "cancelled"]
    ELSE IF c \in Gateway THEN [thread EXCEPT ![c] = "ended"]
    ELSE thread

\* Mutant of JoinReturns: join() without its timeout.
JoinWithoutTimeout(c) == thread[c] \in {"none", "failed", "ended"}

\* stop(), second part: join(timeout) gives up at any time.
JoinReturns(c) == thread[c] # "none"

-------------------------------------------------------------------------------
(* The thread pool. *)

PoolTakes ==
    /\ queue # <<>> /\ Cardinality(running) < PoolSize
    /\ queue' = Tail(queue) /\ running' = running \cup {Head(queue)}
    /\ thread' = IF Head(queue).what = "start"
                 THEN [thread EXCEPT ![Head(queue).of] = "binding"]
                 ELSE thread
    /\ UNCHANGED <<stage, inbox, tableVars, asked, stopped, quitVars>>

Posted(what, c) == Append(inbox, Job(what, c))

\* Mutant of StartGivesUp: start() waits for as long as it takes.
StartWaits(c) == thread[c] \in {"failed", "ended"}

\* start() raises: the thread or the process has failed, or the wait timed out.
StartGivesUp(c) == thread[c] \in {"binding", "failed", "ended"}

\* start() returns to _start_tunnel, in the pool thread.  An ssh process that
\* is too late is stopped; a BackgroundTunnel's thread is left behind.
StartReturns(c) ==
    /\ Job("start", c) \in running
    /\ \/ /\ thread[c] \in {"bound", "serving"}
          /\ inbox' = Posted("result", c) /\ UNCHANGED thread
       \/ /\ StartGivesUp(c)
          /\ inbox' = Posted("error", c)
          /\ thread' = IF c \in Gateway THEN Cancelled(c) ELSE thread
    /\ running' = running \ {Job("start", c)}
    /\ UNCHANGED <<stage, queue, tableVars, asked, stopped, quitVars>>

StopBegins(c) ==
    /\ Job("stop", c) \in running
    /\ thread' = Cancelled(c)
    /\ running' = (running \ {Job("stop", c)}) \cup {Job("join", c)}
    /\ UNCHANGED <<stage, queue, inbox, tableVars, asked, stopped, quitVars>>

StopReturns(c) ==
    /\ Job("join", c) \in running /\ JoinReturns(c)
    /\ running' = running \ {Job("join", c)}
    /\ stopped' = stopped \cup {c}
    /\ UNCHANGED <<stage, thread, queue, inbox, tableVars, asked, quitVars>>

-------------------------------------------------------------------------------
(* The main thread: opening and closing sessions. *)

\* Mutant of FreshId: the lowest id not in use.
LowestFreeId ==
    CHOOSE i \in Ids : /\ session_tab_widgets[i] = None
                       /\ \A j \in 1..(i - 1) : session_tab_widgets[j] # None

FreshId == next_session_id

\* _on_tunnel_ready and its siblings: number the session, note its tunnel,
\* embed its widget in a tab and list it.
OpenSession(c) ==
    /\ session_id' = [session_id EXCEPT ![c] = FreshId]
    /\ next_session_id' = next_session_id + 1
    /\ active_sessions' = IF c \in Tunnelled
                          THEN [active_sessions EXCEPT ![FreshId] = c]
                          ELSE active_sessions
    /\ session_tab_widgets' = [session_tab_widgets EXCEPT ![FreshId] = c]
    /\ tabs' = tabs \cup {c} /\ dialog' = dialog \cup {FreshId}
    /\ widget' = [widget EXCEPT ![c] = "open"]

\* Mutant of TunnelPopped: active_sessions.get where the code pops.
TunnelLeft(i) == UNCHANGED active_sessions

\* Mutant of TunnelPopped: the session's number is left where its tunnel was.
TunnelNumbered(i) == active_sessions' = [active_sessions EXCEPT ![i] = i]

TunnelPopped(i) == active_sessions' = [active_sessions EXCEPT ![i] = None]

\* Mutant of DisconnectRequested: the list is not told when the tab is gone.
DisconnectUnlisted(i) ==
    LET w == session_tab_widgets[i] IN
    /\ tabs' = tabs \ {w}
    /\ session_tab_widgets' = [session_tab_widgets EXCEPT ![i] = None]
    /\ widget' = [c \in Attempts |-> IF c = w THEN "closed" ELSE widget[c]]
    /\ active_sessions' = [active_sessions EXCEPT ![i] = None]
    /\ UNCHANGED <<session_id, next_session_id, queue, dialog>>

\* _on_disconnect_requested(i), for a session that may be gone already.
DisconnectRequested(i) ==
    LET w == session_tab_widgets[i]
        t == active_sessions[i]
    IN /\ dialog' = dialog \ {i}
       /\ tabs' = tabs \ {w}
       /\ session_tab_widgets' = [session_tab_widgets EXCEPT ![i] = None]
       /\ widget' = [c \in Attempts |-> IF c = w THEN "closed" ELSE widget[c]]
       /\ TunnelPopped(i)
       /\ queue' = IF t # None THEN Append(queue, Job("stop", t)) ELSE queue
       /\ UNCHANGED <<session_id, next_session_id>>

\* The user starts a connection (the dialogs that ask for a login are left out:
\* one that is cancelled starts nothing).
StartTunnel(c) ==
    /\ stage' = [stage EXCEPT ![c] = "starting"]
    /\ queue' = Append(queue, Job("start", c))
    /\ UNCHANGED tableVars

OpenAtOnce(c) ==
    /\ stage' = [stage EXCEPT ![c] = "resolved"]
    /\ OpenSession(c) /\ UNCHANGED queue

\* _start_session_from_instance, with _connect.
ConnectInstance(c) == c \in Iap /\ StartTunnel(c)

\* _start_session_from_manual_connection.
ConnectManual(c) ==
    \/ c \in Gateway /\ StartTunnel(c)
    \/ c \in Direct /\ OpenAtOnce(c)

\* _connect_qemu, to another host.
ConnectQemu(c) == c \in Gateway /\ StartTunnel(c)

\* _start_manual_ftp_session; _open_qemu_sftp, where the address is known.
ConnectFiles(c) == c \in Direct /\ OpenAtOnce(c)

Connect(c) ==
    /\ app = "running" /\ stage[c] = "idle"
    /\ ConnectInstance(c) \/ ConnectManual(c) \/ ConnectQemu(c) \/ ConnectFiles(c)
    /\ UNCHANGED <<thread, running, inbox, asked, stopped, quitVars>>

\* A tab that is no session: _open_bucket, the router dashboard.
OpenPlain(c) ==
    /\ app = "running" /\ stage[c] = "idle" /\ c \in Direct
    /\ stage' = [stage EXCEPT ![c] = "resolved"]
    /\ tabs' = tabs \cup {c} /\ widget' = [widget EXCEPT ![c] = "open"]
    /\ UNCHANGED <<thread, poolVars, inbox, session_id, next_session_id,
                   active_sessions, session_tab_widgets, dialog, asked, stopped,
                   quitVars>>

\* A queued signal is delivered.
Deliver ==
    /\ app = "running" /\ inbox # <<>> /\ inbox' = Tail(inbox)
    /\ LET s == Head(inbox) IN
       \/ /\ s.what = "result"
          /\ OpenSession(s.of)
          /\ stage' = [stage EXCEPT ![s.of] = "resolved"] /\ UNCHANGED queue
       \/ /\ s.what = "error"
          /\ stage' = [stage EXCEPT ![s.of] = "resolved"]
          /\ UNCHANGED <<tableVars, queue>>
       \/ /\ s.what = "finished" /\ UNCHANGED stage
          /\ IF s.of \in Guarded /\ widget[s.of] = "closed"
             THEN UNCHANGED <<tableVars, queue>>
             ELSE DisconnectRequested(session_id[s.of])
    /\ UNCHANGED <<thread, running, asked, stopped, quitVars>>

\* The session ends by itself: its terminal reaches end of file, its worker
\* reports an error or a disconnect.  The widget emits `finished` once.
WidgetFinishes(c) ==
    /\ app = "running" /\ widget[c] = "open"
    /\ session_id[c] # 0 /\ c \notin Silent \cup asked
    /\ asked' = asked \cup {c} /\ inbox' = Posted("finished", c)
    /\ UNCHANGED <<stage, thread, poolVars, tableVars, stopped, quitVars>>

\* try_close_tab(c), or the entry of c in the "Active Sessions" window.
UserCloses(c) ==
    /\ app = "running" /\ c \in tabs
    /\ asked' = asked \cup {c}
    /\ \/ \E i \in Ids : session_tab_widgets[i] = c /\ DisconnectRequested(i)
       \/ /\ \A i \in Ids : session_tab_widgets[i] # c
          /\ tabs' = tabs \ {c} /\ widget' = [widget EXCEPT ![c] = "closed"]
          /\ UNCHANGED <<queue, session_id, next_session_id, active_sessions,
                         session_tab_widgets, dialog>>
    /\ UNCHANGED <<stage, thread, running, inbox, stopped, quitVars>>

-------------------------------------------------------------------------------
(* Quitting. *)

\* aboutToQuit: _stop_all_sessions closes every session's widget, ...
Quit ==
    /\ app = "running" /\ app' = "stopping"
    /\ widget' = [c \in Attempts |->
                    IF \E i \in Ids : session_tab_widgets[i] = c THEN "closed"
                    ELSE widget[c]]
    /\ session_tab_widgets' = [i \in Ids |-> None]
    /\ to_stop' = {active_sessions[i] : i \in Ids} \ {None}
    /\ active_sessions' = [i \in Ids |-> None]
    /\ UNCHANGED <<stage, thread, poolVars, inbox, session_id, next_session_id,
                   tabs, dialog, asked, stopped, joining>>

\* ... and stops their tunnels, one after the other, on the main thread.
QuitStops(c) ==
    /\ app = "stopping" /\ joining = None /\ c \in to_stop
    /\ joining' = c /\ to_stop' = to_stop \ {c}
    /\ thread' = Cancelled(c)
    /\ UNCHANGED <<stage, poolVars, inbox, tableVars, asked, stopped, app>>

QuitJoins ==
    /\ joining # None /\ JoinReturns(joining)
    /\ stopped' = stopped \cup {joining} /\ joining' = None
    /\ UNCHANGED <<stage, thread, poolVars, inbox, tableVars, asked, app, to_stop>>

\* Qt waits for the pool before the process ends; its threads end with it.
Exit ==
    /\ app = "stopping" /\ to_stop = {} /\ joining = None
    /\ queue = <<>> /\ running = {}
    /\ app' = "exited"
    /\ thread' = [c \in Attempts |->
                    IF c \in Iap /\ thread[c] # "none" THEN "ended" ELSE thread[c]]
    /\ UNCHANGED <<stage, poolVars, inbox, tableVars, asked, stopped, to_stop,
                   joining>>

PoolStep(c) == StartReturns(c) \/ StopBegins(c) \/ StopReturns(c)
UserStep(c) == Connect(c) \/ OpenPlain(c) \/ UserCloses(c)

Next ==
    \/ PoolTakes \/ Deliver \/ Quit \/ QuitJoins \/ Exit
    \/ \E c \in Attempts :
         TunnelStep(c) \/ PoolStep(c) \/ QuitStops(c) \/ UserStep(c)
                       \/ WidgetFinishes(c)

Spec == Init /\ [][Next]_vars

\* The OS runs every thread, Qt's loop delivers what is queued, and every wait
\* of the code has a timeout.  The user need not do anything, a session need
\* not end, an ssh process need not die.
Fairness ==
    /\ WF_vars(PoolTakes) /\ WF_vars(Deliver)
    /\ WF_vars(QuitJoins) /\ WF_vars(Exit)
    /\ \A c \in Attempts :
         /\ WF_vars(PoolStep(c)) /\ WF_vars(QuitStops(c))
         /\ WF_vars(app # "exited" /\ Unseen
                    /\ (ThreadBinds(c) \/ ThreadServes(c) \/ ThreadEnds(c)))

FairSpec == Spec /\ Fairness

-------------------------------------------------------------------------------
(* Properties. *)

\* Every variable keeps its type.
TypeOK ==
    /\ stage \in [Attempts -> {"idle", "starting", "resolved"}]
    /\ thread \in [Attempts -> {"none", "binding", "bound", "serving", "failed",
                               "cancelled", "ended"}]
    /\ queue \in Seq(Jobs) /\ running \subseteq Jobs /\ inbox \in Seq(Signals)
    /\ next_session_id \in Nat /\ session_id \in [Attempts -> Ids \cup {0}]
    /\ active_sessions \in [Ids -> Tunnelled \cup {None}]
    /\ session_tab_widgets \in [Ids -> Attempts \cup {None}]
    /\ tabs \subseteq Attempts /\ dialog \subseteq Ids
    /\ widget \in [Attempts -> {"none", "open", "closed"}]
    /\ asked \subseteq Attempts /\ stopped \subseteq Tunnelled
    /\ app \in {"running", "stopping", "exited"}
    /\ to_stop \subseteq Tunnelled /\ joining \in Tunnelled \cup {None}

\* The four tables the handlers keep by hand agree between two handlers: the
\* list shows the sessions that have a widget, a session with a tunnel is in
\* _active_sessions under its own id, and the tab bar holds the open widgets.
TablesAgree ==
    app = "running" =>
        /\ dialog = {i \in Ids : session_tab_widgets[i] # None}
        /\ tabs = {c \in Attempts : widget[c] = "open"}
        /\ \A i \in Ids :
             active_sessions[i] = IF session_tab_widgets[i] \in Tunnelled
                                  THEN session_tab_widgets[i] ELSE None

\* A session is closed only when its own end was asked for or announced: a
\* `finished` that arrives late, after the user has closed the tab, never
\* takes down another session.
OnlyAskedSessionsClose ==
    app = "running" => \A c \in Attempts : widget[c] = "closed" => c \in asked

\* How often stop() of c's tunnel has been asked for by the view.
Stops(c) ==
    Cardinality({k \in 1..Len(queue) : queue[k] = Job("stop", c)})
      + Cardinality(running \cap {Job("stop", c), Job("join", c)})
      + Cardinality({c} \cap to_stop) + Cardinality({c} \cap {joining})
      + Cardinality({c} \cap stopped)

\* A tunnel is stopped once at most, and only when its session is closed:
\* BackgroundTunnel.stop cannot run twice, its loop is closed the second time.
TunnelStoppedOnce ==
    \A c \in Tunnelled :
        /\ Stops(c) <= 1
        /\ Stops(c) = 1 => widget[c] = "closed"

\* stop() of c's tunnel has begun.
StopBegun(c) == Job("join", c) \in running \/ joining = c \/ c \in stopped

\* A tunnel that serves, its session closed and its stop() not yet begun, comes
\* to an end, whichever of tab, session, list and quitting closed the session
\* and however busy the pool is; and quitting ends the process: no tunnel and no
\* pool job can hold it up.
ClosedTunnelsEnd ==
    \A c \in Tunnelled :
        (thread[c] = "serving" /\ widget[c] = "closed" /\ ~StopBegun(c))
            ~> (thread[c] = "ended")
QuitEnds == (app = "stopping") ~> (app = "exited")
StopsEnd == ClosedTunnelsEnd /\ QuitEnds

\* Every click is answered, by a session or an error, unless the user quits.
AttemptsResolve ==
    \A c \in Attempts :
        (stage[c] = "starting") ~> (stage[c] = "resolved" \/ app # "running")

\* BackgroundTunnel.stop's docstring: "Tear down the tunnel.  Safe to call from
\* any thread."  Once it has returned, the tunnel ends.  (Violated: between
\* _ready.set() and the assignment of _serve_task there is nothing to cancel.)
StopTearsDown ==
    \A c \in Iap : (c \in stopped) ~> (thread[c] = "ended")
===============================================================================

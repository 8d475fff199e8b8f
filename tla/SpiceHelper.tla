---------------------------- MODULE SpiceHelper ----------------------------
(***************************************************************************)
(* The life of a SPICE session that runs in the Linux helper: the widget   *)
(* (widgets/spice_widget.py), its RemoteSpiceWorker and HelperProcess      *)
(* (core/spice/remote_spice_worker.py, core/wsl/helper_process.py), the    *)
(* connection between them (core/wsl/transport.py), and in the helper      *)
(* process its main thread, the thread that watches stdin, the service and *)
(* the session runner (wsl_helper/__main__.py, wsl_helper/spice_service.py,*)
(* core/spice/spice_session_runner.py).                                    *)
(*                                                                         *)
(* Two processes, five threads.  Either process may be killed at any step, *)
(* and the user may close the tab at any step of the start.  The contents  *)
(* of the session (frames, input) are the subject of SpiceDisplay and      *)
(* SpiceInput.                                                             *)
(***************************************************************************)
EXTENDS Naturals, Sequences, TLAPS

VARIABLES
  app,          \* the app is alive
  tab,          \* steps of close_session: "open", "conn", "process", "wait", "join", "closed"
  emitted,      \* the widget has emitted finished
  sigs,         \* the worker's signals on their way to the widget
  worker,       \* the step of RemoteSpiceWorker._run
  stopping,     \* _stopping
  process,      \* HelperProcess._process is set
  conn,         \* HelperProcess.conn: "none", "open" or "closed"
  stdin,        \* the helper's stdin has not reached its end
  helper,       \* the step of the helper's main thread
  watcher,      \* the thread that watches stdin: "reads", "ended", "armed"
  holder,       \* holder["conn"] is set
  stop,         \* the helper's stop event
  link,         \* the helper's end: "none", "backlog", "open" or "closed"
  toApp,        \* messages on their way to the app
  stopSent,     \* MSG_STOP is on its way to the helper
  runner,       \* the runner's thread: "none", "new", "loop", "run", "up", "over"
  sessionOver,  \* session_over
  late          \* the tab was closed before the process was known

spiceVars == <<app, tab, emitted, sigs, worker, stopping, process, conn, stdin,
          helper, watcher, holder, stop, link, toApp, stopSent, runner,
          sessionOver, late>>

appVars    == <<tab, emitted, sigs, worker, stopping, process, conn, late>>
serveVars  == <<holder, stop, link, toApp, runner, sessionOver>>
helperVars == <<stdin, helper, watcher, serveVars, stopSent>>

Signals  == {"connected", "error", "disconnected"}
Messages == {"CONNECTED", "ERROR", "DISCONNECTED"}
Alive    == helper \notin {"off", "gone"}

SpiceTypeOK ==
  /\ app \in BOOLEAN /\ stopping \in BOOLEAN /\ process \in BOOLEAN
  /\ tab \in {"open", "conn", "process", "wait", "join", "closed"}
  /\ emitted \in BOOLEAN
  /\ sigs \in Seq(Signals)
  /\ worker \in {"start", "handshake", "connect", "giveup", "wait", "pump", "done"}
  /\ conn \in {"none", "open", "closed"}
  /\ stdin \in BOOLEAN /\ holder \in BOOLEAN /\ stop \in BOOLEAN
  /\ helper \in {"off", "boot", "accept", "accepted", "tunnel", "pump", "cleanup", "gone"}
  /\ watcher \in {"reads", "ended", "armed"}
  /\ link \in {"none", "backlog", "open", "closed"}
  /\ toApp \in Seq(Messages)
  /\ stopSent \in BOOLEAN /\ sessionOver \in BOOLEAN /\ late \in BOOLEAN
  /\ runner \in {"none", "new", "loop", "run", "up", "over"}

SpiceInit ==
  /\ app = TRUE /\ tab = "open" /\ emitted = FALSE /\ sigs = <<>>
  /\ worker = "start" /\ stopping = FALSE /\ process = FALSE /\ conn = "none"
  /\ stdin = TRUE /\ helper = "off" /\ watcher = "reads" /\ holder = FALSE
  /\ stop = FALSE /\ link = "none" /\ toApp = <<>> /\ stopSent = FALSE
  /\ runner = "none" /\ sessionOver = FALSE /\ late = FALSE

-----------------------------------------------------------------------------
(* The worker's thread in the app.                                         *)

EmitSigs(s) == sigs' = sigs \o s

(* The end of _run when start() raised.                                    *)
ReportStartError ==
  /\ worker' = "done"
  /\ EmitSigs(IF stopping THEN <<"disconnected">> ELSE <<"error", "disconnected">>)

\* No Linux backend is set up, or Popen fails.
StartFails ==
  /\ app /\ worker = "start"
  /\ ReportStartError
  /\ UNCHANGED <<app, tab, emitted, stopping, process, conn, late, helperVars>>

\* HelperProcess.start, up to and including Popen.
Popen ==
  /\ app /\ worker = "start"
  /\ process' = TRUE
  /\ helper' = "boot"
  /\ worker' = "handshake"
  /\ UNCHANGED <<app, tab, emitted, sigs, stopping, conn, late,
                 stdin, watcher, serveVars, stopSent>>

\* _read_handshake_line returns the line the listener printed.
HandshakeRead ==
  /\ app /\ worker = "handshake"
  /\ helper = "accept"
  /\ worker' = "connect"
  /\ UNCHANGED <<app, tab, emitted, sigs, stopping, process, conn, late, helperVars>>

\* No line within the timeout, or the end of the pipe: HelperProcess.stop.
HandshakeFails ==
  /\ app /\ worker = "handshake"
  /\ worker' = "giveup"
  /\ UNCHANGED <<app, tab, emitted, sigs, stopping, process, conn, late, helperVars>>

\* parse_handshake_line rejects what some other program printed.
HandshakeGarbled ==
  /\ app /\ worker = "handshake" /\ Alive
  /\ ReportStartError
  /\ UNCHANGED <<app, tab, emitted, stopping, process, conn, late, helperVars>>

\* transport.connect: the listener takes one connection into its backlog.
Connect ==
  /\ app /\ worker = "connect"
  /\ helper = "accept" /\ link = "none"
  /\ link' = "backlog"
  /\ conn' = "open"
  /\ worker' = "pump"
  /\ UNCHANGED <<app, tab, emitted, sigs, stopping, process, late, stdin, helper,
                 watcher, holder, stop, toApp, stopSent, runner, sessionOver>>

HelperConnectFails ==
  /\ app /\ worker = "connect"
  /\ worker' = "giveup"
  /\ UNCHANGED <<app, tab, emitted, sigs, stopping, process, conn, late, helperVars>>

\* HelperProcess.stop of a start that failed: stdin, then the process.
GiveUp ==
  /\ app /\ worker = "giveup"
  /\ stdin' = FALSE
  /\ worker' = "wait"
  /\ UNCHANGED <<app, tab, emitted, sigs, stopping, process, conn, late, helper,
                 watcher, serveVars, stopSent>>

(* process.wait, or process.kill when it takes longer than five seconds.   *)
ProcessEnds ==
  /\ helper' = "gone"
  /\ link' = "closed"
  /\ runner' = IF runner = "none" THEN "none" ELSE "over"
  /\ toApp' \in {toApp, <<>>}
  /\ UNCHANGED <<stdin, watcher, holder, stop, stopSent, sessionOver>>

WaitForProcess == IF Alive THEN ProcessEnds ELSE UNCHANGED helperVars

GaveUp ==
  /\ app /\ worker = "wait"
  /\ WaitForProcess
  /\ ReportStartError
  /\ UNCHANGED <<app, tab, emitted, stopping, process, conn, late>>

\* _pump: one message.
PumpMessage ==
  /\ app /\ worker = "pump"
  /\ conn = "open" /\ toApp # <<>>
  /\ toApp' = Tail(toApp)
  /\ \/ Head(toApp) = "CONNECTED" /\ EmitSigs(<<"connected">>) /\ UNCHANGED worker
     \/ Head(toApp) = "ERROR" /\ EmitSigs(<<"error">>) /\ UNCHANGED worker
     \/ Head(toApp) = "DISCONNECTED" /\ EmitSigs(<<"disconnected">>) /\ worker' = "done"
  /\ UNCHANGED <<app, tab, emitted, stopping, process, conn, late, stdin, helper,
                 watcher, holder, stop, link, stopSent, runner, sessionOver>>

\* _pump: the connection has ended; the helper's last words, if any.
PumpEnds ==
  /\ app /\ worker = "pump"
  /\ conn = "closed" \/ (link = "closed" /\ toApp = <<>>)
  /\ worker' = "done"
  /\ \E words \in BOOLEAN :
       EmitSigs(IF words /\ ~stopping THEN <<"error", "disconnected">> ELSE <<"disconnected">>)
  /\ UNCHANGED <<app, tab, emitted, stopping, process, conn, late, helperVars>>

-----------------------------------------------------------------------------
(* Qt's thread.                                                            *)

\* _on_connected, _on_error, _on_disconnected and _emit_finished_once.
WidgetTakesSignal ==
  /\ app /\ tab \in {"open", "closed"} /\ sigs # <<>>
  /\ sigs' = Tail(sigs)
  /\ emitted' = (emitted \/ (Head(sigs) # "connected" /\ tab = "open"))
  /\ UNCHANGED <<app, tab, worker, stopping, process, conn, late, helperVars>>

\* close_session, of the user's click or of finished: RemoteSpiceWorker.stop.
CloseSpiceSession ==
  /\ app /\ tab = "open"
  /\ stopping' = TRUE
  /\ tab' = "conn"
  /\ UNCHANGED <<app, emitted, sigs, worker, process, conn, late, helperVars>>

\* HelperProcess.stop: the connection ...
StopConnection ==
  /\ app /\ tab = "conn"
  /\ IF conn = "open"
     THEN /\ stopSent' = (link # "closed")
          /\ conn' = "closed"
     ELSE UNCHANGED <<stopSent, conn>>
  /\ tab' = "process"
  /\ UNCHANGED <<app, emitted, sigs, worker, stopping, process, late, stdin, helper,
                 watcher, serveVars>>

\* Mutant of StopProcess: the process is not waited for.
StopProcessOnly ==
  /\ app /\ tab = "process"
  /\ late' = ~process
  /\ stdin' = (stdin /\ ~process)
  /\ tab' = "join"
  /\ UNCHANGED <<app, emitted, sigs, worker, stopping, process, conn, helper, watcher,
                 serveVars, stopSent>>

\* ... then the process, if there is one.
StopProcess ==
  /\ app /\ tab = "process"
  /\ late' = ~process
  /\ stdin' = (stdin /\ ~process)
  /\ tab' = IF process THEN "wait" ELSE "join"
  /\ UNCHANGED <<app, emitted, sigs, worker, stopping, process, conn, helper, watcher,
                 serveVars, stopSent>>

StopWaits ==
  /\ app /\ tab = "wait"
  /\ WaitForProcess
  /\ tab' = "join"
  /\ UNCHANGED <<app, emitted, sigs, worker, stopping, process, conn, late>>

\* The join ends with the thread, or after five seconds.
StopJoins ==
  /\ app /\ tab = "join"
  /\ tab' = "closed"
  /\ UNCHANGED <<app, emitted, sigs, worker, stopping, process, conn, late, helperVars>>

\* The app exits or is killed: its ends of the pipe and the socket close.
AppEnds ==
  /\ app
  /\ app' = FALSE
  /\ stdin' = FALSE
  /\ conn' = IF conn = "open" THEN "closed" ELSE conn
  /\ UNCHANGED <<tab, emitted, sigs, worker, stopping, process, late, helper, watcher,
                 serveVars, stopSent>>

-----------------------------------------------------------------------------
(* The helper's main thread: __main__.main and spice_service.run.          *)

\* The watcher is started, then the listener prints its line.
Boot ==
  /\ helper = "boot"
  /\ helper' = "accept"
  /\ UNCHANGED <<app, appVars, stdin, watcher, serveVars, stopSent>>

\* Listener.accept: HELLO and START have arrived.
Accept ==
  /\ helper = "accept" /\ link = "backlog"
  /\ helper' = "accepted"
  /\ link' = "open"
  /\ UNCHANGED <<app, appVars, stdin, watcher, holder, stop, toApp, stopSent, runner, sessionOver>>

\* "the app never connected".
AcceptTimesOut ==
  /\ helper = "accept" /\ link = "none"
  /\ helper' = "gone" /\ link' = "closed"
  /\ UNCHANGED <<app, appVars, stdin, watcher, holder, stop, toApp, stopSent, runner, sessionOver>>

SetHolder ==
  /\ helper = "accepted"
  /\ holder' = TRUE
  /\ helper' = "tunnel"
  /\ UNCHANGED <<app, appVars, stdin, watcher, stop, link, toApp, stopSent, runner, sessionOver>>

(* send: what cannot be sent any more sets the stop event instead.         *)
SendThen(msgs, over) ==
  /\ sessionOver' = over
  /\ IF link = "open" /\ conn = "open"
     THEN toApp' = toApp \o msgs /\ UNCHANGED stop
     ELSE stop' = (stop \/ msgs # <<>>) /\ UNCHANGED toApp

\* The tunnel to the host is up: SpiceSessionRunner.start.
StartRunner ==
  /\ helper = "tunnel"
  /\ helper' = "pump"
  /\ runner' = "new"
  /\ UNCHANGED <<app, appVars, stdin, watcher, holder, stop, link, toApp, stopSent, sessionOver>>

\* tunnel.start raises: main reports it, closes the connection and exits.
TunnelFails ==
  /\ helper = "tunnel"
  /\ helper' = "gone"
  /\ toApp' = IF link = "open" /\ conn = "open" THEN Append(toApp, "ERROR") ELSE toApp
  /\ link' = "closed"
  /\ UNCHANGED <<app, appVars, stdin, watcher, holder, stop, stopSent, runner, sessionOver>>

\* _pump_input: MSG_STOP, the end of the connection, or the stop event.
PumpInputEnds ==
  /\ helper = "pump"
  /\ stop \/ stopSent \/ conn = "closed" \/ link = "closed"
  /\ helper' = "cleanup"
  /\ UNCHANGED <<app, appVars, stdin, watcher, serveVars, stopSent>>

(* runner.stop: the quit reaches a loop that runs, and is lost on one that *)
(* does not exist or does not run yet; the join gives up after 5 seconds.  *)
\* Then DISCONNECTED unless the session sent it, the tunnel and the exit.
CleanUp ==
  /\ helper = "cleanup"
  /\ helper' = "gone"
  /\ link' = "closed"
  /\ toApp' = IF ~sessionOver /\ link = "open" /\ conn = "open"
              THEN Append(toApp, "DISCONNECTED") ELSE toApp
  /\ runner' = "over"
  /\ UNCHANGED <<app, appVars, stdin, watcher, holder, stop, stopSent, sessionOver>>

\* The helper is killed or crashes at any step.
HelperCrashes ==
  /\ Alive
  /\ ProcessEnds
  /\ UNCHANGED <<app, appVars>>

-----------------------------------------------------------------------------
(* _watch_stdin, started before the listener exists.                       *)

StdinEnds ==
  /\ helper \notin {"off", "boot", "gone"}
  /\ watcher = "reads" /\ ~stdin
  /\ stop' = TRUE
  /\ watcher' = "ended"
  /\ UNCHANGED <<app, appVars, stdin, helper, holder, link, toApp, stopSent, runner, sessionOver>>

\* Mutant of CloseHolder: no timer without a connection to close.
CloseHolderOnly ==
  /\ Alive /\ watcher = "ended" /\ holder
  /\ link' = "closed"
  /\ watcher' = "armed"
  /\ UNCHANGED <<app, appVars, stdin, helper, holder, stop, toApp, stopSent, runner,
                 sessionOver>>

\* The connection is closed, if main has it, and the timer is started.
CloseHolder ==
  /\ Alive /\ watcher = "ended"
  /\ link' = IF holder THEN "closed" ELSE link
  /\ watcher' = "armed"
  /\ UNCHANGED <<app, appVars, stdin, helper, holder, stop, toApp, stopSent, runner, sessionOver>>

\* os._exit, whatever the service is doing.
GraceOver ==
  /\ Alive /\ watcher = "armed"
  /\ ProcessEnds
  /\ UNCHANGED <<app, appVars>>

-----------------------------------------------------------------------------
(* The runner's thread: SpiceSessionRunner._run and its callbacks.         *)

RunnerLives == Alive /\ helper \in {"pump", "cleanup"}

MakeLoop ==
  /\ RunnerLives /\ runner = "new"
  /\ runner' = "loop"
  /\ UNCHANGED <<app, appVars, stdin, helper, watcher, holder, stop, link, toApp, stopSent, sessionOver>>

\* start_connecting raises: the error, and no disconnected.
ConnectRefused ==
  /\ RunnerLives /\ runner = "loop"
  /\ runner' = "over"
  /\ SendThen(<<"ERROR">>, sessionOver)
  /\ UNCHANGED <<app, appVars, stdin, helper, watcher, holder, link, stopSent>>

RunLoop ==
  /\ RunnerLives /\ runner = "loop"
  /\ runner' = "run"
  /\ UNCHANGED <<app, appVars, stdin, helper, watcher, holder, stop, link, toApp, stopSent, sessionOver>>

\* The main channel opens; the session is told so once.
SessionConnects ==
  /\ RunnerLives /\ runner = "run"
  /\ runner' = "up"
  /\ SendThen(<<"CONNECTED">>, sessionOver)
  /\ UNCHANGED <<app, appVars, stdin, helper, watcher, holder, link, stopSent>>

\* An error of the main channel, or the server's disconnect: _quit_loop.
SessionEnds ==
  /\ RunnerLives /\ runner \in {"run", "up"}
  /\ runner' = "over"
  /\ \E error \in BOOLEAN :
       SendThen(IF error THEN <<"ERROR", "DISCONNECTED">> ELSE <<"DISCONNECTED">>, TRUE)
  /\ UNCHANGED <<app, appVars, stdin, helper, watcher, holder, link, stopSent>>

-----------------------------------------------------------------------------
WorkerStep ==
  \/ StartFails \/ Popen
  \/ HandshakeRead \/ HandshakeFails \/ HandshakeGarbled
  \/ Connect \/ HelperConnectFails
  \/ GiveUp \/ GaveUp
  \/ PumpMessage \/ PumpEnds

WidgetStep == WidgetTakesSignal \/ StopConnection \/ StopProcess \/ StopWaits \/ StopJoins

WatcherStep == StdinEnds \/ CloseHolder \/ GraceOver

MainStep ==
  \/ Boot \/ Accept \/ AcceptTimesOut \/ SetHolder
  \/ StartRunner \/ TunnelFails
  \/ PumpInputEnds \/ CleanUp

RunnerStep == MakeLoop \/ ConnectRefused \/ RunLoop \/ SessionConnects \/ SessionEnds

SpiceNext ==
  \/ WorkerStep
  \/ WidgetStep
  \/ CloseSpiceSession
  \/ AppEnds
  \/ MainStep
  \/ HelperCrashes
  \/ WatcherStep
  \/ RunnerStep

(* What the code's scheduling guarantees: threads that can run do.  The    *)
(* service may be stuck in the tunnel or in the session for as long as it  *)
(* likes, so of the helper's main thread only the steps that have nothing  *)
(* to wait for are fair.                                                   *)
HelperFairness ==
  /\ WF_spiceVars(Boot)
  /\ WF_spiceVars(PumpInputEnds)
  /\ WF_spiceVars(CleanUp)
  /\ WF_spiceVars(WatcherStep)

SpiceSpec ==
  /\ SpiceInit /\ [][SpiceNext]_spiceVars
  /\ WF_spiceVars(WorkerStep)
  /\ WF_spiceVars(WidgetStep)
  /\ HelperFairness

-----------------------------------------------------------------------------
(* Closing a tab ends its helper: once HelperProcess.stop has returned no  *)
(* helper runs, whether it was starting, shaking hands, connecting or      *)
(* serving, unless it was not even spawned when stop looked for it.  (Such *)
(* a helper runs until the app ends.)                                      *)
TabEndsHelper == tab \in {"join", "closed"} /\ ~late => ~Alive

\* "a crashed or killed app never leaves a helper running"
\* (wsl_helper/__main__.py:5-6), whatever the service is doing then.
HelperDiesWithApp == ~app ~> ~Alive

\* A helper that dies, at any step, and a session that ends or cannot start
\* make the widget emit finished, unless the tab is being closed.
EndReachesTheTab ==
  (helper = "gone" \/ runner = "over") ~> (emitted \/ tab # "open" \/ ~app)

(* Either side learns of the other's end: the helper does not outlive the  *)
(* app, and the end of the helper, or of its session, reaches the tab.     *)
EndReachesTheOther == HelperDiesWithApp /\ EndReachesTheTab

-----------------------------------------------------------------------------
(* The proofs, for every behaviour (the queues of signals and messages     *)
(* have no bound in the model): the types, and that closing a tab ends its *)
(* helper.                                                                 *)

(* The process is known from the moment it is spawned, and it is spawned   *)
(* once, by the worker's first step.                                       *)
SpawnedOnce ==
  /\ process <=> helper # "off"
  /\ worker = "start" => ~process

(* stop waits for a process that is known; what it then leaves is over.    *)
StopKnows ==
  /\ tab = "wait" => process
  /\ tab \in {"join", "closed"} /\ ~late => helper = "gone"

IInv == SpawnedOnce /\ StopKnows

-----------------------------------------------------------------------------
(* What the helpers of the actions do to the queues.                       *)

\* Signals are emitted to a queue of signals, messages sent to one of messages.
LEMMA QueueTypes ==
  ASSUME SpiceTypeOK
  PROVE  /\ \A s \in Seq(Signals) : sigs \o s \in Seq(Signals)
         /\ \A m \in Seq(Messages) : toApp \o m \in Seq(Messages)
         /\ \A m \in Messages : Append(toApp, m) \in Seq(Messages)
         /\ sigs # <<>> => Tail(sigs) \in Seq(Signals) /\ Head(sigs) \in Signals
         /\ toApp # <<>> => Tail(toApp) \in Seq(Messages) /\ Head(toApp) \in Messages
         /\ <<>> \in Seq(Messages) /\ toApp \in Seq(Messages)
  BY DEF SpiceTypeOK

\* The words the actions emit and send.
LEMMA Words ==
  /\ {<<>>, <<"connected">>, <<"error">>, <<"disconnected">>, <<"error", "disconnected">>}
       \subseteq Seq(Signals)
  /\ {<<"ERROR">>, <<"CONNECTED">>, <<"DISCONNECTED">>, <<"ERROR", "DISCONNECTED">>}
       \subseteq Seq(Messages)
  /\ "ERROR" \in Messages /\ "DISCONNECTED" \in Messages
<1>1. /\ "connected" \in Signals /\ "error" \in Signals /\ "disconnected" \in Signals
      /\ "ERROR" \in Messages /\ "CONNECTED" \in Messages /\ "DISCONNECTED" \in Messages
  BY DEF Signals, Messages
<1> QED
  BY <1>1

\* What is sent to the app, and what ends with the process.
LEMMA SendType ==
  ASSUME SpiceTypeOK, NEW msgs \in Seq(Messages), NEW over \in BOOLEAN, SendThen(msgs, over)
  PROVE  toApp' \in Seq(Messages) /\ stop' \in BOOLEAN /\ sessionOver' \in BOOLEAN
  BY QueueTypes DEF SendThen, SpiceTypeOK

LEMMA EndType ==
  ASSUME SpiceTypeOK, ProcessEnds
  PROVE  /\ helper' = "gone" /\ link' = "closed"
         /\ runner' \in {"none", "over"} /\ toApp' \in Seq(Messages)
         /\ UNCHANGED <<stdin, watcher, holder, stop, stopSent, sessionOver>>
  BY QueueTypes DEF ProcessEnds

-----------------------------------------------------------------------------
\* Every variable keeps to its type.
LEMMA InitType == SpiceInit => SpiceTypeOK
<1> SUFFICES ASSUME SpiceInit PROVE SpiceTypeOK
  OBVIOUS
<1>1. sigs \in Seq(Signals) /\ toApp \in Seq(Messages)
  BY DEF SpiceInit
<1>2. /\ app \in BOOLEAN /\ stopping \in BOOLEAN /\ process \in BOOLEAN
      /\ emitted \in BOOLEAN /\ stdin \in BOOLEAN /\ holder \in BOOLEAN
      /\ stop \in BOOLEAN /\ stopSent \in BOOLEAN /\ sessionOver \in BOOLEAN
      /\ late \in BOOLEAN
  BY Zenon DEF SpiceInit
<1> QED
  BY <1>1, <1>2, Zenon DEF SpiceInit, SpiceTypeOK

LEMMA NextType == SpiceTypeOK /\ [SpiceNext]_spiceVars => SpiceTypeOK'
<1> SUFFICES ASSUME SpiceTypeOK, [SpiceNext]_spiceVars PROVE SpiceTypeOK'
  OBVIOUS
<1> USE DEF SpiceTypeOK, appVars, serveVars, helperVars
<1>1. CASE StartFails
  BY <1>1, QueueTypes, Words DEF StartFails, ReportStartError, EmitSigs
<1>2. CASE Popen
  BY <1>2 DEF Popen
<1>3. CASE HandshakeRead
  BY <1>3 DEF HandshakeRead
<1>4. CASE HandshakeFails
  BY <1>4 DEF HandshakeFails
<1>5. CASE HandshakeGarbled
  BY <1>5, QueueTypes, Words DEF HandshakeGarbled, ReportStartError, EmitSigs
<1>6. CASE Connect
  BY <1>6 DEF Connect
<1>7. CASE HelperConnectFails
  BY <1>7 DEF HelperConnectFails
<1>8. CASE GiveUp
  <2>1. stdin' \in BOOLEAN
    BY <1>8, Zenon DEF GiveUp
  <2> QED
    BY <1>8, <2>1 DEF GiveUp
<1>9. CASE GaveUp
  BY <1>9, QueueTypes, Words, EndType DEF GaveUp, ReportStartError, EmitSigs, WaitForProcess
<1>10. CASE PumpMessage
  <2>1. sigs' \in Seq(Signals) /\ toApp' \in Seq(Messages)
    BY <1>10, QueueTypes, Words DEF PumpMessage, EmitSigs
  <2>2. worker' \in {"start", "handshake", "connect", "giveup", "wait", "pump", "done"}
    BY <1>10 DEF PumpMessage
  <2>3. UNCHANGED <<app, tab, emitted, stopping, process, conn, stdin,
                    helper, watcher, holder, stop, link, stopSent, runner,
                    sessionOver, late>>
    BY <1>10, Zenon DEF PumpMessage
  <2> QED
    BY <2>1, <2>2, <2>3
<1>11. CASE PumpEnds
  BY <1>11, QueueTypes, Words DEF PumpEnds, EmitSigs
<1>12. CASE WidgetTakesSignal
  BY <1>12, QueueTypes, Words DEF WidgetTakesSignal
<1>13. CASE StopConnection
  <2>1. stopSent' \in BOOLEAN /\ conn' \in {"none", "open", "closed"}
    BY <1>13 DEF StopConnection
  <2>2. /\ tab' = "process"
        /\ UNCHANGED <<app, emitted, sigs, worker, stopping, process, stdin,
                    helper, watcher, holder, stop, link, toApp, runner,
                    sessionOver, late>>
    BY <1>13, Zenon DEF StopConnection
  <2> QED
    BY <2>1, <2>2
<1>14. CASE StopProcess
  BY <1>14 DEF StopProcess
<1>15. CASE StopWaits
  BY <1>15, EndType DEF StopWaits, WaitForProcess
<1>16. CASE StopJoins
  BY <1>16 DEF StopJoins
<1>17. CASE CloseSpiceSession
  BY <1>17 DEF CloseSpiceSession
<1>18. CASE AppEnds
  <2>1. app' \in BOOLEAN /\ stdin' \in BOOLEAN
    BY <1>18, Zenon DEF AppEnds
  <2>2. conn' \in {"none", "open", "closed"}
    BY <1>18 DEF AppEnds
  <2>3. UNCHANGED <<tab, emitted, sigs, worker, stopping, process, helper,
                    watcher, holder, stop, link, toApp, stopSent, runner,
                    sessionOver, late>>
    BY <1>18, Zenon DEF AppEnds
  <2> QED
    BY <2>1, <2>2, <2>3
<1>19. CASE Boot
  BY <1>19 DEF Boot
<1>20. CASE Accept
  BY <1>20 DEF Accept
<1>21. CASE AcceptTimesOut
  BY <1>21 DEF AcceptTimesOut
<1>22. CASE SetHolder
  BY <1>22 DEF SetHolder
<1>23. CASE StartRunner
  BY <1>23 DEF StartRunner
<1>24. CASE TunnelFails
  BY <1>24, QueueTypes, Words DEF TunnelFails
<1>25. CASE PumpInputEnds
  BY <1>25 DEF PumpInputEnds
<1>26. CASE CleanUp
  BY <1>26, QueueTypes, Words DEF CleanUp
<1>27. CASE HelperCrashes
  BY <1>27, EndType DEF HelperCrashes
<1>28. CASE StdinEnds
  BY <1>28 DEF StdinEnds
<1>29. CASE CloseHolder
  BY <1>29 DEF CloseHolder
<1>30. CASE GraceOver
  BY <1>30, EndType DEF GraceOver
<1>31. CASE MakeLoop
  BY <1>31 DEF MakeLoop
<1>32. CASE ConnectRefused
  <2>1. /\ toApp' \in Seq(Messages)
        /\ stop' \in BOOLEAN /\ sessionOver' \in BOOLEAN
    BY <1>32, Words, SendType, Zenon DEF ConnectRefused
  <2>2. /\ runner' = "over"
        /\ UNCHANGED <<app, tab, emitted, sigs, worker, stopping, process,
                    conn, stdin, helper, watcher, holder, link, stopSent, late>>
    BY <1>32, Zenon DEF ConnectRefused
  <2> QED
    BY <2>1, <2>2
<1>33. CASE RunLoop
  BY <1>33 DEF RunLoop
<1>34. CASE SessionConnects
  <2>1. /\ toApp' \in Seq(Messages)
        /\ stop' \in BOOLEAN /\ sessionOver' \in BOOLEAN
    BY <1>34, Words, SendType, Zenon DEF SessionConnects
  <2>2. /\ runner' = "up"
        /\ UNCHANGED <<app, tab, emitted, sigs, worker, stopping, process,
                    conn, stdin, helper, watcher, holder, link, stopSent, late>>
    BY <1>34, Zenon DEF SessionConnects
  <2> QED
    BY <2>1, <2>2
<1>35. CASE SessionEnds
  <2>1. /\ toApp' \in Seq(Messages)
        /\ stop' \in BOOLEAN /\ sessionOver' \in BOOLEAN
    BY <1>35, Words, SendType, Zenon DEF SessionEnds
  <2>2. /\ runner' = "over"
        /\ UNCHANGED <<app, tab, emitted, sigs, worker, stopping, process,
                    conn, stdin, helper, watcher, holder, link, stopSent, late>>
    BY <1>35, Zenon DEF SessionEnds
  <2> QED
    BY <2>1, <2>2
<1>36. CASE UNCHANGED spiceVars
  BY <1>36 DEF spiceVars
<1> QED
  BY <1>1, <1>2, <1>3, <1>4, <1>5, <1>6, <1>7, <1>8, <1>9, <1>10, <1>11,
     <1>12, <1>13, <1>14, <1>15, <1>16, <1>17, <1>18, <1>19, <1>20, <1>21,
     <1>22, <1>23, <1>24, <1>25, <1>26, <1>27, <1>28, <1>29, <1>30, <1>31,
     <1>32, <1>33, <1>34, <1>35, <1>36
     DEF SpiceNext, WorkerStep, WidgetStep, MainStep, WatcherStep, RunnerStep

\* The type invariant of both processes.
THEOREM TypeCorrect == SpiceSpec => []SpiceTypeOK
<1> QED
  BY InitType, NextType, PTL DEF SpiceSpec

-----------------------------------------------------------------------------
\* The initial state satisfies the invariant.
LEMMA InitInv == SpiceInit => IInv
  BY DEF SpiceInit, IInv, SpawnedOnce, StopKnows

\* Every step, stuttering included, keeps it.
LEMMA NextInv == IInv /\ [SpiceNext]_spiceVars => IInv'
<1> SUFFICES ASSUME IInv, [SpiceNext]_spiceVars PROVE IInv'
  OBVIOUS
<1> USE DEF IInv, SpawnedOnce, StopKnows, Alive, appVars, serveVars, helperVars
<1>1. CASE StartFails
  BY <1>1 DEF StartFails, ReportStartError, EmitSigs
<1>2. CASE Popen
  BY <1>2 DEF Popen
<1>3. CASE HandshakeRead
  BY <1>3 DEF HandshakeRead
<1>4. CASE HandshakeFails
  BY <1>4 DEF HandshakeFails
<1>5. CASE HandshakeGarbled
  BY <1>5 DEF HandshakeGarbled, ReportStartError, EmitSigs
<1>6. CASE Connect
  BY <1>6 DEF Connect
<1>7. CASE HelperConnectFails
  BY <1>7 DEF HelperConnectFails
<1>8. CASE GiveUp
  BY <1>8 DEF GiveUp
<1>9. CASE GaveUp
  BY <1>9 DEF GaveUp, ReportStartError, EmitSigs, WaitForProcess, ProcessEnds
<1>10. CASE PumpMessage
  BY <1>10 DEF PumpMessage, EmitSigs
<1>11. CASE PumpEnds
  BY <1>11 DEF PumpEnds, EmitSigs
<1>12. CASE WidgetTakesSignal
  BY <1>12 DEF WidgetTakesSignal
<1>13. CASE StopConnection
  BY <1>13 DEF StopConnection
<1>14. CASE StopProcess
  BY <1>14 DEF StopProcess
<1>15. CASE StopWaits
  BY <1>15 DEF StopWaits, WaitForProcess, ProcessEnds
<1>16. CASE StopJoins
  BY <1>16 DEF StopJoins
<1>17. CASE CloseSpiceSession
  BY <1>17 DEF CloseSpiceSession
<1>18. CASE AppEnds
  BY <1>18 DEF AppEnds
<1>19. CASE Boot
  BY <1>19 DEF Boot
<1>20. CASE Accept
  BY <1>20 DEF Accept
<1>21. CASE AcceptTimesOut
  BY <1>21 DEF AcceptTimesOut
<1>22. CASE SetHolder
  BY <1>22 DEF SetHolder
<1>23. CASE StartRunner
  BY <1>23 DEF StartRunner
<1>24. CASE TunnelFails
  BY <1>24 DEF TunnelFails
<1>25. CASE PumpInputEnds
  BY <1>25 DEF PumpInputEnds
<1>26. CASE CleanUp
  BY <1>26 DEF CleanUp
<1>27. CASE HelperCrashes
  BY <1>27 DEF HelperCrashes, ProcessEnds
<1>28. CASE StdinEnds
  BY <1>28 DEF StdinEnds
<1>29. CASE CloseHolder
  BY <1>29 DEF CloseHolder
<1>30. CASE GraceOver
  BY <1>30 DEF GraceOver, ProcessEnds
<1>31. CASE MakeLoop
  BY <1>31 DEF MakeLoop, RunnerLives
<1>32. CASE ConnectRefused
  BY <1>32 DEF ConnectRefused, RunnerLives, SendThen
<1>33. CASE RunLoop
  BY <1>33 DEF RunLoop, RunnerLives
<1>34. CASE SessionConnects
  BY <1>34 DEF SessionConnects, RunnerLives, SendThen
<1>35. CASE SessionEnds
  BY <1>35 DEF SessionEnds, RunnerLives, SendThen
<1>36. CASE UNCHANGED spiceVars
  BY <1>36 DEF spiceVars
<1> QED
  BY <1>1, <1>2, <1>3, <1>4, <1>5, <1>6, <1>7, <1>8, <1>9, <1>10, <1>11,
     <1>12, <1>13, <1>14, <1>15, <1>16, <1>17, <1>18, <1>19, <1>20, <1>21,
     <1>22, <1>23, <1>24, <1>25, <1>26, <1>27, <1>28, <1>29, <1>30, <1>31,
     <1>32, <1>33, <1>34, <1>35, <1>36
     DEF SpiceNext, WorkerStep, WidgetStep, MainStep, WatcherStep, RunnerStep

(* Once HelperProcess.stop has returned no helper runs, unless none had    *)
(* been spawned when it looked.                                            *)
THEOREM ClosedTabHasNoHelper == SpiceSpec => []TabEndsHelper
<1>1. IInv => TabEndsHelper
  BY DEF IInv, StopKnows, TabEndsHelper, Alive
<1> QED
  BY <1>1, InitInv, NextInv, PTL DEF SpiceSpec
=============================================================================

--------------------------- MODULE ProftpdTraffic ---------------------------
(***************************************************************************)
(* A tab of the ProFTPD manager (widgets/proftpd_manager_widget.py): its   *)
(* connection and pages, and the live traffic of the server, which a       *)
(* thread of the pool follows with tail while a timer asks who is          *)
(* connected.  Every call runs in the background (core/proftpd_manager.py) *)
(* and is answered, whatever has become of the connection, on Qt's thread. *)
(*                                                                         *)
(* Left out: the users and the groups (ProftpdUsers), which credentials    *)
(* are asked for (HelperTab), and what a line of the log says.             *)
(***************************************************************************)
EXTENDS Naturals, Sequences, Bags

CONSTANTS
  MaxEvents,     \* bound of the model: what the user does, ticks and failures
  MaxCalls       \* bound of the model: the calls under way at such a step

\* Of the constants; an ASSUME of the module that instantiates this one.
BoundsAssumption == {MaxEvents, MaxCalls} \subseteq Nat

VARIABLES
  connection,    \* its number; 0 is None
  connections,   \* how many there have been
  connecting,    \* connect runs, and reconnect_button is off
  closed,        \* _closed
  page,          \* of the stack
  front,         \* the tab of the live traffic is the current one
  enabled,       \* LiveTrafficView.enabled, and its panel
  enabling,      \* enable_button is off
  follower,      \* _follower; 0 is None
  tails,         \* the followers there have been
  timer,         \* _session_timer is running
  inFlight,      \* _sessions_in_flight
  unavailable,   \* _sessions_unavailable
  calls,         \* the calls under way, or answered
  server,        \* what there is on it
  excused,       \* history: a call about the log failed or met another, or a
                 \* follower ended by itself
  raised,        \* history: a handler found no connection, and raised
  events

tabVars == <<connection, connections, connecting, closed, page>>
liveVars == <<enabled, follower, tails, timer>>
sessionVars == <<inFlight, unavailable>>
vars == <<tabVars, front, liveVars, enabling, sessionVars, calls, server,
          excused, raised, events>>

LogKinds == {"check", "enable", "disable"}
Kinds == LogKinds \union {"status", "install", "setup", "sessions", "kick"}
Call == [kind : Kinds, on : Nat, answer : {"waiting", "failed", "yes", "no"}]
Ask(kind) == [kind |-> kind, on |-> connection, answer |-> "waiting"]
Under(kinds) == {c \in BagToSet(calls) : c.kind \in kinds}

TypeOK ==
  /\ {connection, connections, follower, events} \subseteq Nat
  /\ page \in {"message", "helper", "setup", "tabs"}
  /\ enabled \in {"unknown", "on", "off"}
  /\ tails \in Seq([on : Nat, stop : BOOLEAN, runs : BOOLEAN, told : BOOLEAN])
  /\ IsABag(calls) /\ BagToSet(calls) \subseteq Call
  /\ server \in [helper : BOOLEAN, configured : BOOLEAN, log : BOOLEAN]
  /\ {connecting, closed, front, timer, inFlight, unavailable, enabling, excused,
      raised} \subseteq BOOLEAN

\* The tab is built, and begins to connect.
InitTab ==
  /\ connection = 0 /\ connections = 0 /\ connecting = TRUE /\ closed = FALSE
  /\ page = "message" /\ front = FALSE /\ calls = EmptyBag

InitLive ==
  /\ enabled = "unknown" /\ enabling = FALSE
  /\ follower = 0 /\ tails = <<>> /\ timer = FALSE
  /\ inFlight = FALSE /\ unavailable = FALSE

Init ==
  /\ InitTab /\ InitLive
  /\ server \in {[helper |-> FALSE, configured |-> FALSE, log |-> FALSE],
                 [helper |-> TRUE, configured |-> TRUE, log |-> TRUE]}
  /\ excused = FALSE /\ raised = FALSE /\ events = 0

Event ==
  ~closed /\ events < MaxEvents /\ BagCardinality(calls) < MaxCalls /\ events' = events + 1

-----------------------------------------------------------------------------
(* What the handlers share.                                                *)

Visible == page = "tabs" /\ front

\* refresh_sessions, where the tab is seen: the latch is set before a missing
\* connection raises.
RefreshSessions(seen, rest) ==
  LET asks == seen /\ ~inFlight /\ ~unavailable
  IN /\ inFlight' = (inFlight \/ asks)
     /\ raised' = (raised \/ (asks /\ connection = 0))
     /\ calls' = IF asks /\ connection # 0
                 THEN rest (+) SetToBag({Ask("sessions")}) ELSE rest

\* stop.
StopLive ==
  /\ timer' = FALSE /\ follower' = 0
  /\ tails' = [k \in DOMAIN tails |->
                 [tails[k] EXCEPT !.stop = @ \/ k = follower]]

\* _set_enabled, with start, which does nothing while there is a follower.
SetEnabled(on, rest) ==
  /\ enabled' = IF on THEN "on" ELSE "off"
  /\ IF ~on
     THEN StopLive /\ calls' = rest /\ UNCHANGED <<inFlight, raised>>
     ELSE IF follower # 0
     THEN calls' = rest /\ UNCHANGED <<follower, tails, timer, inFlight, raised>>
     ELSE /\ tails' = Append(tails, [on |-> connection, stop |-> FALSE,
                                     runs |-> TRUE, told |-> FALSE])
          /\ follower' = Len(tails') /\ timer' = TRUE
          /\ RefreshSessions(Visible, rest)

\* A call about the log is made while another one is under way.
Meets(kind) == excused \/ Under(LogKinds \ {kind}) # {}

-----------------------------------------------------------------------------
(* The connection.                                                         *)

\* connect_to_server.
Reconnect ==
  /\ Event /\ ~connecting
  /\ connecting' = TRUE /\ connection' = 0 /\ page' = "message"
  /\ StopLive
  /\ UNCHANGED <<connections, closed, front, enabled, enabling, sessionVars,
                 calls, server, excused, raised>>

ConnectEnds == connecting /\ connecting' = FALSE

\* ok of connect_to_server, and _on_connected.
Connected ==
  /\ ConnectEnds
  /\ IF closed
     THEN UNCHANGED <<connection, connections, page, calls>>
     ELSE /\ connection' = connections + 1 /\ connections' = connections + 1
          /\ IF server.helper
             THEN /\ page' = "message"
                  /\ calls' = calls (+) SetToBag({[Ask("status") EXCEPT !.on = connection']})
             ELSE page' = "helper" /\ UNCHANGED calls
  /\ UNCHANGED <<closed, front, liveVars, enabling, sessionVars, server, excused,
                 raised, events>>

\* _on_connect_error, with no second try.
ConnectFails ==
  /\ ConnectEnds /\ Event
  /\ UNCHANGED <<connection, connections, closed, page, front, liveVars, enabling,
                 sessionVars, calls, server, excused, raised>>

\* close_session.
Close ==
  /\ Event
  /\ closed' = TRUE /\ connection' = 0
  /\ StopLive
  /\ UNCHANGED <<connections, connecting, page, front, enabled, enabling,
                 sessionVars, calls, server, excused, raised>>

-----------------------------------------------------------------------------
(* The calls.                                                              *)

Becomes(c, answer) ==
  calls' = (calls (-) SetToBag({c})) (+) SetToBag({[c EXCEPT !.answer = answer]})

YesNo(b) == IF b THEN "yes" ELSE "no"
Waits(c) == BagIn(c, calls) /\ c.answer = "waiting"
Reaches(c) == connection # 0 /\ c.on = connection
callFrame == <<tabVars, front, liveVars, enabling, sessionVars, raised>>

Served(c) ==
  CASE c.kind = "install" -> [server EXCEPT !.helper = TRUE]
    [] c.kind = "setup" -> [server EXCEPT !.configured = TRUE]
    [] c.kind = "enable" -> [server EXCEPT !.log = TRUE]
    [] c.kind = "disable" -> [server EXCEPT !.log = FALSE]
    [] OTHER -> server

Serve(c) ==
  /\ Waits(c) /\ Reaches(c)
  /\ server' = Served(c)
  /\ Becomes(c, CASE c.kind = "check" -> YesNo(server.log)
                  [] c.kind = "status" -> YesNo(server.configured)
                  [] OTHER -> "yes")
  /\ UNCHANGED <<callFrame, excused, events>>

\* What failed may have been done; to set up may leave a service that is not
\* active.
Fail(c) ==
  /\ Waits(c) /\ Reaches(c) /\ Event
  /\ server' \in {server, Served(c)}
  /\ \/ Becomes(c, "failed")
     \/ c.kind = "setup" /\ Becomes(c, "no")
  /\ excused' = (excused \/ c.kind \in LogKinds)
  /\ UNCHANGED callFrame

\* The connection was closed: test -f has no status, which is not 0.
Cut(c) ==
  /\ Waits(c) /\ ~Reaches(c)
  /\ Becomes(c, IF c.kind = "check" THEN "no" ELSE "failed")
  /\ excused' = (excused \/ c.kind \in LogKinds)
  /\ UNCHANGED <<callFrame, server, events>>

Answers(c, kind) ==
  ~closed /\ BagIn(c, calls) /\ c.kind = kind /\ c.answer \in {"yes", "no"}
Rest(c) == calls (-) SetToBag({c})

\* _on_status: the list of the users is asked for before the log, and raises
\* where there is no connection.  The tab that comes to be seen asks first.
OnStatus(c) ==
  /\ page' = IF c.answer = "yes" THEN "tabs" ELSE "setup"
  /\ LET rest == IF c.answer = "yes" /\ connection # 0
                 THEN Rest(c) (+) SetToBag({Ask("check")}) ELSE Rest(c)
     IN RefreshSessions(c.answer = "yes" /\ page # "tabs" /\ front /\ enabled = "on",
                        rest)
  /\ excused' = (excused \/ (c.answer = "yes" /\ Under(LogKinds \ {"check"}) # {}))

StatusKnown(c) ==
  /\ Answers(c, "status") /\ OnStatus(c)
  /\ UNCHANGED <<connection, connections, connecting, closed, front, liveVars,
                 enabling, unavailable, server, events>>

\* done of _run_setup.
SetUp(c) ==
  /\ Answers(c, "setup")
  /\ IF c.answer = "yes" THEN OnStatus(c)
     ELSE calls' = Rest(c) /\ UNCHANGED <<page, inFlight, raised, excused>>
  /\ UNCHANGED <<connection, connections, connecting, closed, front, liveVars,
                 enabling, unavailable, server, events>>

\* _install_helper's answer: check_status.
Installed(c) ==
  /\ Answers(c, "install")
  /\ page' = "message"
  /\ calls' = IF connection = 0 THEN Rest(c)
              ELSE Rest(c) (+) SetToBag({Ask("status")})
  /\ raised' = (raised \/ connection = 0)
  /\ UNCHANGED <<connection, connections, connecting, closed, front, liveVars,
                 enabling, sessionVars, server, excused, events>>

\* _set_enabled, after check, _enable or _disable.
LogAnswered(c) ==
  /\ \E kind \in LogKinds : Answers(c, kind)
  /\ SetEnabled(c.kind = "enable" \/ (c.kind = "check" /\ c.answer = "yes"), Rest(c))
  /\ enabling' = (enabling /\ c.kind # "enable")
  /\ UNCHANGED <<tabVars, front, unavailable, server, excused, events>>

\* done of refresh_sessions; a session that was kicked.
SessionsAnswered(c) ==
  /\ Answers(c, "sessions") /\ inFlight' = FALSE /\ calls' = Rest(c)
  /\ UNCHANGED <<tabVars, front, liveVars, enabling, unavailable, server, excused,
                 raised, events>>

Kicked(c) ==
  /\ Answers(c, "kick")
  /\ RefreshSessions(Visible, Rest(c))
  /\ UNCHANGED <<tabVars, front, liveVars, enabling, unavailable, server, excused,
                 events>>

\* failed of _Busy, _enable, _run_setup and refresh_sessions.
Failed(c) ==
  /\ ~closed /\ BagIn(c, calls) /\ c.answer = "failed"
  /\ calls' = Rest(c)
  /\ enabling' = (enabling /\ c.kind # "enable")
  /\ inFlight' = (inFlight /\ c.kind # "sessions")
  /\ unavailable' = (unavailable \/ c.kind = "sessions")
  /\ UNCHANGED <<tabVars, front, liveVars, server, excused, raised, events>>

-----------------------------------------------------------------------------
(* The user, and the timer.                                                *)

userFrame == <<tabVars, liveVars, unavailable, server>>

Asks(kind) ==
  /\ connection # 0
  /\ calls' = calls (+) SetToBag({Ask(kind)})

\* _install_helper, _run_setup.
SetUpClicked(kind) ==
  /\ Event /\ page = [install |-> "helper", setup |-> "setup"][kind]
  /\ Under({kind}) = {}
  /\ Asks(kind)
  /\ UNCHANGED <<userFrame, front, enabling, inFlight, excused, raised>>

\* A tab comes to the front: showEvent.
SelectTab ==
  /\ Event /\ page = "tabs" /\ front' = ~front
  /\ RefreshSessions(front' /\ enabled = "on", calls)
  /\ UNCHANGED <<userFrame, enabling, excused>>

\* _enable: the button is off before a missing connection raises.
Enable ==
  /\ Event /\ Visible /\ enabled = "off" /\ ~enabling
  /\ enabling' = TRUE
  /\ IF connection = 0 THEN raised' = TRUE /\ UNCHANGED calls
     ELSE Asks("enable") /\ UNCHANGED raised
  /\ excused' = Meets("enable")
  /\ UNCHANGED <<userFrame, front, inFlight>>

Disable ==
  /\ Event /\ Visible /\ enabled = "on" /\ Asks("disable")
  /\ excused' = Meets("disable")
  /\ UNCHANGED <<userFrame, front, enabling, inFlight, raised>>

\* _kick_selected.
Kick ==
  /\ Event /\ Visible /\ enabled = "on" /\ Asks("kick")
  /\ UNCHANGED <<userFrame, front, enabling, inFlight, excused, raised>>

\* The timer, or a line about a session: _on_lines.
Tick ==
  /\ Event /\ (timer \/ \E k \in DOMAIN tails : tails[k].runs)
  /\ RefreshSessions(Visible, calls)
  /\ UNCHANGED <<userFrame, front, enabling, excused>>

-----------------------------------------------------------------------------
(* The followers' threads.                                                 *)

\* follow_live_log returns or raises: it is asked to, its connection is closed,
\* or the connection or tail is lost.
TailEnds(k) ==
  /\ tails[k].runs
  /\ IF tails[k].stop \/ tails[k].on = 0 \/ tails[k].on # connection
     THEN UNCHANGED events ELSE Event
  /\ tails' = [tails EXCEPT ![k].runs = FALSE]
  /\ UNCHANGED <<tabVars, front, enabled, follower, timer, enabling, sessionVars,
                 calls, server, excused, raised>>

TailTold(k) ==
  /\ ~tails[k].runs /\ ~tails[k].told
  /\ tails' = [tails EXCEPT ![k].told = TRUE]
  /\ excused' = (excused \/ ~tails[k].stop)
  /\ UNCHANGED <<tabVars, front, enabled, timer, enabling, sessionVars, calls,
                 server, raised, events>>

\* finished of start.
Finished(k) ==
  /\ TailTold(k)
  /\ follower' = IF follower = k THEN 0 ELSE follower

Next ==
  \/ Reconnect \/ Connected \/ ConnectFails \/ Close
  \/ \E c \in BagToSet(calls) :
       \/ Serve(c) \/ Fail(c) \/ Cut(c) \/ StatusKnown(c) \/ SetUp(c)
       \/ Installed(c) \/ LogAnswered(c) \/ SessionsAnswered(c) \/ Kicked(c)
       \/ Failed(c)
  \/ \E kind \in {"install", "setup"} : SetUpClicked(kind)
  \/ SelectTab \/ Enable \/ Disable \/ Kick \/ Tick
  \/ \E k \in DOMAIN tails : TailEnds(k) \/ Finished(k)

Spec == Init /\ [][Next]_vars

-----------------------------------------------------------------------------
(* The traffic is not shown twice: a follower that has not been asked to    *)
(* stop is the tab's own, on its own connection, whatever connections and  *)
(* followers there were before; and none is left when the tab has closed.  *)
OneFollower ==
  \A k \in DOMAIN tails :
    (tails[k].runs /\ ~tails[k].stop) =>
      k = follower /\ tails[k].on \in {0, connection}

Quiet == page = "tabs" /\ connection # 0 /\ Under(LogKinds) = {} /\ ~excused

(* When nothing about it is under way the panel shows the log that the      *)
(* server has, and one that is shown as on is followed.  (Not after a call *)
(* about it has failed or has met another, whose answers may come in the   *)
(* other order, nor when its follower has ended by itself: the panel stays  *)
(* as it was.)                                                             *)
PanelTellsLog ==
  Quiet /\ enabled # "unknown" => (enabled = "on") = server.log
LogIsFollowed ==
  Quiet /\ enabled = "on" => follower # 0 /\ timer

(* The list of the sessions is not given up for a call that nobody makes,   *)
(* but where there was no connection to make it on.                        *)
SessionsAsked == ~closed /\ inFlight => Under({"sessions"}) # {} \/ raised

TrafficFollowed ==
  OneFollower /\ PanelTellsLog /\ LogIsFollowed /\ SessionsAsked
=============================================================================

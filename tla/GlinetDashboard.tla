--------------------------- MODULE GlinetDashboard ---------------------------
(***************************************************************************)
(* A GL.iNet router's tab (widgets/glinet_dashboard_widget.py): its lists, *)
(* each of which is loaded by a call of its own, the dialog that edits a   *)
(* WiFi network as its row showed it, and the reboot.  Every call logs in  *)
(* to the router and out of it (modules/connection_manager/                *)
(* glinet_client.py), which may go away between any two of its requests.   *)
(*                                                                         *)
(* Of the VPN tunnels there is one, which is on or off.  Left out: what    *)
(* the overview and the list of clients show.                              *)
(***************************************************************************)
EXTENDS Naturals, Bags

CONSTANTS
  Radios, NoRadio,
  Names,         \* the SSIDs
  Others,        \* lists of which nothing is kept: the overview, the clients
  MaxEvents,     \* bound of the model: what the user does, others, and failures
  MaxCalls       \* bound of the model: the calls under way at such a step

\* Of the constants; an ASSUME of the module that instantiates this one.
RadiosAssumption == NoRadio \notin Radios
BoundsAssumption == {MaxEvents, MaxCalls} \subseteq Nat

VARIABLES
  wifi,          \* the router's networks
  tunnel,        \* its VPN tunnel is on
  reachable,
  sessions,      \* that are logged in, of those the router knows
  rebooting,
  radioRows,     \* _wifi_radios
  vpnRow,        \* the tunnel, in its list
  edited,        \* the dialog: its network, as the row showed it
  tabClosed,
  calls,
  wished,        \* history: what anybody last asked each network to be
  now,           \* history: how often the router has changed
  shownAt,       \* history: when each list was read
  muddled,       \* history: networks for which no order was promised
  excused,       \* history: lists that need not show what the router has
  leaked,        \* history: sessions that could not be logged out of
  events

routerVars == <<wifi, tunnel, reachable, sessions, rebooting, now, leaked>>
viewVars == <<radioRows, vpnRow, shownAt, edited, tabClosed>>
vars == <<routerVars, viewVars, calls, wished, muddled, excused, events>>

Lists == Others \union {"wifi", "vpn"}
Network == [ssid : Names, key : Nat, enabled : BOOLEAN]
Row == [ssid : Names \union {"?"}, enabled : BOOLEAN]
NoRow == [ssid |-> "?", enabled |-> FALSE]
RowOf(network) == [ssid |-> network.ssid, enabled |-> network.enabled]
AsRows == [r \in Radios |-> RowOf(wifi[r])]
NotEdited == [radio |-> NoRadio, row |-> NoRow]

\* step is what the thread does next; in, that the router knows its session.
Call == [kind : Lists \union {"save", "reboot"}, radio : Radios \union {NoRadio},
         row : Row, key : Nat, step : {"login", "body", "logout", "answer"},
         in : BOOLEAN, result : {"none", "ok", "failed"},
         rows : [Radios -> Row], on : BOOLEAN, read : Nat]
Ask(kind) ==
  [kind |-> kind, radio |-> NoRadio, row |-> NoRow, key |-> 0, step |-> "login",
   in |-> FALSE, result |-> "none", rows |-> [r \in Radios |-> NoRow],
   on |-> FALSE, read |-> 0]

TypeOK ==
  /\ {wifi, wished} \subseteq [Radios -> Network]
  /\ {tunnel, reachable, rebooting, vpnRow, tabClosed} \subseteq BOOLEAN
  /\ {sessions, leaked, now, events} \subseteq Nat
  /\ shownAt \in [{"wifi", "vpn"} -> Nat]
  /\ radioRows \in [Radios -> Row]
  /\ edited \in [radio : Radios \union {NoRadio}, row : Row]
  /\ IsABag(calls) /\ BagToSet(calls) \subseteq Call
  /\ muddled \subseteq Radios /\ excused \subseteq Lists

\* __init__: the lists are being loaded.
Init ==
  /\ \E s \in Names : wifi = [r \in Radios |-> [ssid |-> s, key |-> 1, enabled |-> TRUE]]
  /\ tunnel = TRUE /\ reachable = TRUE
  /\ sessions = 0 /\ rebooting = FALSE
  /\ radioRows = [r \in Radios |-> NoRow] /\ vpnRow = FALSE
  /\ edited = NotEdited /\ tabClosed = FALSE
  /\ calls = SetToBag({Ask(l) : l \in Lists})
  /\ wished = wifi /\ muddled = {} /\ excused = {} /\ leaked = 0
  /\ now = 1 /\ shownAt = [l \in {"wifi", "vpn"} |-> 0] /\ events = 0

Event == events < MaxEvents /\ events' = events + 1
User ==
  /\ ~tabClosed /\ edited = NotEdited /\ Event
  /\ BagCardinality(calls) < MaxCalls
Under(kinds) == {c \in BagToSet(calls) : c.kind \in kinds}
Saved(r) == \E c \in Under({"save"}) : c.radio = r

-----------------------------------------------------------------------------
(* The user.                                                               *)

Sends(c) == calls' = calls (+) SetToBag({c})

\* The buttons of the lists.
Reload(list) ==
  /\ User /\ Sends(Ask(list))
  /\ UNCHANGED <<routerVars, viewVars, wished, muddled, excused>>

\* _on_edit_wifi_clicked, of a row that has been filled in.
EditWifi(r) ==
  /\ User /\ radioRows[r] # NoRow
  /\ edited' = [radio |-> r, row |-> radioRows[r]]
  /\ UNCHANGED <<routerVars, radioRows, vpnRow, shownAt, tabClosed, calls, wished, muddled, excused>>

CancelEdit ==
  /\ edited # NotEdited /\ edited' = NotEdited
  /\ UNCHANGED <<routerVars, radioRows, vpnRow, shownAt, tabClosed, calls, wished, muddled,
                 excused, events>>

\* _save_wifi_config: the name as it is in the dialog, a password if there is
\* one (0 is none), and the network enabled or not as its row was.
SaveEdit(ssid, key) ==
  LET r == edited.radio
      row == edited.row
  IN /\ edited # NotEdited /\ edited' = NotEdited
     /\ Sends([Ask("save") EXCEPT !.radio = r, !.key = key,
                                  !.row = [row EXCEPT !.ssid = ssid]])
     /\ wished' = [wished EXCEPT ![r] =
                     [@ EXCEPT !.ssid = IF ssid = row.ssid THEN @ ELSE ssid,
                               !.key = IF key = 0 THEN @ ELSE key]]
     /\ muddled' = IF Saved(r) \/ row # RowOf(wished[r]) THEN muddled \union {r} ELSE muddled
     /\ UNCHANGED <<routerVars, radioRows, vpnRow, shownAt, tabClosed, excused, events>>

\* _on_reboot_clicked.
Reboot ==
  /\ User /\ Sends(Ask("reboot"))
  /\ UNCHANGED <<routerVars, viewVars, wished, muddled, excused>>

CloseTab ==
  /\ ~tabClosed /\ edited = NotEdited /\ tabClosed' = TRUE
  /\ UNCHANGED <<routerVars, radioRows, vpnRow, shownAt, edited, calls, wished, muddled,
                 excused, events>>

-----------------------------------------------------------------------------
(* The router.                                                             *)

callFrame == <<viewVars, wished, events>>

\* Somebody changes the network, or the tunnel, on the router's own pages.
Elsewhere(r) ==
  /\ Event /\ now' = now + 1
  /\ \/ /\ wifi' = [wifi EXCEPT ![r].enabled = ~@]
        /\ wished' = [wished EXCEPT ![r].enabled = wifi'[r].enabled]
        /\ muddled' = IF Saved(r) THEN muddled \union {r} ELSE muddled
        /\ excused' = excused \union {"wifi"} /\ UNCHANGED tunnel
     \/ /\ tunnel' = ~tunnel /\ excused' = excused \union {"vpn"}
        /\ UNCHANGED <<wifi, wished, muddled>>
  /\ UNCHANGED <<reachable, sessions, rebooting, leaked, viewVars, calls>>

\* The network fails; or the router restarts, and forgets its sessions.
GoesAway ==
  LET Out(c) == [c EXCEPT !.in = FALSE]
  IN /\ reachable /\ reachable' = FALSE
     /\ IF rebooting THEN sessions' = 0 /\ leaked' = 0 /\ calls' = BagOfAll(Out, calls)
                          /\ rebooting' = FALSE /\ UNCHANGED events
        ELSE Event /\ UNCHANGED <<sessions, leaked, calls, rebooting>>
     /\ UNCHANGED <<wifi, tunnel, now, viewVars, wished, muddled, excused>>

ComesBack ==
  /\ ~reachable /\ reachable' = TRUE
  /\ UNCHANGED <<wifi, tunnel, now, sessions, rebooting, leaked, callFrame, calls,
                 muddled, excused>>

-----------------------------------------------------------------------------
(* A call, in a thread of the pool: _call.                                 *)

Becomes(c, d) == calls' = (calls (-) SetToBag({c})) (+) SetToBag({d})

\* login: where it fails there is nothing to log out of, which is tried too.
Login(c) ==
  /\ c.step = "login"
  /\ IF reachable THEN /\ sessions' = sessions + 1
                       /\ Becomes(c, [c EXCEPT !.step = "body", !.in = TRUE])
     ELSE UNCHANGED sessions /\ Becomes(c, [c EXCEPT !.step = "logout", !.result = "failed"])
  /\ UNCHANGED <<wifi, tunnel, now, reachable, rebooting, leaked, callFrame,
                 muddled, excused>>

Answers(c) == reachable /\ c.in
Ends(c, result) ==
  Becomes(c, [c EXCEPT !.step = "logout", !.result = result,
                       !.rows = IF c.kind = "wifi" THEN AsRows ELSE @,
                       !.on = c.kind = "vpn" /\ tunnel,
                       !.read = IF c.kind \in {"wifi", "vpn"} THEN now ELSE 0])

\* The first request about the tunnels: without policies, or without an answer,
\* the classic ones are asked for, each of which may fail and is off then.
ReadVpn(c) ==
  /\ c.step = "body" /\ c.kind = "vpn"
  /\ IF Answers(c) THEN Ends(c, "ok")
     ELSE Becomes(c, [c EXCEPT !.step = "logout", !.result = "ok"])
  /\ UNCHANGED <<routerVars, callFrame, muddled, excused>>

\* get_overview, list_clients, get_wifi_config.
Read(c) ==
  /\ c.step = "body" /\ c.kind \in Lists \ {"vpn"}
  /\ Ends(c, IF Answers(c) THEN "ok" ELSE "failed")
  /\ UNCHANGED <<routerVars, callFrame, muddled, excused>>

\* set_config: the key is left as it was when none is given.
Change(c) ==
  /\ now' = now + 1
  /\ wifi' = [wifi EXCEPT ![c.radio] =
                [ssid |-> c.row.ssid, key |-> IF c.key = 0 THEN @.key ELSE c.key,
                 enabled |-> c.row.enabled]]

\* set_wifi_config: if the router has gone away it may have been done before.
WriteWifi(c) ==
  /\ c.step = "body" /\ c.kind = "save"
  /\ IF Answers(c)
     THEN Change(c) /\ Ends(c, "ok")
     ELSE (Change(c) \/ UNCHANGED <<wifi, now>>) /\ Ends(c, "failed")
  /\ UNCHANGED <<tunnel, reachable, sessions, rebooting, leaked, callFrame, muddled,
                 excused>>

AskReboot(c) ==
  /\ c.step = "body" /\ c.kind = "reboot"
  /\ rebooting' = (rebooting \/ Answers(c))
  /\ Ends(c, IF Answers(c) THEN "ok" ELSE "failed")
  /\ UNCHANGED <<wifi, tunnel, now, reachable, sessions, leaked, callFrame,
                 muddled, excused>>

\* logout, in the finally: what it raises is swallowed.
Logout(c) ==
  /\ c.step = "logout"
  /\ Becomes(c, [c EXCEPT !.step = "answer", !.in = FALSE])
  /\ sessions' = IF Answers(c) THEN sessions - 1 ELSE sessions
  /\ leaked' = IF c.in /\ ~reachable THEN leaked + 1 ELSE leaked
  /\ UNCHANGED <<wifi, tunnel, now, reachable, rebooting, callFrame, muddled,
                 excused>>

-----------------------------------------------------------------------------
(* The answers.                                                            *)

Rest(c) == calls (-) SetToBag({c})
Answered(c, kinds, result) == c.step = "answer" /\ c.kind \in kinds /\ c.result = result
answerFrame == <<routerVars, edited, tabClosed, wished, muddled, events>>

\* The rows of a tab that was closed are gone.
Shows(c, list) ==
  /\ calls' = Rest(c)
  /\ ~tabClosed /\ shownAt' = [shownAt EXCEPT ![list] = c.read]
  /\ excused' = IF c.read = now THEN excused \ {list}
                ELSE IF c.read < shownAt[list] \/ c.read = 0 THEN excused \union {list}
                ELSE excused

\* _on_wifi_loaded.
ShowWifi(c) ==
  /\ Answered(c, {"wifi"}, "ok") /\ Shows(c, "wifi")
  /\ radioRows' = c.rows
  /\ UNCHANGED <<answerFrame, vpnRow>>

\* _on_vpn_loaded.
ShowVpn(c) ==
  /\ Answered(c, {"vpn"}, "ok") /\ Shows(c, "vpn")
  /\ vpnRow' = c.on
  /\ UNCHANGED <<answerFrame, radioRows>>

\* _on_overview_loaded, _on_clients_loaded, and a reboot that was asked for;
\* and whatever comes after the tab was closed.
ShowOther(c) ==
  /\ Answered(c, Others \union {"reboot"}, "ok")
     \/ (tabClosed /\ Answered(c, Lists, "ok"))
  /\ calls' = Rest(c)
  /\ UNCHANGED <<answerFrame, radioRows, vpnRow, shownAt, excused>>

\* The network is saved: its list is loaded again.
WifiSaved(c) ==
  /\ Answered(c, {"save"}, "ok")
  /\ calls' = Rest(c) (+) SetToBag({Ask("wifi")})
  /\ UNCHANGED <<answerFrame, radioRows, vpnRow, shownAt, excused>>

\* _on_error: the lists stay as they are.
Failed(c) ==
  /\ c.step = "answer" /\ c.result = "failed" /\ calls' = Rest(c)
  /\ excused' = excused \union ({IF c.kind = "save" THEN "wifi" ELSE c.kind} \intersect Lists)
  /\ muddled' = IF c.kind = "save" THEN muddled \union {c.radio} ELSE muddled
  /\ UNCHANGED <<routerVars, edited, tabClosed, wished, events, radioRows, vpnRow,
                 shownAt>>

Next ==
  \/ \E list \in Lists : Reload(list)
  \/ \E r \in Radios : EditWifi(r) \/ Elsewhere(r)
  \/ \E ssid \in Names, key \in {0, 2} : SaveEdit(ssid, key)
  \/ CancelEdit \/ Reboot \/ CloseTab \/ GoesAway \/ ComesBack
  \/ \E c \in BagToSet(calls) :
       \/ Login(c) \/ ReadVpn(c) \/ Read(c) \/ WriteWifi(c) \/ AskReboot(c)
       \/ Logout(c) \/ ShowWifi(c) \/ ShowVpn(c) \/ ShowOther(c)
       \/ WifiSaved(c) \/ Failed(c)

Spec == Init /\ [][Next]_vars

-----------------------------------------------------------------------------
(* The router has no session but those of the calls that are using it, and *)
(* those it could not be told the end of.                                  *)
SessionsAreEnded ==
  sessions = leaked + BagCardinality([c \in {d \in BagToSet(calls) : d.in} |->
                                        CopiesIn(c, calls)])

(* A network has the name, the password and the state that were asked for  *)
(* it last: to save some of them leaves the others.  (Not when two calls   *)
(* about it are under way at once, when one fails, or when the dialog was   *)
(* filled in from a row that did not show yet what had been asked for.)    *)
NetworksAsWished ==
  \A r \in Radios \ muddled : ~Saved(r) => wifi[r] = wished[r]

(* Once nothing that concerns them is under way the lists show what the     *)
(* router has.  (Not when it was changed elsewhere, when a call failed or  *)
(* was overtaken by an older one; nor when the router went away after the  *)
(* login of a call for the tunnels, which are shown as off then.)          *)
DashboardCatchesUp ==
  ~tabClosed =>
    /\ Under({"wifi", "save"}) = {} /\ "wifi" \notin excused => radioRows = AsRows
    /\ Under({"vpn"}) = {} /\ "vpn" \notin excused => vpnRow = tunnel

RouterFollows == SessionsAreEnded /\ NetworksAsWished /\ DashboardCatchesUp
=============================================================================

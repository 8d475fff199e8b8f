---------------------------- MODULE ProftpdUsers ----------------------------
(***************************************************************************)
(* The users and one group in a tab of the ProFTPD manager: their lists,   *)
(* the dialog that edits a user as the row showed him, and the calls that  *)
(* change them, in the background, after which a list is loaded again      *)
(* (widgets/proftpd_manager_widget.py).  Of a user only whether he is      *)
(* locked is kept, which the list's menu and the dialog both write.        *)
(*                                                                         *)
(* Left out: the connection (ProftpdTraffic), what the helper does with a  *)
(* call (ProftpdHelper), and the users' virtual directories.               *)
(***************************************************************************)
EXTENDS Naturals, Sequences, FiniteSets, Bags

CONSTANTS
  Users, Nobody,
  MaxEvents,     \* bound of the model: what the user does, and failures
  MaxCalls       \* bound of the model: the calls under way at such a step

\* Of the constants; an ASSUME of the module that instantiates this one.
UsersAssumption == Nobody \notin Users
BoundsAssumption == {MaxEvents, MaxCalls} \subseteq Nat

VARIABLES
  account,       \* the server's users
  members,       \* of the group, on the server
  shown,         \* the rows of the users' list: self.users
  shownMembers,  \* of the group, in the list
  combo,         \* those it can be added to it
  dialog,        \* UserDialog: the user, and what the row said of him
  calls,
  now,           \* how often the server has changed
  listed,        \* when each list was read
  asked,         \* history: what the user last asked each account to be
  muddled,       \* history: accounts for which no order was promised
  excused,       \* history: lists whose load failed or was overtaken
  since,         \* history: the users were listed after the group
  events

serverVars == <<account, members, now>>
viewVars == <<shown, shownMembers, combo, listed, since>>
vars == <<serverVars, viewVars, dialog, calls, asked, muddled, excused, events>>

States == {"none", "open", "locked"}
Lists == {"users", "group"}
Changes == {"create", "save", "lock", "delete", "member"}
NoDialog == [user |-> Nobody, row |-> "none"]

Call == [kind : Lists \union Changes, users : Seq(Users), to : States \union {"in", "out"},
         answer : {"waiting", "failed", "ok"}, read : Nat]
Ask(kind, users, to) ==
  [kind |-> kind, users |-> users, to |-> to, answer |-> "waiting", read |-> 0,
   seen |-> [account |-> [u \in Users |-> "none"], members |-> {}]]
Load(list) == Ask(list, <<>>, "none")

TypeOK ==
  /\ {account, shown, asked} \subseteq [Users -> States]
  /\ {members, shownMembers, combo, muddled} \subseteq SUBSET Users
  /\ dialog \in [user : Users \union {Nobody}, row : States]
  /\ IsABag(calls)
  /\ \A c \in BagToSet(calls) : [f \in {"kind", "users", "to", "answer", "read"} |-> c[f]] \in Call
  /\ {now, events} \subseteq Nat /\ listed \in [Lists -> Nat]
  /\ excused \subseteq Lists /\ since \in BOOLEAN

\* _on_status: both lists are being loaded.
Init ==
  /\ account \in {[u \in Users |-> IF u = v THEN "open" ELSE "none"] : v \in Users}
  /\ members = {} /\ now = 1
  /\ shown = [u \in Users |-> "none"] /\ shownMembers = {} /\ combo = {}
  /\ listed = [l \in Lists |-> 0] /\ since = FALSE
  /\ dialog = NoDialog /\ calls = SetToBag({Load(l) : l \in Lists})
  /\ asked = account /\ muddled = {} /\ excused = {} /\ events = 0

User ==
  events < MaxEvents /\ BagCardinality(calls) < MaxCalls /\ events' = events + 1
Free == dialog = NoDialog

Under(kinds) == {c \in BagToSet(calls) : c.kind \in kinds}
Touched == UNION {{c.users[i] : i \in DOMAIN c.users} : c \in Under(Changes)}

-----------------------------------------------------------------------------
(* The user.                                                               *)

Sends(c) == calls' = calls (+) SetToBag({c})
userFrame == <<serverVars, viewVars, excused>>

\* toggle_lock: the other of what the row shows.
ToggleLock(u) ==
  LET to == IF shown[u] = "locked" THEN "open" ELSE "locked"
  IN /\ User /\ Free /\ shown[u] # "none"
     /\ Sends(Ask("lock", <<u>>, to))
     /\ asked' = [asked EXCEPT ![u] = to]
     /\ muddled' = muddled \union ({u} \intersect Touched)
     /\ UNCHANGED <<userFrame, dialog>>

\* edit_user, of a row or of nobody's: the dialog is filled in from the row.
OpenDialog(u) ==
  /\ User /\ Free
  /\ dialog' = [user |-> u, row |-> shown[u]]
  /\ UNCHANGED <<userFrame, calls, asked, muddled>>

\* options: whatever the dialog shows is sent, and not what was changed in it.
Saved(to) == to

\* A user is locked, or not, as the row said, or as was chosen.
SaveDialog(to) ==
  /\ ~Free /\ dialog' = NoDialog
  /\ LET u == dialog.user
         new == dialog.row = "none"
     IN /\ Sends(Ask(IF new THEN "create" ELSE "save", <<u>>, Saved(to)))
        /\ asked' = IF to # dialog.row THEN [asked EXCEPT ![u] = to] ELSE asked
        /\ muddled' = IF u \in Touched \/ (to = dialog.row /\ asked[u] # to)
                         \/ (new /\ asked[u] # "none")
                      THEN muddled \union {u} ELSE muddled
  /\ UNCHANGED <<userFrame, events>>

CancelDialog ==
  /\ ~Free /\ dialog' = NoDialog
  /\ UNCHANGED <<userFrame, calls, asked, muddled, events>>

\* delete_users, of the rows that are selected, in their order.
DeleteUsers(us) ==
  LET gone == {us[i] : i \in DOMAIN us}
  IN /\ User /\ Free /\ us # <<>>
     /\ \A u \in gone : shown[u] # "none"
     /\ Sends(Ask("delete", us, "none"))
     /\ asked' = [u \in Users |-> IF u \in gone THEN "none" ELSE asked[u]]
     /\ muddled' = muddled \union (gone \intersect Touched)
     /\ UNCHANGED <<userFrame, dialog>>

\* _add_member and _remove_member, and _group_call.
ChangeMember(u) ==
  /\ User /\ Free
  /\ \/ u \in combo /\ Sends(Ask("member", <<u>>, "in"))
     \/ u \in shownMembers /\ Sends(Ask("member", <<u>>, "out"))
  /\ UNCHANGED <<userFrame, dialog, asked, muddled>>

\* Both lists' buttons; a dialog of virtual directories that was closed.
Refresh(list) ==
  /\ User /\ Free /\ Sends(Load(list))
  /\ UNCHANGED <<userFrame, dialog, asked, muddled>>

-----------------------------------------------------------------------------
(* The server.                                                             *)

Waits(c) == BagIn(c, calls) /\ c.answer = "waiting"
Becomes(c, d) == calls' = (calls (-) SetToBag({c})) (+) SetToBag({d})
serverFrame == <<viewVars, dialog, asked>>

Accepts(c) ==
  CASE c.kind = "create" -> account[c.users[1]] = "none"
    [] c.kind \in {"save", "lock"} -> account[c.users[1]] # "none"
    [] c.kind = "member" -> c.to = "out" \/ account[c.users[1]] # "none"
    [] OTHER -> TRUE

ServeLoad(c) ==
  /\ Waits(c) /\ c.kind \in Lists
  /\ Becomes(c, [c EXCEPT !.answer = "ok", !.read = now,
                          !.seen = [account |-> account, members |-> members]])
  /\ UNCHANGED <<serverFrame, serverVars, muddled, excused, events>>

\* delete_all goes from one user to the next; with him go his memberships.
ServeChange(c) ==
  /\ Waits(c) /\ c.kind \in Changes /\ Accepts(c)
  /\ now' = now + 1
  /\ LET u == c.users[1] IN
       /\ account' = IF c.kind = "member" THEN account ELSE [account EXCEPT ![u] = c.to]
       /\ members' = IF c.to = "in" THEN members \union {u}
                     ELSE IF c.to \in {"out", "none"} THEN members \ {u} ELSE members
  /\ Becomes(c, IF Len(c.users) > 1 THEN [c EXCEPT !.users = Tail(@)]
                ELSE [c EXCEPT !.answer = "ok"])
  /\ UNCHANGED <<serverFrame, muddled, excused, events>>

\* A call is refused, or its connection fails.
Fail(c) ==
  /\ Waits(c)
  /\ IF c.kind \in Changes /\ ~Accepts(c) THEN UNCHANGED events ELSE User
  /\ Becomes(c, [c EXCEPT !.answer = "failed"])
  /\ muddled' = IF c.kind \in Changes \ {"member"}
                THEN muddled \union {c.users[i] : i \in DOMAIN c.users} ELSE muddled
  /\ UNCHANGED <<serverFrame, serverVars, excused>>

-----------------------------------------------------------------------------
(* The answers.                                                            *)

Answers(c, kinds) == BagIn(c, calls) /\ c.answer = "ok" /\ c.kind \in kinds
Rest(c) == calls (-) SetToBag({c})

Shows(c) ==
  /\ listed' = [listed EXCEPT ![c.kind] = c.read]
  /\ excused' = IF c.read < listed[c.kind] THEN excused \union {c.kind}
                ELSE IF c.read = now THEN excused \ {c.kind} ELSE excused
  /\ calls' = Rest(c)

\* show_users: the combo of the group is left as it was.
ShowUsers(c) ==
  /\ Answers(c, {"users"}) /\ Shows(c)
  /\ shown' = c.seen.account
  /\ since' = TRUE
  /\ UNCHANGED <<serverVars, shownMembers, combo, dialog, asked, muddled, events>>

\* show_groups, with _show_group.
ShowGroup(c) ==
  /\ Answers(c, {"group"}) /\ Shows(c)
  /\ shownMembers' = c.seen.members
  /\ combo' = {u \in Users : shown[u] # "none"} \ c.seen.members
  /\ since' = FALSE
  /\ UNCHANGED <<serverVars, shown, dialog, asked, muddled, events>>

\* The lists that are loaded again: not the group's after a user has gone.
After(c) ==
  /\ Answers(c, Changes)
  /\ calls' = Rest(c) (+) SetToBag({Load(IF c.kind = "member" THEN "group" ELSE "users")})
  /\ excused' = IF c.kind = "delete" THEN excused \union {"group"} ELSE excused
  /\ UNCHANGED <<serverVars, viewVars, dialog, asked, muddled, events>>

\* failed of _Busy: nothing is loaded again, although some of several users
\* may have been deleted.
Failed(c) ==
  /\ BagIn(c, calls) /\ c.answer = "failed"
  /\ calls' = Rest(c)
  /\ excused' = excused \union (CASE c.kind \in Lists -> {c.kind}
                                  [] c.kind = "delete" -> Lists
                                  [] OTHER -> {})
  /\ UNCHANGED <<serverVars, viewVars, dialog, asked, muddled, events>>

Next ==
  \/ \E u \in Users : ToggleLock(u) \/ OpenDialog(u) \/ ChangeMember(u)
  \/ \E to \in {"open", "locked"} : SaveDialog(to)
  \/ CancelDialog
  \/ \E u, v \in Users : DeleteUsers(IF u = v THEN <<u>> ELSE <<u, v>>)
  \/ \E list \in Lists : Refresh(list)
  \/ \E c \in BagToSet(calls) :
       \/ ServeLoad(c) \/ ServeChange(c) \/ Fail(c) \/ ShowUsers(c)
       \/ ShowGroup(c) \/ After(c) \/ Failed(c)

Spec == Init /\ [][Next]_vars

-----------------------------------------------------------------------------
(* Once nothing that concerns them is under way the lists show the server's *)
(* users and members.  (Not when a load has failed or was overtaken by an  *)
(* older one, nor after some of several users were deleted; and the group   *)
(* keeps the members that were deleted until it is loaded again.)          *)
ListsCatchUp ==
  /\ (Under({"users"} \union Changes) = {} /\ "users" \notin excused) => shown = account
  /\ (Under({"group"} \union Changes) = {} /\ "group" \notin excused)
       => shownMembers = members

(* A user is never offered as a member twice, and everybody else who is     *)
(* listed is, unless the users were listed after the group was.            *)
ComboOffersTheRest ==
  /\ combo \intersect shownMembers = {}
  /\ ~since => combo = {u \in Users : shown[u] # "none"} \ shownMembers

(* What was asked for an account stays: nothing that is saved for another   *)
(* reason locks or unlocks it.  (Not when two calls about it are under way  *)
(* at once, when one fails, or when the dialog was filled in from a row     *)
(* that did not show yet what had been asked for: it writes that back.)    *)
AskedForStays ==
  \A u \in Users \ (Touched \union muddled) : account[u] = asked[u]

UsersFollow == ListsCatchUp /\ ComboOffersTheRest /\ AskedForStays
=============================================================================

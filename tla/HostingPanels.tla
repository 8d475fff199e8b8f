---------------------------- MODULE HostingPanels ----------------------------
(***************************************************************************)
(* The tabs of the hosting manager that concern the whole server           *)
(* (widgets/hosting_manager_widget.py): databases, malware scanning,       *)
(* intrusion protection and the server itself, with their dialogs          *)
(* (hosting_dialogs.py).                                                   *)
(*                                                                         *)
(* Each tab shows the last answer it was given and keeps a copy, from      *)
(* which its dialogs are filled.  Calls run in the background and end in   *)
(* any order.  What a tab shows is known by how often it has changed on    *)
(* the server; of the settings, the addresses that are never banned are    *)
(* kept, and there is one database.  Left out: the Sites tab               *)
(* (HostingSites), the Backups tab, and test alerts, which change nothing. *)
(***************************************************************************)
EXTENDS Naturals, Sequences, Bags

CONSTANTS
  Addresses,
  MaxEvents,     \* bound of the model: what the user does, and failures
  MaxCalls       \* bound of the model: the calls under way at a step of the user

\* Of the constants; an ASSUME of the module that instantiates this one.
BoundsAssumption == {MaxEvents, MaxCalls} \subseteq Nat

VARIABLES
  up,         \* the tab has a connection: it is not None
  page,       \* of the stack: a message, or the tabs
  seen,       \* which change of the server each tab shows
  cached,     \* of fail2ban, server_status and databases, what is used again
  calls,      \* the calls under way, with what those that have answers read
  dialogs,    \* the modal dialogs, the last on top
  server,     \* never banned, MariaDB installed, the password (0: no database)
  changes,    \* how often what a tab is about has changed on the server
  told,       \* the change that each tab was to be loaded again for
  promised,   \* addresses the user was told are never banned
  noted,      \* the password the user was shown last
  excused,    \* history: tabs whose load failed, was overtaken, or not made
  forgotten,  \* history: addresses that a dialog or call could not know of
  unnoted,    \* history: a password that failed, or was made with another
  events

vars == <<up, page, seen, cached, calls, dialogs, server, changes, told,
          promised, noted, excused, forgotten, unnoted, events>>

Panels == {"status", "databases", "malware", "fail2ban"}
Passwords == {"create", "password"}
Kinds == Panels \union Passwords \union
  {"first", "scan", "settings", "unban", "install", "protect", "set", "delete"}

\* "sent" are addresses; an answer comes with what it read, and at which change.
Server == [allowed : SUBSET Addresses, mariadb : BOOLEAN, password : Nat]
Call == [kind : Kinds, sent : SUBSET Addresses, answer : {"waiting", "failed", "ok"},
         read : Server, at : Nat]
NothingShown == [allowed |-> {}, mariadb |-> FALSE, password |-> 0]
Ask(kind) == [kind |-> kind, sent |-> {}, answer |-> "waiting", read |-> NothingShown,
              at |-> 0]

TypeOK ==
  /\ {up, unnoted} \subseteq BOOLEAN /\ page \in {"message", "tabs"}
  /\ {seen, changes, told} \subseteq [Panels -> Nat]
  /\ cached \in [allowed : SUBSET Addresses, mariadb : BOOLEAN, database : BOOLEAN]
  /\ IsABag(calls) /\ BagToSet(calls) \subseteq Call
  /\ dialogs \in Seq([kind : {"settings", "credentials"},
                      allowed : SUBSET Addresses, blind : SUBSET Addresses])
  /\ server \in Server
  /\ promised \subseteq Addresses /\ forgotten \subseteq Addresses
  /\ excused \subseteq Panels /\ {noted, events} \subseteq Nat

\* on_connected: the first status is being asked for.
Init ==
  /\ up = TRUE /\ page = "message"
  /\ seen = [p \in Panels |-> 0]
  /\ cached = [allowed |-> {}, mariadb |-> FALSE, database |-> FALSE]
  /\ calls = SetToBag({Ask("first")}) /\ dialogs = <<>>
  /\ \E installed \in BOOLEAN :
       server = [NothingShown EXCEPT !.mariadb = installed]
  /\ changes = [p \in Panels |-> 1] /\ told = [p \in Panels |-> 0]
  /\ promised = {} /\ noted = 0
  /\ excused = {} /\ forgotten = {} /\ unnoted = FALSE /\ events = 0

-----------------------------------------------------------------------------
(* The user.  A click without a connection raises, and changes nothing.    *)

viewVars == <<page, seen, cached, told, excused>>
serverVars == <<server, changes>>

Out(kinds) == {c \in BagToSet(calls) : c.kind \in kinds}

User ==
  /\ up /\ BagCardinality(calls) < MaxCalls
  /\ events < MaxEvents /\ events' = events + 1

Clicked(call) ==
  /\ User /\ page = "tabs" /\ dialogs = <<>>
  /\ calls' = calls (+) SetToBag({call})
  /\ UNCHANGED <<up, viewVars, dialogs, serverVars, promised, noted>>

\* A Refresh button, of a tab other than that of the databases.
RefreshClicked ==
  /\ \E p \in Panels \ {"databases"} : Clicked(Ask(p))
  /\ UNCHANGED <<forgotten, unnoted>>

\* _save_malware_settings, _scan_now and _finding_action; _edit_malware_alerts
\* when its dialog is accepted.
ChangeMalware == Clicked(Ask("scan")) /\ UNCHANGED <<forgotten, unnoted>>
EditMalwareAlerts == Clicked(Ask("scan")) /\ UNCHANGED <<forgotten, unnoted>>

\* _save_acme_email and _clear_dns_provider; _set_dns_provider and
\* _edit_storage_default when their dialogs are accepted.
ChangeServer == Clicked(Ask("set")) /\ UNCHANGED <<forgotten, unnoted>>
SetDnsProvider == Clicked(Ask("set")) /\ UNCHANGED <<forgotten, unnoted>>
EditStorageDefault == Clicked(Ask("set")) /\ UNCHANGED <<forgotten, unnoted>>

InstallStack == Clicked(Ask("install")) /\ UNCHANGED <<forgotten, unnoted>>
InstallFail2ban == Clicked(Ask("protect")) /\ UNCHANGED <<forgotten, unnoted>>

\* "Unban", or "Unban and Never Ban Again".
Unban ==
  \E addresses \in {{}} \union {{a} : a \in Addresses} :
    /\ Clicked([Ask("unban") EXCEPT !.sent = addresses])
    /\ forgotten' = IF Out({"settings"}) # {} THEN forgotten \union addresses
                    ELSE forgotten
    /\ UNCHANGED unnoted

MakePassword(kind) ==
  /\ Clicked(Ask(kind))
  /\ unnoted' = (Out(Passwords) # {})
  /\ UNCHANGED forgotten

\* create_database, when its dialog is accepted; reset_database_password of a
\* row of the table.
CreateDatabase == MakePassword("create")
ResetPassword == cached.database /\ MakePassword("password")

DeleteDatabase ==
  cached.database /\ Clicked(Ask("delete")) /\ UNCHANGED <<forgotten, unnoted>>

\* _edit_fail2ban, up to exec: the dialog shows what the tab has a copy of.
EditFail2ban ==
  /\ User /\ page = "tabs" /\ dialogs = <<>>
  /\ dialogs' = <<[kind |-> "settings", allowed |-> cached.allowed,
                   blind |-> IF "fail2ban" \in excused THEN Addresses
                             ELSE UNION {c.sent : c \in Out({"unban"})}]>>
  /\ UNCHANGED <<up, viewVars, calls, serverVars, promised, noted, forgotten, unnoted>>

Top == dialogs[Len(dialogs)]
CloseTop == dialogs' = SubSeq(dialogs, 1, Len(dialogs) - 1)

\* The rest of _edit_fail2ban: addresses may have been taken out of the field.
SettingsAccepted ==
  /\ dialogs # <<>> /\ Top.kind = "settings" /\ up
  /\ \E out \in SUBSET Top.allowed :
       /\ calls' = calls (+)
                   SetToBag({[Ask("settings") EXCEPT !.sent = Top.allowed \ out]})
       /\ promised' = promised \ out
       /\ forgotten' = forgotten \union (Top.blind \ (Top.allowed \ out))
  /\ CloseTop
  /\ UNCHANGED <<up, viewVars, serverVars, noted, unnoted, events>>

\* The dialog is cancelled, or the box with the credentials closed.
Closed ==
  /\ dialogs # <<>> /\ CloseTop
  /\ UNCHANGED <<up, viewVars, calls, serverVars, promised, noted, forgotten,
                 unnoted, events>>

-----------------------------------------------------------------------------
(* The connection, and the server.                                         *)

\* connect_to_server.
Reconnect ==
  /\ User /\ dialogs = <<>>
  /\ up' = FALSE /\ page' = "message"
  /\ UNCHANGED <<seen, cached, told, excused, calls, dialogs, serverVars,
                 promised, noted, forgotten, unnoted>>

\* on_connected.
OnConnected ==
  /\ ~up /\ up' = TRUE /\ page' = "message"
  /\ calls' = calls (+) SetToBag({Ask("first")})
  /\ UNCHANGED <<seen, cached, told, excused, dialogs, serverVars, promised,
                 noted, forgotten, unnoted, events>>

\* The tabs about which a call changes something on the server.
Changes(kind) ==
  CASE kind = "scan" -> {"malware"}
    [] kind \in {"settings", "unban"} -> {"fail2ban"}
    [] kind = "set" -> {"status"}
    [] kind = "protect" -> {"status", "fail2ban"}
    [] kind = "install" -> Panels \ {"databases"}
    [] kind \in Passwords \union {"delete"} -> {"databases"}
    [] OTHER -> {}

\* The tab an answer is for.
Shows(kind) ==
  CASE kind = "scan" -> "malware"
    [] kind \in {"settings", "unban"} -> "fail2ban"
    [] kind \in {"first", "set", "protect", "install"} -> "status"
    [] kind \in Passwords \union {"delete"} -> "databases"
    [] OTHER -> kind

Possible(c) ==
  /\ c.kind = "create" => server.mariadb /\ server.password = 0
  /\ c.kind \in {"password", "delete"} => server.password # 0

\* What the answer holds, of what the server has then.
Read(kind) ==
  CASE Shows(kind) = "fail2ban" -> [NothingShown EXCEPT !.allowed = server'.allowed]
    [] Shows(kind) = "status" -> [NothingShown EXCEPT !.mariadb = server'.mariadb]
    [] Shows(kind) = "databases" -> [NothingShown EXCEPT !.password = server'.password]
    [] OTHER -> NothingShown

\* The helper does what is asked.  The answer may be lost all the same.
Serve(c) ==
  /\ BagIn(c, calls) /\ c.answer = "waiting" /\ up /\ Possible(c)
  /\ changes' = [p \in Panels |-> IF p \in Changes(c.kind) THEN changes[p] + 1
                                  ELSE changes[p]]
  /\ server' = [allowed |-> CASE c.kind = "settings" -> c.sent
                              [] c.kind = "unban" -> server.allowed \union c.sent
                              [] OTHER -> server.allowed,
                mariadb |-> server.mariadb \/ c.kind = "install",
                password |-> CASE c.kind \in Passwords -> changes'["databases"]
                               [] c.kind = "delete" -> 0
                               [] OTHER -> server.password]
  /\ \/ /\ calls' = (calls (-) SetToBag({c})) (+)
                    SetToBag({[c EXCEPT !.answer = "ok", !.read = Read(c.kind),
                                 !.at = changes'[Shows(c.kind)]]})
        /\ UNCHANGED events
     \/ /\ events < MaxEvents /\ events' = events + 1
        /\ calls' = (calls (-) SetToBag({c})) (+) SetToBag({[c EXCEPT !.answer = "failed"]})
  /\ UNCHANGED <<up, viewVars, dialogs, promised, noted, forgotten, unnoted>>

Fail(c) ==
  /\ BagIn(c, calls) /\ c.answer = "waiting"
  /\ IF up /\ Possible(c) THEN events < MaxEvents /\ events' = events + 1
     ELSE UNCHANGED events
  /\ calls' = (calls (-) SetToBag({c})) (+) SetToBag({[c EXCEPT !.answer = "failed"]})
  /\ UNCHANGED <<up, viewVars, dialogs, serverVars, promised, noted, forgotten, unnoted>>

-----------------------------------------------------------------------------
(* The answers, on Qt's thread.                                            *)

Answer(c, kinds) == BagIn(c, calls) /\ c.answer = "ok" /\ c.kind \in kinds
Rest(c) == calls (-) SetToBag({c})
others == <<up, serverVars, events>>

\* An older answer may come after a newer one.
Shown(p, at) ==
  /\ seen' = [seen EXCEPT ![p] = at]
  /\ excused' = IF at < seen[p] THEN excused \union {p}
                ELSE IF at >= told[p] THEN excused \ {p} ELSE excused

Told(panels) ==
  told' = [p \in Panels |-> IF p \in panels THEN changes[p] ELSE told[p]]

\* The handler asks for these tabs; without a connection the first one ends it.
Loads(kinds, rest) ==
  calls' = rest (+) SetToBag(IF up THEN {Ask(k) : k \in kinds} ELSE {})

\* show_status.
ShowStatus(c) ==
  /\ Answer(c, {"status"})
  /\ cached' = [cached EXCEPT !.mariadb = c.read.mariadb]
  /\ Shown("status", c.at)
  /\ calls' = Rest(c)
  /\ UNCHANGED <<page, told, dialogs, promised, noted, forgotten, unnoted, others>>

\* _on_first_status.
FirstStatus(c) ==
  /\ Answer(c, {"first"})
  /\ page' = "tabs"
  /\ cached' = [cached EXCEPT !.mariadb = c.read.mariadb,
                  !.database = cached.database /\ c.read.mariadb]
  /\ Shown("status", c.at)
  /\ Loads({"malware", "fail2ban"} \union
             (IF c.read.mariadb THEN {"databases"} ELSE {}), Rest(c))
  /\ UNCHANGED <<told, dialogs, promised, noted, forgotten, unnoted, others>>

\* show_malware.
ShowMalware(c) ==
  /\ Answer(c, {"malware", "scan"})
  /\ Shown("malware", c.at)
  /\ calls' = Rest(c)
  /\ UNCHANGED <<page, cached, told, dialogs, promised, noted, forgotten, unnoted,
                 others>>

\* show_fail2ban, and what the status bar says of an address.
ShowFail2ban(c) ==
  /\ Answer(c, {"fail2ban", "settings", "unban"})
  /\ cached' = [cached EXCEPT !.allowed = c.read.allowed]
  /\ promised' = IF c.kind = "unban" THEN promised \union c.sent ELSE promised
  /\ Shown("fail2ban", c.at)
  /\ calls' = Rest(c)
  /\ UNCHANGED <<page, told, dialogs, noted, forgotten, unnoted, others>>

\* done of _install_stack and of _install_fail2ban; refresh_status after a change.
ServerChanged(c) ==
  /\ Answer(c, {"install", "protect", "set"})
  /\ Told(Changes(c.kind))
  /\ Loads(Changes(c.kind), Rest(c))
  /\ UNCHANGED <<page, seen, cached, excused, dialogs, promised, noted, forgotten,
                 unnoted, others>>

\* refresh_databases: a status without MariaDB empties the table.
RefreshDatabases(rest) ==
  IF cached.mariadb THEN Loads({"databases"}, rest) /\ UNCHANGED <<cached, excused>>
  ELSE /\ cached' = [cached EXCEPT !.database = FALSE]
       /\ excused' = excused \union {"databases"}
       /\ calls' = rest

RefreshDatabasesClicked ==
  /\ User /\ page = "tabs" /\ dialogs = <<>>
  /\ RefreshDatabases(calls)
  /\ UNCHANGED <<up, page, seen, told, dialogs, serverVars, promised, noted,
                 forgotten, unnoted>>

ShowDatabases(c) ==
  /\ Answer(c, {"databases"})
  /\ cached' = [cached EXCEPT !.database = (c.read.password # 0)]
  /\ Shown("databases", c.at)
  /\ calls' = Rest(c)
  /\ UNCHANGED <<page, told, dialogs, promised, noted, forgotten, unnoted, others>>

\* _after_database_change of delete_database.
DatabaseDeleted(c) ==
  /\ Answer(c, {"delete"})
  /\ Told({"databases"})
  /\ RefreshDatabases(Rest(c))
  /\ UNCHANGED <<page, seen, dialogs, promised, noted, forgotten, unnoted, others>>

\* _show_credentials: without a connection it may not come to its dialog.
ShowCredentials(c) ==
  LET raises == cached.mariadb /\ ~up
  IN  /\ Answer(c, Passwords)
      /\ Told({"databases"})
      /\ RefreshDatabases(Rest(c))
      /\ noted' = IF raises THEN noted ELSE c.read.password
      /\ unnoted' = (unnoted \/ raises)
      /\ dialogs' = IF raises THEN dialogs
                    ELSE Append(dialogs, [kind |-> "credentials", allowed |-> {},
                                          blind |-> {}])
      /\ UNCHANGED <<page, seen, promised, forgotten, others>>

\* failed of Busy.
Failed(c) ==
  /\ BagIn(c, calls) /\ c.answer = "failed"
  /\ calls' = Rest(c)
  /\ excused' = IF c.kind = "first" THEN Panels
                ELSE excused \union Changes(c.kind) \union ({c.kind} \intersect Panels)
  /\ unnoted' = (unnoted \/ c.kind \in Passwords)
  /\ UNCHANGED <<page, seen, cached, told, dialogs, promised, noted, forgotten, others>>

-----------------------------------------------------------------------------
Next ==
  \/ RefreshClicked \/ ChangeMalware \/ EditMalwareAlerts
  \/ ChangeServer \/ SetDnsProvider \/ EditStorageDefault \/ InstallStack
  \/ InstallFail2ban \/ Unban \/ CreateDatabase \/ ResetPassword
  \/ DeleteDatabase \/ EditFail2ban
  \/ SettingsAccepted \/ Closed \/ Reconnect \/ OnConnected
  \/ RefreshDatabasesClicked
  \/ \E c \in BagToSet(calls) :
       \/ Serve(c) \/ Fail(c) \/ ShowStatus(c) \/ FirstStatus(c) \/ ShowMalware(c)
       \/ ShowFail2ban(c) \/ ServerChanged(c) \/ ShowDatabases(c)
       \/ DatabaseDeleted(c) \/ ShowCredentials(c) \/ Failed(c)

Spec == Init /\ [][Next]_vars

-----------------------------------------------------------------------------
(* What the user was told is never banned stays so until he takes it out,   *)
(* although each dialog sends back the whole list: but for an address       *)
(* whose answer was still out, or overtaken, when the dialog was filled.    *)
AllowedStays == promised \subseteq server.allowed \union forgotten

(* The password that was shown last, which is shown only once, is the one   *)
(* the database has; not where two were made at once, or making one failed, *)
(* or its answer met a tab that was connecting again.                       *)
PasswordKnown ==
  server.password # 0 /\ Out(Passwords) = {} => unnoted \/ noted = server.password

(* After a change that the user was told of, each tab that it concerns      *)
(* shows it, or is being loaded, or its load was not made, failed or was    *)
(* overtaken, or the tab connects again.                                    *)
TabsCatchUp ==
  \A p \in Panels :
    told[p] > seen[p] => \/ Out({p}) # {} \/ p \in excused
                         \/ page = "message" \/ ~up

PanelsFollow == AllowedStays /\ PasswordKnown /\ TabsCatchUp
=============================================================================

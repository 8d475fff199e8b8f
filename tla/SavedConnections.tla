-------------------------- MODULE SavedConnections --------------------------
(***************************************************************************)
(* The connections the user has entered (connection_manager's view, its    *)
(* three Manage dialogs, the lists and the secrets of core/settings.py):   *)
(* Manual connections, GL.iNet routers and QEMU hosts.  Each list is a     *)
(* file that is written whole; a Manage dialog works on a copy, which is   *)
(* saved when it closes, however it closes; passwords are encrypted to the *)
(* user's SSH key as it is then.  A crash in a save leaves an empty file.  *)
(*                                                                         *)
(* Entries with one name are at one host and port.  Of an entry's fields   *)
(* the kind, the gateway and the password are kept; a password is the      *)
(* number of the key it was encrypted to, 0 for none.                      *)
(***************************************************************************)
EXTENDS Naturals, Sequences

CONSTANTS
  Names,
  MaxEntries,  \* bounds of the model: of a list,
  MaxEvents    \* and of what the user does

\* Of the constants; an ASSUME of the module that instantiates this one.
BoundsAssumption == MaxEntries \in Nat /\ MaxEvents \in Nat

Lists == {"manual", "glinet", "hosts"}
KindsOf(l) == IF l = "manual" THEN {"ssh", "sftp"} ELSE {l}
WithPassword == {"sftp", "glinet"}   \* _PASSWORD_KINDS, and every router

VARIABLES
  file,        \* what each list's file holds
  identity,    \* the SSH key: its number, and whether its .pub is there
  dialog,      \* the list a Manage dialog is open for, and its items
  wanted,      \* history: what the user wants each list to be,
  torn,        \*   the lists that a crash has cut off,
  refused,     \*   those whose edits could not be saved,
  rebuilt,     \*   the names of connections saved without their gateway,
  blanked,     \*   those with a typed password that was edited away,
  rekeyed,     \*   the key has changed
  events

histVars == <<wanted, torn, refused, rebuilt, blanked, rekeyed>>
vars == <<file, identity, dialog, histVars, events>>

Entries == [name : Names, kind : {"ssh", "sftp", "glinet", "hosts"}, gateway : BOOLEAN,
            secret : 0..2]
\* An item holds a new password, until the dialog is closed.
Items == [entry : Entries, typed : BOOLEAN, wanted : BOOLEAN]
Wishes == [name : Names, kind : {"ssh", "sftp", "glinet", "hosts"}, gateway : BOOLEAN,
           remembered : BOOLEAN]

TypeOK ==
  /\ \A l \in Lists : file[l].state \in {"list", "cut"} /\ file[l].list \in Seq(Entries)
  /\ identity \in [key : {1, 2}, pub : BOOLEAN]
  /\ dialog.list \in Lists \union {"none"} /\ dialog.items \in Seq(Items)
  /\ Len(dialog.items) <= MaxEntries
  /\ \A l \in Lists : wanted[l] \in Seq(Wishes)
  /\ torn \subseteq Lists /\ refused \subseteq Lists
  /\ rebuilt \subseteq Names /\ blanked \subseteq Names
  /\ rekeyed \in BOOLEAN /\ events \in 0..MaxEvents

Init ==
  /\ file = [l \in Lists |-> [state |-> "list", list |-> <<>>]]
  /\ identity \in [key : {1}, pub : BOOLEAN]
  /\ dialog = [list |-> "none", items |-> <<>>]
  /\ wanted = [l \in Lists |-> <<>>] /\ torn = {} /\ refused = {}
  /\ rebuilt = {} /\ blanked = {} /\ rekeyed = FALSE /\ events = 0

Event == events < MaxEvents /\ events' = events + 1

-----------------------------------------------------------------------------
(* core/settings.py.                                                       *)

\* load_manual_connections and the others: no file, or a cut one, is no list.
Load(l) == IF file[l].state = "cut" THEN <<>> ELSE file[l].list
Save(l, list) == file' = [file EXCEPT ![l] = [state |-> "list", list |-> list]]

\* The encrypt_ and decrypt_ functions: to the .pub, by the private key.
CanEncrypt == identity.pub
CanDecrypt(secret) == secret = identity.key

-----------------------------------------------------------------------------
(* The Manage dialogs.                                                     *)

Manage(l) ==
  /\ dialog.list = "none"
  /\ dialog' = [list |-> l, items |-> [i \in DOMAIN Load(l) |->
       [entry |-> Load(l)[i], typed |-> FALSE, wanted |-> Load(l)[i].secret # 0]]]
  /\ UNCHANGED <<file, identity, histVars, events>>

\* What the edit dialog's connection() and host() make of the fields; the
\* password that is stored goes along, whatever the kind is now.
Typed(name, kind, gateway, old, password) ==
  [entry |-> [name |-> name, kind |-> kind, gateway |-> gateway, secret |-> old],
   typed |-> password, wanted |-> password]

\* The fields offered: only a Manual connection has a gateway.
Fields(l) == {<<n, k, g, p>> \in Names \X KindsOf(l) \X BOOLEAN \X BOOLEAN :
                (g => l = "manual") /\ (p => k \in WithPassword)}

AddItem(n, k, g, p) ==
  /\ dialog.list # "none" /\ Event /\ Len(dialog.items) < MaxEntries
  /\ <<n, k, g, p>> \in Fields(dialog.list)
  /\ dialog' = [dialog EXCEPT !.items = Append(@, Typed(n, k, g, 0, p))]
  /\ UNCHANGED <<file, identity, histVars>>

\* A password left blank keeps the stored one, not one typed a moment ago.
EditItem(i, n, k, g, p) ==
  /\ dialog.list # "none" /\ Event /\ i \in DOMAIN dialog.items
  /\ <<n, k, g, p>> \in Fields(dialog.list)
  /\ LET item == Typed(n, k, g, dialog.items[i].entry.secret, p)
         remembered == p \/ (dialog.items[i].wanted /\ k \in WithPassword)
     IN dialog' = [dialog EXCEPT !.items[i] = [item EXCEPT !.wanted = remembered]]
  /\ blanked' = IF dialog.items[i].typed /\ ~p THEN blanked \union {n} ELSE blanked
  /\ UNCHANGED <<file, identity, wanted, torn, refused, rebuilt, rekeyed>>

RemoveItem(i) ==
  /\ dialog.list # "none" /\ Event /\ i \in DOMAIN dialog.items
  /\ dialog' = [dialog EXCEPT !.items = SubSeq(@, 1, i - 1) \o SubSeq(@, i + 1, Len(@))]
  /\ UNCHANGED <<file, identity, histVars>>

\* The entry as it is saved; one with a new password is made anew, of the
\* fields that every kind has.
Encrypted(item) ==
  IF item.typed THEN [item.entry EXCEPT !.secret = identity.key, !.gateway = FALSE]
  ELSE item.entry

Wish(item) == [name |-> item.entry.name, kind |-> item.entry.kind,
               gateway |-> item.entry.gateway, remembered |-> item.wanted]

\* _on_manage_..._clicked, after the dialog: one password that cannot be
\* encrypted raises out of it, before anything has been saved.
CloseManage ==
  /\ dialog.list # "none"
  /\ LET l == dialog.list
         items == dialog.items
         new == {i \in DOMAIN items : items[i].typed}
     IN /\ wanted' = [wanted EXCEPT ![l] = [i \in DOMAIN items |-> Wish(items[i])]]
        /\ IF new # {} /\ ~CanEncrypt
           THEN refused' = refused \union {l} /\ UNCHANGED <<file, rebuilt>>
           ELSE /\ Save(l, [i \in DOMAIN items |-> Encrypted(items[i])])
                /\ refused' = refused \ {l}
                /\ rebuilt' = rebuilt \union
                     {items[i].entry.name : i \in {j \in new : items[j].entry.gateway}}
        /\ torn' = IF file' # file THEN torn \ {l} ELSE torn
  /\ dialog' = [list |-> "none", items |-> <<>>]
  /\ UNCHANGED <<identity, blanked, rekeyed, events>>

-----------------------------------------------------------------------------
(* Connecting.                                                             *)

\* _start_manual_ftp_session asks for a password it cannot read;
\* _remember_manual_connection_password then saves it with every connection
\* of that name, host and port, each without its gateway.
Remember(i) ==
  /\ dialog.list = "none" /\ Event /\ i \in DOMAIN Load("manual")
  /\ LET it == Load("manual")[i]
         list == Load("manual")
     IN /\ it.kind = "sftp" /\ ~CanDecrypt(it.secret) /\ CanEncrypt
        /\ Save("manual", [j \in DOMAIN list |->
             IF list[j].name = it.name
             THEN [list[j] EXCEPT !.secret = identity.key, !.gateway = FALSE] ELSE list[j]])
        /\ rebuilt' = IF \E j \in DOMAIN list : list[j].name = it.name /\ list[j].gateway
                      THEN rebuilt \union {it.name} ELSE rebuilt
        /\ wanted' = IF "manual" \in torn \union refused THEN wanted
                     ELSE [wanted EXCEPT !["manual"][i].remembered = TRUE]
  /\ UNCHANGED <<identity, dialog, torn, refused, blanked, rekeyed>>

-----------------------------------------------------------------------------
(* What happens to the files.                                              *)

\* The user makes another key, or loses the .pub, or finds it.
ChangeKey ==
  /\ Event
  /\ \/ identity.key = 1 /\ identity' = [key |-> 2, pub |-> TRUE] /\ rekeyed' = TRUE
     \/ identity' = [identity EXCEPT !.pub = ~@] /\ UNCHANGED rekeyed
  /\ UNCHANGED <<file, dialog, wanted, torn, refused, rebuilt, blanked>>

\* The program crashes, perhaps in a save, and is started again.
Crash ==
  /\ Event /\ dialog' = [list |-> "none", items |-> <<>>]
  /\ \/ UNCHANGED <<file, torn>>
     \/ \E l \in Lists : /\ file' = [file EXCEPT ![l] = [state |-> "cut", list |-> <<>>]]
                         /\ torn' = torn \union {l}
  /\ UNCHANGED <<identity, wanted, refused, rebuilt, blanked, rekeyed>>

Next ==
  \/ \E l \in Lists : Manage(l)
  \/ \E n \in Names, k \in {"ssh", "sftp", "glinet", "hosts"}, g, p \in BOOLEAN :
       AddItem(n, k, g, p) \/ \E i \in 1..MaxEntries : EditItem(i, n, k, g, p)
  \/ \E i \in 1..MaxEntries : RemoveItem(i) \/ Remember(i)
  \/ CloseManage \/ ChangeKey \/ Crash

Spec == Init /\ [][Next]_vars

-----------------------------------------------------------------------------
(* The properties.                                                         *)

\* Each list is, entry by entry, what the user left in its dialog: with the
\* password, unless the entry was edited again after it was typed, and with
\* the gateway, unless it was saved together with a password.  A list whose
\* passwords could not be encrypted, or that a crash has cut off, is not.
EntriesKept ==
  \A l \in Lists \ (torn \union refused) :
    /\ Len(file[l].list) = Len(wanted[l])
    /\ \A i \in DOMAIN wanted[l] :
         LET e == file[l].list[i]
             w == wanted[l][i]
         IN /\ e.name = w.name /\ e.kind = w.kind
            /\ e.gateway = w.gateway \/ e.name \in rebuilt
            /\ w.remembered => (e.secret # 0 \/ e.name \in blanked)

\* What is remembered can be read, as long as the key is the same.
SecretsReadable ==
  \A l \in Lists : \A i \in DOMAIN Load(l) :
    Load(l)[i].secret = 0 \/ CanDecrypt(Load(l)[i].secret) \/ rekeyed

ConnectionsKept == EntriesKept /\ SecretsReadable
=============================================================================

----------------------------- MODULE HelperTab -----------------------------
(***************************************************************************)
(* The connections of a remote administration tab: RemoteHelperTab         *)
(* (widgets/remote_helper_widget.py), which the hosting and scheduler tabs *)
(* extend, over RemoteHelperConnection (core/remote_helper.py).            *)
(*                                                                         *)
(* Actors: Qt's thread, the pool's tasks (connect and close) and the       *)
(* server, which may drop a connection.  What can be left behind is an SSH *)
(* connection with root on the server.                                     *)
(***************************************************************************)
EXTENDS Naturals

CONSTANTS
  Connections,   \* bound of the model: the attempts to connect
  NoConnection

ASSUME ConnectionsAssumption == NoConnection \notin Connections

VARIABLES
  client,       \* _client of each connection: "none", "handshake", "up", "closed"
  connection,   \* the tab's connection
  attempt,      \* the connection that is being made
  answer,       \* its answer to the tab: "none", "ok" or "failed"
  canReconnect, \* reconnect_button is enabled
  asking,       \* prompt_to_retry has a question open
  closing,      \* connections whose close waits in the pool
  closed        \* _closed

tabVars == <<client, connection, attempt, answer, canReconnect, asking,
          closing, closed>>

Maybe == Connections \union {NoConnection}

TabTypeOK ==
  /\ client \in [Connections -> {"none", "handshake", "up", "closed"}]
  /\ connection \in Maybe
  /\ attempt \in Maybe
  /\ answer \in {"none", "ok", "failed"}
  /\ canReconnect \in BOOLEAN /\ asking \in BOOLEAN /\ closed \in BOOLEAN
  /\ closing \subseteq Connections

Unused == {c \in Connections : client[c] = "none"}

TabInit ==
  /\ client = [c \in Connections |-> "none"]
  /\ connection = NoConnection
  /\ attempt = NoConnection
  /\ answer = "none"
  /\ canReconnect = TRUE
  /\ asking = FALSE
  /\ closing = {}
  /\ closed = FALSE

-----------------------------------------------------------------------------
(* Qt's thread.                                                            *)

ClosedNow(c) == [client EXCEPT ![c] = "closed"]

\* connect_to_server: the old connection is closed here, on Qt's thread.
ConnectToServer ==
  \E new \in Unused :
    /\ attempt' = new
    /\ client' = [c \in Connections |->
                    IF c = new THEN "handshake"
                    ELSE IF c = connection THEN "closed" ELSE client[c]]
    /\ connection' = NoConnection
    /\ canReconnect' = FALSE
    /\ answer' = "none"

\* The constructor of the tab, and the button.
Reconnect ==
  /\ ~closed /\ canReconnect /\ ~asking
  /\ ConnectToServer
  /\ UNCHANGED <<asking, closing, closed>>

\* Mutant of Connected: a tab that was closed meanwhile keeps the connection.
ConnectedAnyway ==
  /\ answer = "ok"
  /\ answer' = "none"
  /\ attempt' = NoConnection
  /\ connection' = attempt /\ canReconnect' = TRUE /\ UNCHANGED client
  /\ UNCHANGED <<asking, closing, closed>>

\* ok.
Connected ==
  /\ answer = "ok"
  /\ answer' = "none"
  /\ attempt' = NoConnection
  /\ IF closed
     THEN client' = ClosedNow(attempt) /\ UNCHANGED <<connection, canReconnect>>
     ELSE connection' = attempt /\ canReconnect' = TRUE /\ UNCHANGED client
  /\ UNCHANGED <<asking, closing, closed>>

\* failed, and _on_connect_error up to the question, if the error has one.
ConnectFailed ==
  /\ answer = "failed"
  /\ answer' = "none"
  /\ attempt' = NoConnection
  /\ IF closed
     THEN UNCHANGED <<canReconnect, asking>>
     ELSE canReconnect' = TRUE /\ asking' \in BOOLEAN
  /\ UNCHANGED <<client, connection, closing, closed>>

\* The user trusts the host key or types what was asked for.
Retry ==
  /\ asking
  /\ asking' = FALSE
  /\ ConnectToServer
  /\ UNCHANGED <<closing, closed>>

GiveUp ==
  /\ asking
  /\ asking' = FALSE
  /\ UNCHANGED <<client, connection, attempt, answer, canReconnect, closing, closed>>

CloseSession ==
  /\ ~closed /\ ~asking
  /\ closed' = TRUE
  /\ closing' = closing \union ({connection} \ {NoConnection})
  /\ connection' = NoConnection
  /\ UNCHANGED <<client, attempt, answer, canReconnect, asking>>

-----------------------------------------------------------------------------
(* The pool: RemoteHelperConnection.connect and close.                     *)

\* client.connect succeeds: _client is set.
LoggedIn ==
  /\ attempt # NoConnection /\ client[attempt] = "handshake"
  /\ client' = [client EXCEPT ![attempt] = "up"]
  /\ UNCHANGED <<connection, attempt, answer, canReconnect, asking, closing, closed>>

\* It fails: the client goes with the exception.
LoginFails ==
  /\ attempt # NoConnection /\ client[attempt] = "handshake"
  /\ client' = ClosedNow(attempt)
  /\ answer' = "failed"
  /\ UNCHANGED <<connection, attempt, canReconnect, asking, closing, closed>>

\* Root is had and the helper looked for.
Ready ==
  /\ attempt # NoConnection /\ client[attempt] = "up" /\ answer = "none"
  /\ answer' = "ok"
  /\ UNCHANGED <<client, connection, attempt, canReconnect, asking, closing, closed>>

\* sudo wants another password, or the server goes away: close, and raise.
NotReady ==
  /\ attempt # NoConnection /\ client[attempt] = "up" /\ answer = "none"
  /\ client' = ClosedNow(attempt)
  /\ answer' = "failed"
  /\ UNCHANGED <<connection, attempt, canReconnect, asking, closing, closed>>

CloseRuns(c) ==
  /\ c \in closing
  /\ closing' = closing \ {c}
  /\ client' = ClosedNow(c)
  /\ UNCHANGED <<connection, attempt, answer, canReconnect, asking, closed>>

-----------------------------------------------------------------------------
TabNext ==
  \/ Reconnect \/ Connected \/ ConnectFailed \/ Retry \/ GiveUp
  \/ CloseSession
  \/ LoggedIn \/ LoginFails \/ Ready \/ NotReady
  \/ \E c \in Connections : CloseRuns(c)

TabSpec == TabInit /\ [][TabNext]_tabVars

-----------------------------------------------------------------------------
(* Every connection that is up is accounted for: it is the tab's, or being *)
(* made, or about to be closed.  With one attempt at a time (the button is *)
(* disabled, and Retry follows an attempt that is over) no overlap of      *)
(* Reconnect, an answer and closing the tab loses an SSH connection; once  *)
(* the tab is closed and its tasks are over none is left.                  *)
ConnectionsAccounted ==
  \A c \in Connections :
    client[c] \in {"handshake", "up"} =>
      \/ c = attempt
      \/ c = connection /\ ~closed
      \/ c \in closing
=============================================================================

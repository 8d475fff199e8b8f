-------------------------- MODULE ComponentProofs --------------------------
(***************************************************************************)
(* The proofs about the configuration files (ConfigFiles), the connections *)
(* of a remote administration tab (HelperTab), SPICE's mouse (SpiceInput)  *)
(* and clipboard (SpiceAgent), the connection manager's tree               *)
(* (ConnectionTree), the gcloud account (GcloudAccount), the mailbox tab   *)
(* (MboxBrowser) and the picture of an RDP session (RdpPicture), for all   *)
(* values of their constants.  The eight share nothing; the invariants of  *)
(* each stand before its lemmas.                                           *)
(***************************************************************************)
EXTENDS ConfigFiles, ConnectionTree, GcloudAccount, HelperTab, MboxBrowser,
        RdpPicture, SpiceAgent, SpiceInput, FiniteSetTheorems, TLAPS

-----------------------------------------------------------------------------
(* ConfigFiles, for any set of files and any number of restores: the       *)
(* types, and that a restore which is cut short anywhere can be undone.    *)

(* Until a restore has closed its safety zip nothing but the user changes  *)
(* the configuration; afterwards the zip holds what there was before.      *)
Safe ==
  /\ (step \in {"save", "safety"} \/ Last = 1) => config = base
  /\ step \in {"safety", "remove", "write"} => Last # 1
  /\ step \in {"remove", "write"} => zips[Last].readable /\ zips[Last].files = base

(* The removing loop takes only what the backup has not, and misses        *)
(* nothing; what the writing loop has not to do any more is in place.      *)
Loops ==
  /\ step = "remove" => /\ \A n \in todo : contents[n] = None
                        /\ \A n \in ConfigNames \ todo : contents[n] = None => config[n] = None
  /\ step = "write" => \A n \in ConfigNames \ todo : config[n] = contents[n]

ConfigInv == ConfigTypeOK /\ Safe /\ Loops /\ OldKept /\ NoThirdState

-----------------------------------------------------------------------------
\* Where a zip is replaced, the others stay.
LEMMA ZipsType ==
  ASSUME ConfigTypeOK, NEW k \in DOMAIN zips, NEW z \in Zips
  PROVE  /\ [zips EXCEPT ![k] = z] \in Seq(Zips)
         /\ Len([zips EXCEPT ![k] = z]) = Last
         /\ [zips EXCEPT ![k] = z] # <<>>
         /\ \A j \in DOMAIN zips : [zips EXCEPT ![k] = z][j] = IF j = k THEN z ELSE zips[j]
<1> DEFINE s == [zips EXCEPT ![k] = z]
<1>1. /\ zips \in Seq(Zips) /\ zips # <<>>
      /\ DOMAIN zips = 1..Last /\ Last \in Nat
      /\ \A j \in 1..Last : zips[j] \in Zips
  BY DEF ConfigTypeOK, Last
<1>2. DOMAIN s = 1..Last /\ \A j \in 1..Last : s[j] = IF j = k THEN z ELSE zips[j]
  BY <1>1
<1>3. s \in [1..Last -> Zips]
  <2>1. \A j \in 1..Last : s[j] \in Zips
    BY <1>1, <1>2
  <2>2. s = [j \in 1..Last |-> IF j = k THEN z ELSE zips[j]]
    BY <1>1
  <2> QED
    BY <1>1, <2>2
<1>4. Len(s) = Last /\ Last # 0
  BY <1>1, <1>3
<1>5. s \in Seq(Zips) /\ s # <<>>
  BY <1>1, <1>3, <1>4
<1> QED
  BY <1>1, <1>2, <1>4, <1>5

\* There is a first zip, and a last one.
LEMMA LastType == ConfigTypeOK => Last \in Nat \ {0} /\ Last \in DOMAIN zips /\ 1 \in DOMAIN zips
<1> SUFFICES ASSUME ConfigTypeOK PROVE Last \in Nat \ {0} /\ DOMAIN zips = 1..Last
  OBVIOUS
<1>1. zips \in Seq(Zips) /\ zips # <<>>
  BY DEF ConfigTypeOK
<1> QED
  BY <1>1 DEF Last

\* What opening and closing a zip do to the sequence.
LEMMA OpenType ==
  ASSUME ConfigTypeOK
  PROVE  /\ Open(1) \in Seq(Zips) /\ Len(Open(1)) = Last /\ Open(1) # <<>>
         /\ \A j \in DOMAIN zips : j # 1 => Open(1)[j] = zips[j]
<1> DEFINE z == [zips[1] EXCEPT !.readable = FALSE]
<1>1. zips[1] \in Zips
  BY LastType DEF ConfigTypeOK
<1>2. z \in Zips
  BY <1>1 DEF Zips
<1>3. Open(1) = [zips EXCEPT ![1] = z]
  BY DEF Open
<1> HIDE DEF z
<1> QED
  BY <1>2, <1>3, ZipsType, LastType

\* Closing writes the zip it closes, and no other.
LEMMA CloseType ==
  ASSUME ConfigTypeOK, NEW k \in DOMAIN zips
  PROVE  /\ Close(k) \in Seq(Zips) /\ Len(Close(k)) = Last /\ Close(k) # <<>>
         /\ \A j \in DOMAIN zips :
              Close(k)[j] = IF j = k THEN [readable |-> TRUE, files |-> config] ELSE zips[j]
<1>1. [readable |-> TRUE, files |-> config] \in Zips
  BY DEF ConfigTypeOK, Zips
<1> QED
  BY <1>1, ZipsType DEF Close

\* So does a failure, with a part of the files.
LEMMA FailType ==
  ASSUME ConfigTypeOK, ExportFails
  PROVE  /\ zips' \in Seq(Zips) /\ Last' = Last /\ zips' # <<>>
         /\ step = "export" /\ Last # 1 => zips'[Last] = zips[Last]
<1> DEFINE k == IF step = "export" THEN 1 ELSE Last
<1>1. PICK piece \in Pieces(config) :
        zips' = [zips EXCEPT ![k] = [readable |-> TRUE, files |-> piece]]
  BY DEF ExportFails
<1>2. piece \in Files
  BY DEF Pieces, Present, ConfigTypeOK, Files
<1>3. [readable |-> TRUE, files |-> piece] \in Zips
  BY <1>2 DEF Zips
<1>4. k \in DOMAIN zips /\ Last \in DOMAIN zips
  BY LastType
<1>5. step = "export" /\ Last # 1 => k # Last
  OBVIOUS
<1> HIDE DEF k
<1> QED
  BY <1>1, <1>3, <1>4, <1>5, ZipsType DEF Last

\* An element added to a sequence makes it longer by one.
LEMMA ZipsAppendFacts ==
  ASSUME NEW S, NEW s \in Seq(S), NEW e \in S
  PROVE  Append(s, e) \in Seq(S) /\ Append(s, e) # <<>> /\ Len(Append(s, e)) = Len(s) + 1
<1>1. Len(Append(s, e)) = Len(s) + 1 /\ Len(s) \in Nat
  OBVIOUS
<1>2. Append(s, e) \in Seq(S)
  OBVIOUS
<1> QED
  BY <1>1, <1>2

\* A restore adds its zip at the end.
LEMMA AppendType ==
  ASSUME ConfigTypeOK
  PROVE  LET s == Append(zips, [readable |-> FALSE, files |-> config])
         IN  s \in Seq(Zips) /\ s # <<>> /\ Len(s) = Last + 1
<1>1. [readable |-> FALSE, files |-> config] \in Zips
  BY DEF ConfigTypeOK, Zips
<1>2. zips \in Seq(Zips)
  BY DEF ConfigTypeOK
<1> QED
  BY <1>1, <1>2, ZipsAppendFacts DEF Last

-----------------------------------------------------------------------------
\* Every variable keeps to its type.
LEMMA ConfigInitType == ConfigInit => ConfigTypeOK
<1> SUFFICES ASSUME ConfigInit PROVE ConfigTypeOK
  OBVIOUS
<1>1. PICK files \in [ConfigNames -> ConfigValues \union {None}] :
        zips = <<[readable |-> TRUE, files |-> files]>> /\ contents = files
  BY DEF ConfigInit
<1>2. files \in Files /\ config \in Files
  BY DEF ConfigInit, Files
<1>3. [readable |-> TRUE, files |-> files] \in Zips
  BY <1>2 DEF Zips
<1>4. zips \in Seq(Zips) /\ zips # <<>>
  BY <1>1, <1>3
<1> QED
  BY <1>1, <1>2, <1>4 DEF ConfigInit, ConfigTypeOK, Steps

LEMMA ConfigNextType == ConfigTypeOK /\ [ConfigNext]_configVars => ConfigTypeOK'
<1> SUFFICES ASSUME ConfigTypeOK, [ConfigNext]_configVars PROVE ConfigTypeOK'
  OBVIOUS
<1> USE DEF ConfigTypeOK, Steps
<1>1. CASE \E n \in ConfigNames : SaveTruncates(n) \/ ClearSetting(n) \/ \E v \in ConfigValues : SaveFills(n, v)
  BY <1>1 DEF SaveTruncates, ClearSetting, SaveFills, Files
<1>2. CASE \E n \in ConfigNames : Remove(n) \/ WriteTemp(n)
  BY <1>2 DEF Remove, WriteTemp, Files
<1>3. CASE \E n \in ConfigNames : Replace(n)
  BY <1>3 DEF Replace, Files
<1>4. CASE \E k \in DOMAIN zips : Restore(k)
  <2>1. PICK k \in DOMAIN zips : Restore(k)
    BY <1>4
  <2>2. zips[k].files \in Files
    <3>1. zips[k] \in Zips
      OBVIOUS
    <3> QED
      BY <3>1 DEF Zips
  <2> QED
    BY <2>1, <2>2, AppendType DEF Restore
<1>5. CASE Export
  BY <1>5, OpenType DEF Export
<1>6. CASE ExportEnds
  BY <1>6, CloseType, LastType DEF ExportEnds
<1>7. CASE SafetyEnds
  BY <1>7, CloseType, LastType DEF Last, SafetyEnds, Present
<1>8. CASE Removed
  BY <1>8 DEF Removed, Present
<1>9. CASE RestoreEnds
  BY <1>9 DEF RestoreEnds
<1>10. CASE Interrupted
  BY <1>10 DEF Interrupted
<1>11. CASE ExportFails
  BY <1>11, FailType DEF ExportFails
<1>12. CASE UNCHANGED configVars
  BY <1>12 DEF configVars
<1> QED
  BY <1>1, <1>2, <1>3, <1>4, <1>5, <1>6, <1>7, <1>8, <1>9, <1>10, <1>11, <1>12 DEF ConfigNext

\* The type invariant of the configuration and its zips.
THEOREM ConfigTypeCorrect == ConfigSpec => []ConfigTypeOK
<1> QED
  BY ConfigInitType, ConfigNextType, PTL DEF ConfigSpec

-----------------------------------------------------------------------------
\* The initial states satisfy the invariant.
LEMMA ConfigInitInv == ConfigInit => ConfigInv
<1> SUFFICES ASSUME ConfigInit PROVE ConfigInv
  OBVIOUS
<1> QED
  BY ConfigInitType DEF Last, ConfigInv, ConfigInit, Safe, Loops, OldKept, NoThirdState

\* What the user does to a file is the configuration that counts from then on.
LEMMA UserKeeps ==
  ASSUME ConfigInv, base' = config', config' \in Files, step' \in {"idle", "save"}
  PROVE  Safe' /\ Loops' /\ OldKept' /\ NoThirdState'
  BY DEF Last, Safe, Loops, OldKept, NoThirdState

\* Every step, stuttering included, keeps it.
LEMMA ConfigNextInv == ConfigInv /\ [ConfigNext]_configVars => ConfigInv'
<1> SUFFICES ASSUME ConfigInv, [ConfigNext]_configVars
             PROVE  Safe' /\ Loops' /\ OldKept' /\ NoThirdState'
  BY ConfigNextType DEF ConfigInv
<1>t. ConfigTypeOK /\ ConfigTypeOK' /\ Safe /\ Loops /\ OldKept /\ NoThirdState
  BY ConfigNextType DEF ConfigInv
<1>l. Last \in Nat \ {0} /\ Last \in DOMAIN zips
  BY <1>t, LastType
<1>1. CASE \E n \in ConfigNames : SaveTruncates(n) \/ ClearSetting(n) \/ \E v \in ConfigValues : SaveFills(n, v)
  <2>1. base' = config' /\ step' \in {"idle", "save"}
    BY <1>1, <1>t DEF SaveTruncates, ClearSetting, SaveFills
  <2> QED
    BY <2>1, <1>t, UserKeeps DEF ConfigTypeOK
<1>2. CASE \E n \in ConfigNames : Remove(n)
  <2>1. PICK n \in ConfigNames : Remove(n)
    BY <1>2
  <2>2. n \in todo /\ contents[n] = None /\ config' = [config EXCEPT ![n] = None]
    BY <2>1, <1>t DEF Remove, Loops
  <2>3. Safe' /\ OldKept'
    BY <2>1, <1>t, <1>l DEF Last, Remove, Safe, OldKept
  <2>4. \A m \in ConfigNames : config'[m] = IF m = n THEN None ELSE config[m]
    BY <2>2, <1>t DEF ConfigTypeOK, Files
  <2>5. NoThirdState'
    BY <2>1, <2>2, <2>4, <1>t DEF Remove, NoThirdState
  <2>6. Loops'
    BY <2>1, <2>4, <1>t DEF Remove, Loops
  <2> QED
    BY <2>3, <2>5, <2>6
<1>3. CASE \E n \in ConfigNames : WriteTemp(n)
  BY <1>3, <1>t DEF Last, WriteTemp, Safe, Loops, OldKept, NoThirdState
<1>4. CASE \E n \in ConfigNames : Replace(n)
  <2>1. PICK n \in ConfigNames : Replace(n)
    BY <1>4
  <2>2. \A m \in ConfigNames : config'[m] = IF m = n THEN contents[n] ELSE config[m]
    BY <2>1, <1>t DEF Replace, ConfigTypeOK, Files
  <2>3. Safe' /\ OldKept'
    BY <2>1, <1>t, <1>l DEF Last, Replace, Safe, OldKept
  <2>4. NoThirdState' /\ Loops'
    BY <2>1, <2>2, <1>t DEF Replace, NoThirdState, Loops
  <2> QED
    BY <2>3, <2>4
<1>5. CASE \E k \in DOMAIN zips : Restore(k)
  BY <1>5, <1>t, <1>l, AppendType DEF Last, Restore, Safe, Loops, OldKept, NoThirdState
<1>6. CASE Export
  <2>1. Last' = Last /\ (Last # 1 => zips'[Last'] = zips[Last])
    BY <1>6, <1>t, <1>l, OpenType DEF Last, Export
  <2> QED
    BY <1>6, <2>1, <1>t DEF Last, Export, Safe, Loops, OldKept, NoThirdState
<1>7. CASE ExportEnds
  <2>1. Last' = Last /\ (Last # 1 => zips'[Last'] = zips[Last])
    <3>1. /\ 1 \in DOMAIN zips /\ Len(Close(1)) = Last
          /\ \A j \in DOMAIN zips : j # 1 => Close(1)[j] = zips[j]
      BY <1>t, CloseType, LastType
    <3> QED
      BY <1>7, <1>l, <3>1 DEF Last, ExportEnds
  <2> QED
    BY <1>7, <2>1, <1>t DEF Last, ExportEnds, Safe, Loops, OldKept, NoThirdState
<1>8. CASE SafetyEnds
  <2>1. zips'[Last'] = [readable |-> TRUE, files |-> config]
    BY <1>8, <1>t, <1>l, CloseType DEF Last, SafetyEnds
  <2>2. config = base
    BY <1>8, <1>t DEF Last, SafetyEnds, Safe
  <2>3. Safe' /\ OldKept' /\ NoThirdState'
    <3>1. /\ config' = config /\ base' = base /\ contents' = contents
          /\ step = "safety" /\ step' = "remove" /\ Last' = Last
      BY <1>8, <1>l, <1>t, CloseType DEF Last, SafetyEnds
    <3>2. zips'[Last'].readable /\ zips'[Last'].files = base'
      BY <2>1, <2>2, <3>1
    <3> QED
      BY <3>1, <3>2, <2>2, <1>t DEF Safe, OldKept, NoThirdState
  <2>4. Loops'
    BY <1>8, <1>t DEF Last, SafetyEnds, Loops, Present
  <2> QED
    BY <2>3, <2>4
<1>9. CASE Removed
  <2>1. Safe' /\ OldKept' /\ NoThirdState'
    BY <1>9, <1>t DEF Last, Removed, Safe, OldKept, NoThirdState
  <2>2. Loops'
    BY <1>9, <1>t DEF Removed, Loops, Present
  <2> QED
    BY <2>1, <2>2
<1>10. CASE RestoreEnds
  BY <1>10, <1>t DEF Last, RestoreEnds, Safe, Loops, OldKept, NoThirdState
<1>11. CASE Interrupted
  BY <1>11, <1>t DEF Last, Interrupted, Safe, Loops, OldKept, NoThirdState
<1>12. CASE ExportFails
  <2>1. /\ Last' = Last /\ step' = "idle" /\ UNCHANGED <<config, contents, base>>
        /\ step = "export" /\ Last # 1 => zips'[Last] = zips[Last]
    BY <1>12, <1>t, FailType DEF ExportFails
  <2>2. step = "safety" => config = base
    BY <1>t DEF Safe
  <2>3. CASE step = "safety"
    BY <2>1, <2>2, <2>3, <1>t DEF Safe, Loops, OldKept, NoThirdState
  <2>4. CASE step = "export"
    BY <2>1, <2>4, <1>t DEF Safe, Loops, OldKept, NoThirdState
  <2> QED
    BY <1>12, <2>3, <2>4 DEF ExportFails
<1>13. CASE UNCHANGED configVars
  BY <1>13, <1>t DEF Last, configVars, Safe, Loops, OldKept, NoThirdState
<1> QED
  BY <1>1, <1>2, <1>3, <1>4, <1>5, <1>6, <1>7, <1>8, <1>9, <1>10, <1>11, <1>12, <1>13
     DEF ConfigNext

(* Wherever backing up, saving and restoring fail or are killed, and if    *)
(* what is restored is only a part of a backup: what the user had is in    *)
(* place or whole in the safety zip, every file is the old one or the new  *)
(* one, and a restore that gets to its end matches the backup.             *)
THEOREM RestoreUndoable == ConfigSpec => []RestoreIsUndoable
<1>1. ConfigInv => RestoreIsUndoable
  BY DEF ConfigInv, ConfigTypeOK, Files, Loops, EndMatches, RestoreIsUndoable
<1> QED
  BY <1>1, ConfigInitInv, ConfigNextInv, PTL DEF ConfigSpec

-----------------------------------------------------------------------------
(* HelperTab, for any number of attempts to connect: the types, and that   *)
(* no connection is lost track of.                                         *)

(* One attempt at a time: while one is made the tab has no connection, the *)
(* button is disabled and no question is open.                             *)
OneAtATime ==
  attempt # NoConnection => connection = NoConnection /\ ~canReconnect /\ ~asking

(* An answer is about the attempt, and a failed attempt is closed already. *)
AnswerFits ==
  /\ attempt = NoConnection => answer = "none"
  /\ answer = "failed" => client[attempt] = "closed"

TabInv == TabTypeOK /\ OneAtATime /\ AnswerFits /\ ConnectionsAccounted

-----------------------------------------------------------------------------
(* Every variable keeps to its type.                                       *)
LEMMA TabInitType == TabInit => TabTypeOK
  BY DEF TabInit, TabTypeOK, Maybe

LEMMA TabNextType == TabTypeOK /\ [TabNext]_tabVars => TabTypeOK'
<1> SUFFICES ASSUME TabTypeOK, [TabNext]_tabVars PROVE TabTypeOK'
  OBVIOUS
<1> USE DEF TabTypeOK, Maybe, ClosedNow
<1>1. ASSUME ConnectToServer
      PROVE  /\ client' \in [Connections -> {"none", "handshake", "up", "closed"}]
             /\ attempt' \in Maybe /\ connection' \in Maybe
             /\ answer' \in {"none", "ok", "failed"} /\ canReconnect' \in BOOLEAN
  BY <1>1 DEF ConnectToServer, Unused
<1>2. CASE Reconnect
  BY <1>1, <1>2 DEF Reconnect
<1>3. CASE Connected
  BY <1>3 DEF Connected
<1>4. CASE ConnectFailed
  BY <1>4 DEF ConnectFailed
<1>5. CASE Retry
  BY <1>1, <1>5 DEF Retry
<1>6. CASE GiveUp
  BY <1>6 DEF GiveUp
<1>7. CASE CloseSession
  BY <1>7 DEF CloseSession
<1>8. CASE LoggedIn
  BY <1>8 DEF LoggedIn
<1>9. CASE LoginFails
  BY <1>9 DEF LoginFails
<1>10. CASE Ready
  BY <1>10 DEF Ready
<1>11. CASE NotReady
  BY <1>11 DEF NotReady
<1>12. CASE \E c \in Connections : CloseRuns(c)
  BY <1>12 DEF CloseRuns
<1>13. CASE UNCHANGED tabVars
  BY <1>13 DEF tabVars
<1> QED
  BY <1>2, <1>3, <1>4, <1>5, <1>6, <1>7, <1>8, <1>9, <1>10, <1>11, <1>12, <1>13 DEF TabNext

\* The type invariant of the tab's connections.
THEOREM TabTypeCorrect == TabSpec => []TabTypeOK
<1> QED
  BY TabInitType, TabNextType, PTL DEF TabSpec

-----------------------------------------------------------------------------
\* connect_to_server, called with no attempt under way, keeps all of it.
LEMMA ConnectKeeps ==
  ASSUME TabInv, attempt = NoConnection, ConnectToServer,
         asking' = FALSE, closing' = closing, closed' = closed
  PROVE  OneAtATime' /\ AnswerFits' /\ ConnectionsAccounted'
<1>1. PICK new \in Unused :
        /\ attempt' = new
        /\ client' = [c \in Connections |->
                        IF c = new THEN "handshake"
                        ELSE IF c = connection THEN "closed" ELSE client[c]]
  BY DEF ConnectToServer
<1>2. /\ connection' = NoConnection /\ canReconnect' = FALSE /\ answer' = "none"
      /\ new \in Connections
  BY DEF ConnectToServer, Unused
<1>3. OneAtATime' /\ AnswerFits'
  BY <1>1, <1>2 DEF OneAtATime, AnswerFits
<1>4. ASSUME NEW c \in Connections, client'[c] \in {"handshake", "up"}
      PROVE  c = attempt' \/ c \in closing'
  <2>1. CASE c = new
    BY <1>1, <2>1
  <2>2. CASE c # new
    <3>1. c # connection /\ client[c] \in {"handshake", "up"}
      BY <1>1, <1>4, <2>2
    <3> QED
      BY <3>1, ConnectionsAssumption DEF TabInv, ConnectionsAccounted
  <2> QED
    BY <2>1, <2>2
<1> QED
  BY <1>3, <1>4 DEF ConnectionsAccounted

\* The initial state satisfies the invariant.
LEMMA TabInitInv == TabInit => TabInv
<1> SUFFICES ASSUME TabInit PROVE TabInv
  OBVIOUS
<1>1. OneAtATime /\ AnswerFits
  BY DEF TabInit, OneAtATime, AnswerFits
<1>2. ConnectionsAccounted
  BY DEF TabInit, ConnectionsAccounted
<1> QED
  BY <1>1, <1>2, TabInitType DEF TabInv

\* Every step, stuttering included, keeps it.
LEMMA TabNextInv == TabInv /\ [TabNext]_tabVars => TabInv'
<1> SUFFICES ASSUME TabInv, [TabNext]_tabVars PROVE OneAtATime' /\ AnswerFits' /\ ConnectionsAccounted'
  BY TabNextType DEF TabInv
<1> USE DEF TabInv, TabTypeOK, Maybe, ClosedNow
<1>2. CASE Reconnect
  <2>1. attempt = NoConnection
    BY <1>2 DEF Reconnect, OneAtATime
  <2>2. asking' = FALSE
    BY <1>2 DEF Reconnect
  <2> QED
    BY <1>2, <2>1, <2>2, ConnectKeeps DEF Reconnect
<1>3. CASE Connected
  <2>1. attempt \in Connections /\ connection = NoConnection
    BY <1>3 DEF Connected, OneAtATime, AnswerFits
  <2>2. OneAtATime' /\ AnswerFits'
    BY <1>3 DEF Connected, OneAtATime, AnswerFits
  <2>3. ConnectionsAccounted'
    BY <1>3, <2>1 DEF Connected, ConnectionsAccounted
  <2> QED
    BY <2>2, <2>3
<1>4. CASE ConnectFailed
  <2>1. OneAtATime' /\ AnswerFits'
    BY <1>4 DEF ConnectFailed, OneAtATime, AnswerFits
  <2>2. ConnectionsAccounted'
    BY <1>4 DEF ConnectFailed, AnswerFits, ConnectionsAccounted
  <2> QED
    BY <2>1, <2>2
<1>5. CASE Retry
  <2>1. attempt = NoConnection
    BY <1>5 DEF Retry, OneAtATime
  <2> QED
    BY <1>5, <2>1, ConnectKeeps DEF Retry
<1>6. CASE GiveUp
  BY <1>6 DEF GiveUp, OneAtATime, AnswerFits, ConnectionsAccounted
<1>7. CASE CloseSession
  BY <1>7, ConnectionsAssumption
     DEF CloseSession, OneAtATime, AnswerFits, ConnectionsAccounted
<1>8. CASE LoggedIn
  BY <1>8 DEF LoggedIn, OneAtATime, AnswerFits, ConnectionsAccounted
<1>9. CASE LoginFails
  BY <1>9 DEF LoginFails, OneAtATime, AnswerFits, ConnectionsAccounted
<1>10. CASE Ready
  BY <1>10 DEF Ready, OneAtATime, AnswerFits, ConnectionsAccounted
<1>11. CASE NotReady
  BY <1>11 DEF NotReady, OneAtATime, AnswerFits, ConnectionsAccounted
<1>12. CASE \E c \in Connections : CloseRuns(c)
  BY <1>12 DEF CloseRuns, OneAtATime, AnswerFits, ConnectionsAccounted
<1>13. CASE UNCHANGED tabVars
  BY <1>13 DEF tabVars, OneAtATime, AnswerFits, ConnectionsAccounted
<1> QED
  BY <1>2, <1>3, <1>4, <1>5, <1>6, <1>7, <1>8, <1>9, <1>10, <1>11, <1>12, <1>13 DEF TabNext

(* Whatever the order of clicks, questions, answers and closing the tab,   *)
(* every SSH connection that is up is the tab's, is being made or is about *)
(* to be closed.                                                           *)
THEOREM NoConnectionLost == TabSpec => []ConnectionsAccounted
<1>1. TabInv => ConnectionsAccounted
  BY DEF TabInv
<1> QED
  BY <1>1, TabInitInv, TabNextInv, PTL DEF TabSpec

-----------------------------------------------------------------------------
(* SpiceInput, for any number of events: the types, and that the guest's   *)
(* pointer is not left behind.                                             *)

(* The flag is up only while a flush is queued, or about to be.            *)
FlagMeansFlush == scheduled => caller.pc = "add" \/ FlushQueued

(* A queued click waits behind a flush that will take the pointer to it,   *)
(* unless the pointer is there, or was dropped before the channel came up. *)
FlushGoesFirst ==
  \A i \in DOMAIN idle : idle[i].kind \in Clicks =>
    /\ idle[i].pos <= pendingPos
    /\ channel /\ openedAt < idle[i].pos =>
         \/ idle[i].pos <= guestPos
         \/ loop = "flush"
         \/ \E j \in 1..(i - 1) : idle[j] = Flush

NoChannelYet == ~channel => openedAt = 0

InputInv ==
  /\ InputTypeOK
  /\ FlagMeansFlush /\ FlushGoesFirst /\ NoChannelYet
  /\ NewestIsSent /\ ClickInPlace

-----------------------------------------------------------------------------
(* The queue of callbacks.                                                 *)

LEMMA AppendFacts ==
  ASSUME idle \in Seq(Callbacks), NEW e \in Callbacks
  PROVE  /\ Append(idle, e) \in Seq(Callbacks)
         /\ DOMAIN Append(idle, e) = 1..(Len(idle) + 1)
         /\ \A i \in 1..Len(idle) : Append(idle, e)[i] = idle[i]
         /\ Append(idle, e)[Len(idle) + 1] = e
         /\ DOMAIN idle = 1..Len(idle) /\ Len(idle) \in Nat
  OBVIOUS

LEMMA TailFacts ==
  ASSUME idle \in Seq(Callbacks), idle # <<>>
  PROVE  /\ Tail(idle) \in Seq(Callbacks)
         /\ DOMAIN Tail(idle) = 1..(Len(idle) - 1)
         /\ \A i \in 1..(Len(idle) - 1) : Tail(idle)[i] = idle[i + 1]
         /\ Head(idle) = idle[1] /\ Head(idle) \in Callbacks
         /\ DOMAIN idle = 1..Len(idle) /\ Len(idle) \in Nat \ {0}
  OBVIOUS

\* A callback is a flush or a click, and its kind tells which.
LEMMA CallbackKinds ==
  ASSUME NEW e \in Callbacks
  PROVE  /\ e.kind \in {"flush", "press", "release"}
         /\ e.kind = "flush" <=> e = Flush
         /\ e.kind \in Clicks => e.pos \in Positions
  BY DEF Callbacks, Flush, Clicks

\* Queueing a callback, and taking one that is no flush, loses no flush.
LEMMA FlushStays ==
  ASSUME InputTypeOK, FlushQueued,
         \/ \E e \in Callbacks : idle' = Append(idle, e)
         \/ idle # <<>> /\ Head(idle).kind \in Clicks /\ idle' = Tail(idle)
         \/ idle' = idle
  PROVE  FlushQueued'
<1> USE DEF InputTypeOK, FlushQueued
<1>1. PICK i \in DOMAIN idle : idle[i] = Flush
  OBVIOUS
<1>2. CASE \E e \in Callbacks : idle' = Append(idle, e)
  <2>1. PICK e \in Callbacks : idle' = Append(idle, e)
    BY <1>2
  <2>2. i \in DOMAIN idle' /\ idle'[i] = Flush
    BY <1>1, <2>1, AppendFacts
  <2> QED
    BY <2>2
<1>3. CASE idle # <<>> /\ Head(idle).kind \in Clicks /\ idle' = Tail(idle)
  <2>1. i # 1
    BY <1>1, <1>3, TailFacts, CallbackKinds DEF Clicks
  <2>a. idle \in Seq(Callbacks) /\ Len(idle) \in Nat /\ i \in 1..Len(idle)
    BY <1>1
  <2>2. i - 1 \in 1..(Len(idle) - 1) /\ i = (i - 1) + 1
    BY <2>1, <2>a
  <2>3. i - 1 \in DOMAIN idle' /\ idle'[i - 1] = Flush
    BY <1>1, <1>3, <2>2, TailFacts
  <2> QED
    BY <2>3
<1>4. CASE idle' = idle
  BY <1>4
<1> QED
  BY <1>2, <1>3, <1>4

-----------------------------------------------------------------------------
LEMMA InputInitType == InputInit => InputTypeOK
<1> SUFFICES ASSUME InputInit PROVE InputTypeOK
  OBVIOUS
<1>1. 0 \in Positions
  BY MaxMovesAssumption DEF Positions
<1>2. scheduled \in BOOLEAN /\ channel \in BOOLEAN /\ held \in BOOLEAN
  BY Zenon DEF InputInit
<1>3. idle \in Seq(Callbacks)
  BY DEF InputInit
<1> QED
  BY <1>1, <1>2, <1>3 DEF InputInit, InputTypeOK, CallerPCs, Kinds

LEMMA InputNextType == InputTypeOK /\ [InputNext]_inputVars => InputTypeOK'
<1> SUFFICES ASSUME InputTypeOK, [InputNext]_inputVars PROVE InputTypeOK'
  OBVIOUS
<1> USE DEF InputTypeOK, Positions, Kinds, CallerPCs, Clicks
<1>1. CASE \E kind \in Kinds : MouseEvent(kind)
  BY <1>1, MaxMovesAssumption DEF MouseEvent
<1>2. CASE TestScheduled
  BY <1>2 DEF TestScheduled, AfterMove
<1>3. CASE SetScheduled
  <2>1. scheduled' \in BOOLEAN
    BY <1>3, Zenon DEF SetScheduled
  <2>2. /\ caller' \in [pc : CallerPCs, kind : Kinds] /\ caller'.pc = "add"
        /\ UNCHANGED <<pendingPos, idle, loop, channel, held, guestPos, click, openedAt>>
    BY <1>3 DEF SetScheduled
  <2> QED
    BY <2>1, <2>2
<1>4. CASE AddFlush
  <2>1. Flush \in Callbacks
    BY DEF Callbacks
  <2> QED
    BY <1>4, <2>1, AppendFacts DEF AddFlush, AfterMove
<1>5. CASE SendMouseButton
  <2>1. caller.kind \in Clicks => [kind |-> caller.kind, pos |-> pendingPos] \in Callbacks
    BY DEF Callbacks
  <2> QED
    BY <1>5, <2>1, AppendFacts DEF SendMouseButton
<1>6. CASE ChannelUp
  <2>1. channel' \in BOOLEAN
    BY <1>6, Zenon DEF ChannelUp
  <2>2. /\ openedAt' = pendingPos
        /\ UNCHANGED <<caller, pendingPos, scheduled, idle, loop, held, guestPos, click>>
    BY <1>6 DEF ChannelUp
  <2> QED
    BY <2>1, <2>2
<1>7. CASE FlushClears
  <2>1. scheduled' \in BOOLEAN
    BY <1>7, Zenon DEF FlushClears
  <2>2. idle' \in Seq(Callbacks) /\ loop' = "flush"
    BY <1>7, TailFacts DEF FlushClears, NextIs
  <2>3. UNCHANGED <<caller, pendingPos, channel, held, guestPos, click, openedAt>>
    BY <1>7 DEF FlushClears
  <2> QED
    BY <2>1, <2>2, <2>3
<1>8. CASE FlushSends
  BY <1>8 DEF FlushSends
<1>9. CASE ButtonCallback
  <2>1. held' \in BOOLEAN
    BY <1>9, Zenon DEF ButtonCallback
  <2>2. idle' \in Seq(Callbacks)
    BY <1>9, TailFacts DEF ButtonCallback, NextIs
  <2>3. click' \in [want : Positions, at : Positions]
    BY <1>9, TailFacts, CallbackKinds DEF ButtonCallback, NextIs
  <2>4. UNCHANGED <<caller, pendingPos, scheduled, loop, channel, guestPos, openedAt>>
    BY <1>9 DEF ButtonCallback
  <2> QED
    BY <2>1, <2>2, <2>3, <2>4
<1>10. CASE UNCHANGED inputVars
  BY <1>10 DEF inputVars
<1> QED
  BY <1>1, <1>2, <1>3, <1>4, <1>5, <1>6, <1>7, <1>8, <1>9, <1>10
     DEF InputNext, CallerStep, LoopStep

\* The type invariant of both threads.
THEOREM InputTypeCorrect == InputSpec => []InputTypeOK
<1> QED
  BY InputInitType, InputNextType, PTL DEF InputSpec

-----------------------------------------------------------------------------
LEMMA InputInitInv == InputInit => InputInv
<1> SUFFICES ASSUME InputInit PROVE InputInv
  OBVIOUS
<1>1. /\ ~scheduled /\ ~channel /\ idle = <<>> /\ openedAt = 0
      /\ click = [want |-> 0, at |-> 0]
  BY DEF InputInit
<1> QED
  BY <1>1, InputInitType
     DEF InputInv, FlagMeansFlush, FlushGoesFirst, NoChannelYet, NewestIsSent, ClickInPlace

\* The flag is up only while a flush is on its way.
LEMMA FlagKept == InputInv /\ [InputNext]_inputVars => FlagMeansFlush'
<1> SUFFICES ASSUME InputInv, [InputNext]_inputVars PROVE FlagMeansFlush'
  OBVIOUS
<1>t. InputTypeOK /\ FlagMeansFlush
  BY DEF InputInv
<1>q. FlushQueued /\ idle' = idle => FlushQueued'
  BY DEF FlushQueued
<1> USE DEF FlagMeansFlush
<1>1. CASE \E kind \in Kinds : MouseEvent(kind)
  BY <1>1, <1>t, <1>q DEF MouseEvent
<1>2. CASE TestScheduled
  BY <1>2, <1>t, <1>q DEF TestScheduled
<1>3. CASE SetScheduled
  BY <1>3, <1>t DEF SetScheduled, InputTypeOK
<1>4. CASE AddFlush
  <2>1. Flush \in Callbacks
    BY DEF Callbacks
  <2>2. Len(idle) + 1 \in DOMAIN idle' /\ idle'[Len(idle) + 1] = Flush
    BY <1>4, <1>t, <2>1, AppendFacts DEF AddFlush, InputTypeOK
  <2> QED
    BY <2>2 DEF FlushQueued
<1>5. CASE SendMouseButton
  <2>1. \E e \in Callbacks : idle' = Append(idle, e)
    BY <1>5, <1>t DEF SendMouseButton, InputTypeOK, Callbacks
  <2>2. FlushQueued => FlushQueued'
    BY <1>t, <2>1, FlushStays
  <2> QED
    BY <1>5, <1>t, <2>2 DEF SendMouseButton
<1>6. CASE ChannelUp
  BY <1>6, <1>t, <1>q DEF ChannelUp
<1>7. CASE FlushClears
  BY <1>7 DEF FlushClears
<1>8. CASE FlushSends
  BY <1>8, <1>t, <1>q DEF FlushSends
<1>9. CASE ButtonCallback
  <2>1. FlushQueued => FlushQueued'
    BY <1>9, <1>t, FlushStays DEF ButtonCallback, NextIs
  <2> QED
    BY <1>9, <1>t, <2>1 DEF ButtonCallback
<1>10. CASE UNCHANGED inputVars
  BY <1>10, <1>t, <1>q DEF inputVars
<1> QED
  BY <1>1, <1>2, <1>3, <1>4, <1>5, <1>6, <1>7, <1>8, <1>9, <1>10
     DEF InputNext, CallerStep, LoopStep

\* A position that is not sent yet has a flush on its way.
LEMMA NewestKept == InputInv /\ [InputNext]_inputVars => NewestIsSent'
<1> SUFFICES ASSUME InputInv, [InputNext]_inputVars PROVE NewestIsSent'
  OBVIOUS
<1>t. InputTypeOK /\ FlagMeansFlush /\ NewestIsSent
  BY DEF InputInv
<1>q. FlushQueued /\ idle' = idle => FlushQueued'
  BY DEF FlushQueued
<1> USE DEF NewestIsSent, OnItsWay
<1>1. CASE \E kind \in Kinds : MouseEvent(kind)
  BY <1>1, <1>t DEF MouseEvent
<1>2. CASE TestScheduled
  <2>1. scheduled => FlushQueued'
    BY <1>2, <1>t, <1>q DEF TestScheduled, FlagMeansFlush
  <2>2. ~scheduled => caller'.pc = "set"
    BY <1>2, <1>t DEF TestScheduled, InputTypeOK
  <2> QED
    BY <2>1, <2>2
<1>3. CASE SetScheduled
  BY <1>3, <1>t DEF SetScheduled, InputTypeOK
<1>4. CASE AddFlush
  <2>1. Flush \in Callbacks
    BY DEF Callbacks
  <2>2. Len(idle) + 1 \in DOMAIN idle' /\ idle'[Len(idle) + 1] = Flush
    BY <1>4, <1>t, <2>1, AppendFacts DEF AddFlush, InputTypeOK
  <2> QED
    BY <2>2 DEF FlushQueued
<1>5. CASE SendMouseButton
  <2>1. \E e \in Callbacks : idle' = Append(idle, e)
    BY <1>5, <1>t DEF SendMouseButton, InputTypeOK, Callbacks
  <2>2. FlushQueued => FlushQueued'
    BY <1>t, <2>1, FlushStays
  <2> QED
    BY <1>5, <1>t, <2>2 DEF SendMouseButton
<1>6. CASE ChannelUp
  BY <1>6, <1>t DEF ChannelUp, InputTypeOK, Positions
<1>7. CASE FlushClears
  BY <1>7 DEF FlushClears
<1>8. CASE FlushSends
  BY <1>8, <1>t DEF FlushSends, InputTypeOK, Positions
<1>9. CASE ButtonCallback
  <2>1. FlushQueued => FlushQueued'
    BY <1>9, <1>t, FlushStays DEF ButtonCallback, NextIs
  <2> QED
    BY <1>9, <1>t, <2>1 DEF ButtonCallback, NextIs
<1>10. CASE UNCHANGED inputVars
  BY <1>10, <1>t, <1>q DEF inputVars
<1> QED
  BY <1>1, <1>2, <1>3, <1>4, <1>5, <1>6, <1>7, <1>8, <1>9, <1>10
     DEF InputNext, CallerStep, LoopStep

-----------------------------------------------------------------------------
\* What is waited for, of a click at this place of the queue.
Served(i) ==
  \/ idle[i].pos <= guestPos
  \/ loop = "flush"
  \/ \E j \in 1..(i - 1) : idle[j] = Flush

\* A step that only moves the pointer forward, or the user's, keeps the order.
LEMMA OrderSame ==
  ASSUME InputInv, idle' = idle, pendingPos' \in {pendingPos, pendingPos + 1},
         channel' => \/ channel /\ openedAt' = openedAt
                     \/ openedAt' = pendingPos,
         \/ loop' = loop /\ guestPos' = guestPos
         \/ loop = "flush" /\ guestPos' = IF channel THEN pendingPos ELSE guestPos
  PROVE  FlushGoesFirst'
<1>t. InputTypeOK /\ FlushGoesFirst
  BY DEF InputInv
<1> SUFFICES ASSUME NEW i \in DOMAIN idle, idle[i].kind \in Clicks
             PROVE  /\ idle[i].pos <= pendingPos'
                    /\ channel' /\ openedAt' < idle[i].pos =>
                         \/ idle[i].pos <= guestPos'
                         \/ loop' = "flush"
                         \/ \E j \in 1..(i - 1) : idle[j] = Flush
  BY DEF FlushGoesFirst
<1>1. idle[i] \in Callbacks
  BY <1>t DEF InputTypeOK
<1>2. idle[i].pos \in Nat /\ pendingPos \in Nat /\ guestPos \in Nat /\ openedAt \in Nat
  BY <1>t, <1>1, CallbackKinds DEF InputTypeOK, Positions
<1>3. /\ idle[i].pos <= pendingPos
      /\ channel /\ openedAt < idle[i].pos => Served(i)
  BY <1>t DEF FlushGoesFirst, Served
<1> QED
  BY <1>2, <1>3 DEF Served

\* The order of clicks and flushes in the queue.
LEMMA OrderKept == InputInv /\ [InputNext]_inputVars => FlushGoesFirst'
<1> SUFFICES ASSUME InputInv, [InputNext]_inputVars PROVE FlushGoesFirst'
  OBVIOUS
<1>t. InputTypeOK /\ FlushGoesFirst /\ NewestIsSent /\ (InputInv => InputTypeOK)
  BY DEF InputInv
<1>1. CASE \E kind \in Kinds : MouseEvent(kind)
  BY <1>1, <1>t, OrderSame DEF MouseEvent
<1>2. CASE TestScheduled
  BY <1>2, <1>t, OrderSame DEF TestScheduled
<1>3. CASE SetScheduled
  BY <1>3, <1>t, OrderSame DEF SetScheduled
<1>4. CASE ChannelUp
  BY <1>4, <1>t, OrderSame DEF ChannelUp
<1>5. CASE FlushSends
  BY <1>5, <1>t, OrderSame DEF FlushSends
<1>6. CASE AddFlush \/ SendMouseButton
  <2>1. PICK e \in Callbacks :
          /\ idle' = Append(idle, e)
          /\ e.kind \in Clicks => caller.pc = "click" /\ e.pos = pendingPos
    <3>1. CASE AddFlush
      <4>1. Flush \in Callbacks /\ Flush.kind \notin Clicks
        BY DEF Callbacks, Flush, Clicks
      <4> QED
        BY <3>1, <4>1 DEF AddFlush
    <3>2. CASE SendMouseButton
      BY <3>2, <1>t DEF SendMouseButton, InputTypeOK, Callbacks
    <3> QED
      BY <1>6, <3>1, <3>2
  <2>2. UNCHANGED <<pendingPos, channel, openedAt, guestPos, loop>>
    BY <1>6 DEF AddFlush, SendMouseButton
  <2>3. DOMAIN idle' = 1..(Len(idle) + 1) /\ DOMAIN idle = 1..Len(idle) /\ Len(idle) \in Nat
    BY <1>t, <2>1, AppendFacts DEF InputTypeOK
  <2>4. \A i \in 1..Len(idle) : idle'[i] = idle[i]
    BY <1>t, <2>1, AppendFacts DEF InputTypeOK
  <2>5. idle'[Len(idle) + 1] = e
    BY <1>t, <2>1, AppendFacts DEF InputTypeOK
  <2> SUFFICES ASSUME NEW i \in DOMAIN idle', idle'[i].kind \in Clicks
               PROVE  /\ idle'[i].pos <= pendingPos
                      /\ channel /\ openedAt < idle'[i].pos =>
                           \/ idle'[i].pos <= guestPos
                           \/ loop = "flush"
                           \/ \E j \in 1..(i - 1) : idle'[j] = Flush
    BY <2>2 DEF FlushGoesFirst
  <2>6. CASE i \in 1..Len(idle)
    <3>1. idle'[i] = idle[i] /\ \A j \in 1..(i - 1) : idle'[j] = idle[j]
      BY <2>3, <2>4, <2>6
    <3> QED
      BY <1>t, <2>3, <2>6, <3>1 DEF FlushGoesFirst
  <2>7. CASE i = Len(idle) + 1
    <3>1. idle'[i].pos = pendingPos /\ caller.pc = "click"
      BY <2>1, <2>5, <2>7
    <3>2. pendingPos \in Nat /\ guestPos \in Nat
      BY <1>t DEF InputTypeOK, Positions
    <3>3. channel /\ openedAt < pendingPos /\ ~(pendingPos <= guestPos)
            => FlushQueued \/ loop = "flush"
      BY <1>t, <3>1, <3>2 DEF NewestIsSent, OnItsWay
    <3>4. FlushQueued => \E j \in 1..(i - 1) : idle'[j] = Flush
      BY <2>3, <2>4, <2>7 DEF FlushQueued
    <3> QED
      BY <3>1, <3>2, <3>3, <3>4
  <2> QED
    BY <2>3, <2>6, <2>7
<1>7. CASE FlushClears \/ ButtonCallback
  <2>1. /\ idle # <<>> /\ idle' = Tail(idle) /\ loop = "wait"
        /\ UNCHANGED <<pendingPos, channel, openedAt, guestPos>>
    BY <1>7 DEF FlushClears, ButtonCallback, NextIs
  <2>2. Head(idle) = Flush => loop' = "flush"
    BY <1>7 DEF FlushClears, ButtonCallback, NextIs, Flush, Clicks
  <2>3. /\ DOMAIN idle' = 1..(Len(idle) - 1) /\ DOMAIN idle = 1..Len(idle)
        /\ Len(idle) \in Nat \ {0} /\ Head(idle) = idle[1]
        /\ \A i \in 1..(Len(idle) - 1) : idle'[i] = idle[i + 1]
    BY <1>t, <2>1, TailFacts DEF InputTypeOK
  <2> SUFFICES ASSUME NEW i \in DOMAIN idle', idle'[i].kind \in Clicks
               PROVE  /\ idle'[i].pos <= pendingPos
                      /\ channel /\ openedAt < idle'[i].pos =>
                           \/ idle'[i].pos <= guestPos
                           \/ loop' = "flush"
                           \/ \E j \in 1..(i - 1) : idle'[j] = Flush
    BY <2>1 DEF FlushGoesFirst
  <2>4. i \in Nat /\ i + 1 \in DOMAIN idle /\ idle'[i] = idle[i + 1]
    BY <2>3
  <2>5. /\ idle[i + 1].pos <= pendingPos
        /\ channel /\ openedAt < idle[i + 1].pos =>
             \/ idle[i + 1].pos <= guestPos
             \/ \E j \in 1..i : idle[j] = Flush
    BY <1>t, <2>1, <2>4 DEF FlushGoesFirst
  <2>6. ASSUME NEW j \in 1..i, idle[j] = Flush
        PROVE  loop' = "flush" \/ \E k \in 1..(i - 1) : idle'[k] = Flush
    <3>1. CASE j = 1
      BY <2>2, <2>3, <2>6, <3>1
    <3>2. CASE j # 1
      <4>1. j - 1 \in 1..(i - 1) /\ j - 1 \in 1..(Len(idle) - 1) /\ (j - 1) + 1 = j
        BY <2>3, <2>4, <3>2
      <4>2. idle'[j - 1] = Flush
        BY <2>3, <2>6, <4>1
      <4> QED
        BY <4>1, <4>2
    <3> QED
      BY <3>1, <3>2
  <2> QED
    BY <2>4, <2>5, <2>6
<1>8. CASE UNCHANGED inputVars
  BY <1>8, <1>t, OrderSame DEF inputVars
<1> QED
  BY <1>1, <1>2, <1>3, <1>4, <1>5, <1>6, <1>7, <1>8 DEF InputNext, CallerStep, LoopStep

-----------------------------------------------------------------------------
LEMMA ClickKept == InputInv /\ [InputNext]_inputVars => NoChannelYet' /\ ClickInPlace'
<1> SUFFICES ASSUME InputInv, [InputNext]_inputVars PROVE NoChannelYet' /\ ClickInPlace'
  OBVIOUS
<1>t. InputTypeOK /\ FlushGoesFirst /\ NoChannelYet /\ ClickInPlace
  BY DEF InputInv
<1>1. CASE UNCHANGED <<channel, openedAt, click>>
  BY <1>1, <1>t DEF NoChannelYet, ClickInPlace
<1>2. CASE ChannelUp
  <2>1. channel' /\ openedAt = 0 /\ openedAt' = pendingPos /\ click' = click
    BY <1>2, <1>t DEF ChannelUp, NoChannelYet
  <2>2. pendingPos \in Nat /\ click.want \in Nat
    BY <1>t DEF InputTypeOK, Positions
  <2> QED
    BY <2>1, <2>2, <1>t DEF NoChannelYet, ClickInPlace
<1>3. CASE ButtonCallback /\ channel
  <2>1. /\ idle # <<>> /\ Head(idle).kind \in Clicks /\ loop = "wait"
        /\ click' = [want |-> Head(idle).pos, at |-> guestPos]
        /\ UNCHANGED <<channel, openedAt>>
    BY <1>3 DEF ButtonCallback, NextIs
  <2>2. 1 \in DOMAIN idle /\ Head(idle) = idle[1]
    BY <1>t, <2>1, TailFacts DEF InputTypeOK
  <2>3. openedAt < idle[1].pos => idle[1].pos <= guestPos
    BY <1>3, <1>t, <2>1, <2>2 DEF FlushGoesFirst
  <2> QED
    BY <1>t, <2>1, <2>2, <2>3 DEF NoChannelYet, ClickInPlace
<1>4. CASE ButtonCallback /\ ~channel
  BY <1>1, <1>4 DEF ButtonCallback
<1>5. CASE \E kind \in Kinds : MouseEvent(kind)
  BY <1>1, <1>5 DEF MouseEvent
<1>6. CASE CallerStep \/ FlushClears \/ FlushSends \/ UNCHANGED inputVars
  BY <1>1, <1>6 DEF CallerStep, TestScheduled, SetScheduled, AddFlush, SendMouseButton,
                    FlushClears, FlushSends, inputVars
<1> QED
  BY <1>2, <1>3, <1>4, <1>5, <1>6 DEF InputNext, LoopStep

(* However the user's events, the flag and the loop interleave, and        *)
(* however many events there are: the guest's pointer is behind the user's *)
(* only while a flush is on its way, and no click acts at an older place.  *)
THEOREM PointerKeptUp == InputSpec => []PointerNeverBehind
<1>1. InputInv /\ [InputNext]_inputVars => InputInv'
  BY InputNextType, FlagKept, NewestKept, OrderKept, ClickKept DEF InputInv
<1>2. InputInv => PointerNeverBehind
  BY DEF InputInv, PointerNeverBehind
<1> QED
  BY <1>1, <1>2, InputInitInv, PTL DEF InputSpec

-----------------------------------------------------------------------------
(* SpiceAgent, for any texts and any number of events: the types, and that *)
(* the guest's clipboard follows the host's.                               *)

(* The text that is called last is the newest.                             *)
NewestIsCalled ==
  \A i \in DOMAIN agentIdle : agentIdle[i].kind = "text" =>
    \/ agentIdle[i].text = hostText
    \/ \E j \in DOMAIN agentIdle : j > i /\ agentIdle[j].kind = "text"

(* When none is on its way, the session has it.                            *)
NewestIsHeld == greeted /\ ~TextQueued => clipText = hostText

(* A text waits for an agent without capabilities: exactly when there is   *)
(* one, or what AgentUpdate offers would be missing or out of date.        *)
TextWaits == agentState # "able" => (clipPending <=> clipText # NoText)

TextOffered == agentState = "able" /\ clipText # NoText => clipOwner # "nobody"

(* The client is told of no more copies than were made.                    *)
CopiesCounted == guestGrabs <= agentEvents

AgentInv ==
  /\ AgentTypeOK /\ CopiesCounted
  /\ NewestIsCalled /\ NewestIsHeld /\ TextWaits /\ TextOffered

-----------------------------------------------------------------------------
(* The queue of calls.                                                     *)

LEMMA CallAdded ==
  ASSUME agentIdle \in Seq(AgentCalls), NEW e \in AgentCalls
  PROVE  /\ Append(agentIdle, e) \in Seq(AgentCalls)
         /\ DOMAIN Append(agentIdle, e) = 1..(Len(agentIdle) + 1)
         /\ \A i \in 1..Len(agentIdle) : Append(agentIdle, e)[i] = agentIdle[i]
         /\ Append(agentIdle, e)[Len(agentIdle) + 1] = e
         /\ DOMAIN agentIdle = 1..Len(agentIdle) /\ Len(agentIdle) \in Nat
  OBVIOUS

LEMMA CallTaken ==
  ASSUME agentIdle \in Seq(AgentCalls), agentIdle # <<>>
  PROVE  /\ Tail(agentIdle) \in Seq(AgentCalls)
         /\ DOMAIN Tail(agentIdle) = 1..(Len(agentIdle) - 1)
         /\ \A i \in 1..(Len(agentIdle) - 1) : Tail(agentIdle)[i] = agentIdle[i + 1]
         /\ Head(agentIdle) = agentIdle[1] /\ Head(agentIdle) \in AgentCalls
         /\ DOMAIN agentIdle = 1..Len(agentIdle) /\ Len(agentIdle) \in Nat \ {0}
  OBVIOUS

\* A call is of a text or of a size, and its kind tells which.
LEMMA CallKinds ==
  /\ \A t \in MaybeText : TextCall(t) \in AgentCalls
                          /\ TextCall(t).kind = "text" /\ TextCall(t).text = t
  /\ \A s \in Sizes : SizeCall(s) \in AgentCalls /\ SizeCall(s).kind = "size"
  /\ \A e \in AgentCalls : /\ e.kind \in {"text", "size"}
                           /\ e.kind = "text" => e.text \in MaybeText
                           /\ e.kind = "size" => e.size \in Sizes
  BY DEF AgentCalls, TextCall, SizeCall

\* A queue of signals stays one.
LEMMA SignalAdded ==
  ASSUME NEW S, NEW q \in Seq(S), NEW e \in S
  PROVE  Append(q, e) \in Seq(S)
  OBVIOUS

LEMMA SignalTaken ==
  ASSUME NEW S, NEW q \in Seq(S), q # <<>>
  PROVE  Tail(q) \in Seq(S)
  OBVIOUS

\* A text that is queued holds the host's clipboard, and is the last one.
LEMMA TextAdded ==
  ASSUME AgentTypeOK, NEW t \in MaybeText, hostText' = t,
         agentIdle' = Append(agentIdle, TextCall(t))
  PROVE  TextQueued' /\ NewestIsCalled'
<1> DEFINE n == Len(agentIdle)
<1>1. /\ n \in Nat /\ DOMAIN agentIdle' = 1..(n + 1)
      /\ agentIdle'[n + 1].kind = "text" /\ agentIdle'[n + 1].text = hostText'
  BY CallAdded, CallKinds DEF AgentTypeOK
<1> HIDE DEF n
<1>2. n + 1 \in DOMAIN agentIdle' /\ \A i \in DOMAIN agentIdle' : i = n + 1 \/ n + 1 > i
  BY <1>1
<1> QED
  BY <1>1, <1>2 DEF TextQueued, NewestIsCalled

\* A size that is queued stands behind the texts.
LEMMA SizeAdded ==
  ASSUME AgentTypeOK, NewestIsCalled, NEW s \in Sizes, hostText' = hostText,
         agentIdle' = Append(agentIdle, SizeCall(s))
  PROVE  (TextQueued => TextQueued') /\ NewestIsCalled'
<1> DEFINE n == Len(agentIdle)
<1>1. /\ n \in Nat /\ DOMAIN agentIdle = 1..n /\ DOMAIN agentIdle' = 1..(n + 1)
      /\ agentIdle'[n + 1].kind = "size"
      /\ \A i \in 1..n : agentIdle'[i] = agentIdle[i]
  BY CallAdded, CallKinds DEF AgentTypeOK
<1> HIDE DEF n
<1>2. \A i \in DOMAIN agentIdle' : agentIdle'[i].kind = "text" => i \in DOMAIN agentIdle
  BY <1>1
<1>3. \A i \in DOMAIN agentIdle : i \in DOMAIN agentIdle' /\ agentIdle'[i] = agentIdle[i]
  BY <1>1
<1> HIDE DEF n
<1> QED
  BY <1>2, <1>3 DEF TextQueued, NewestIsCalled

\* The other calls move up by one.
LEMMA RestMovesUp ==
  ASSUME AgentTypeOK, NewestIsCalled, hostText' = hostText,
         agentIdle # <<>>, agentIdle' = Tail(agentIdle)
  PROVE  /\ NewestIsCalled'
         /\ ~TextQueued' /\ Head(agentIdle).kind = "text" => Head(agentIdle).text = hostText
         /\ Head(agentIdle).kind = "size" /\ TextQueued => TextQueued'
<1> DEFINE n == Len(agentIdle)
<1>1. /\ n \in Nat \ {0} /\ DOMAIN agentIdle = 1..n
      /\ DOMAIN agentIdle' = 1..(n - 1)
      /\ \A i \in 1..(n - 1) : agentIdle'[i] = agentIdle[i + 1]
      /\ Head(agentIdle) = agentIdle[1]
  BY CallTaken DEF AgentTypeOK
<1> HIDE DEF n
<1>2. \A i \in DOMAIN agentIdle' : i + 1 \in DOMAIN agentIdle /\ agentIdle'[i] = agentIdle[i + 1]
  BY <1>1
<1>3. \A j \in DOMAIN agentIdle :
        j # 1 => j - 1 \in DOMAIN agentIdle' /\ agentIdle'[j - 1] = agentIdle[j]
  BY <1>1
<1>4. NewestIsCalled'
  <2> SUFFICES ASSUME NEW i \in DOMAIN agentIdle', agentIdle'[i].kind = "text",
                      agentIdle'[i].text # hostText'
               PROVE  \E j \in DOMAIN agentIdle' : j > i /\ agentIdle'[j].kind = "text"
    BY DEF NewestIsCalled
  <2>1. PICK k \in DOMAIN agentIdle : k > i + 1 /\ agentIdle[k].kind = "text"
    BY <1>2 DEF NewestIsCalled
  <2>2. k - 1 > i /\ k # 1 /\ i \in Nat \ {0}
    BY <1>1, <2>1
  <2> QED
    BY <1>3, <2>1, <2>2
<1>5. ~TextQueued' /\ Head(agentIdle).kind = "text" => Head(agentIdle).text = hostText
  <2> SUFFICES ASSUME Head(agentIdle).kind = "text", Head(agentIdle).text # hostText
               PROVE  TextQueued'
    OBVIOUS
  <2>1. 1 \in DOMAIN agentIdle
    BY <1>1
  <2>2. PICK k \in DOMAIN agentIdle : k > 1 /\ agentIdle[k].kind = "text"
    BY <1>1, <2>1 DEF NewestIsCalled
  <2>3. k # 1
    BY <1>1, <2>2
  <2> QED
    BY <1>3, <2>2, <2>3 DEF TextQueued
<1>6. Head(agentIdle).kind = "size" /\ TextQueued => TextQueued'
  BY <1>1, <1>3 DEF TextQueued
<1> QED
  BY <1>4, <1>5, <1>6

-----------------------------------------------------------------------------
LEMMA AgentInitInv == AgentInit => AgentInv
<1> SUFFICES ASSUME AgentInit PROVE AgentInv
  OBVIOUS
<1>1. agentIdle \in Seq(AgentCalls) /\ agentSignals \in Seq({"connected", "agent_connected"})
  BY DEF AgentInit
<1>2. settling \in BOOLEAN /\ mainOpened \in BOOLEAN /\ greeted \in BOOLEAN
      /\ clipPending \in BOOLEAN /\ grabbed \in BOOLEAN
  BY Zenon DEF AgentInit
<1>3. AgentTypeOK
  BY <1>1, <1>2, AgentAssumption DEF AgentInit, AgentTypeOK, MaybeText
<1>4. NewestIsCalled
  BY DEF AgentInit, NewestIsCalled
<1>5. NewestIsHeld /\ TextWaits /\ TextOffered /\ CopiesCounted
  BY DEF AgentInit, NewestIsHeld, TextWaits, TextOffered, CopiesCounted
<1> QED
  BY <1>3, <1>4, <1>5 DEF AgentInv

LEMMA AgentNextType == AgentTypeOK /\ CopiesCounted /\ [AgentNext]_agentVars => AgentTypeOK'
<1> SUFFICES ASSUME AgentTypeOK, CopiesCounted, [AgentNext]_agentVars PROVE AgentTypeOK'
  OBVIOUS
<1> USE DEF AgentTypeOK
<1>1. CASE \E t \in MaybeText : HostCopies(t)
  BY <1>1, CallAdded, CallKinds, AgentAssumption DEF HostCopies, AgentCount, clipVars
<1>2. CASE \E s \in Sizes : Resize(s)
  BY <1>2, AgentAssumption DEF Resize, AgentCount, clipVars
<1>3. CASE ResizeSettled
  BY <1>3, CallAdded, CallKinds DEF ResizeSettled, clipVars
<1>4. CASE OnConnected
  BY <1>4, CallAdded, CallKinds, SignalTaken DEF OnConnected, clipVars
<1>5. CASE OnAgentConnected
  BY <1>5, CallAdded, CallKinds, SignalTaken DEF OnAgentConnected, clipVars, agentWidgetVars
<1>6. CASE MainOpened
  BY <1>6, SignalAdded DEF MainOpened, clipVars, agentWidgetVars
<1>7. CASE ClipboardCall
  <2>1. clipPending' \in BOOLEAN /\ grabbed' \in BOOLEAN
    BY <1>7, Zenon DEF ClipboardCall, AnnounceText
  <2>2. agentIdle' \in Seq(AgentCalls) /\ clipText' \in MaybeText
    BY <1>7, CallTaken, CallKinds DEF ClipboardCall, AnnounceText
  <2>3. clipOwner' \in {"nobody", "client", "guest"}
    BY <1>7 DEF ClipboardCall, AnnounceText
  <2> QED
    BY <1>7, <2>1, <2>2, <2>3 DEF ClipboardCall, agentWidgetVars
<1>8. CASE ResizeCall
  BY <1>8, CallTaken, CallKinds DEF ResizeCall, clipVars, agentWidgetVars
<1>9. CASE AgentConnects
  BY <1>9, SignalAdded, AgentAssumption DEF AgentConnects, AgentCount, clipVars, agentWidgetVars
<1>10. CASE AgentUpdate
  BY <1>10 DEF AgentUpdate, clipVars, agentWidgetVars
<1>11. CASE AgentLeaves
  <2>1. clipPending' \in BOOLEAN
    BY <1>11, Zenon DEF AgentLeaves
  <2> QED
    BY <1>11, <2>1 DEF AgentLeaves, agentWidgetVars
<1>12. CASE GuestCopies
  BY <1>12, AgentAssumption DEF CopiesCounted, GuestCopies, AgentCount, agentWidgetVars
<1>13. CASE GuestGrab
  <2>1. guestGrabs' \in 0..MaxAgentEvents
    BY <1>13, AgentAssumption DEF GuestGrab
  <2>2. grabbed' = FALSE /\ agentEvents' = agentEvents
    BY <1>13 DEF GuestGrab
  <2> QED
    BY <1>13, <2>1, <2>2 DEF GuestGrab, agentWidgetVars
<1>14. CASE UNCHANGED agentVars
  BY <1>14 DEF agentVars
<1> QED
  BY <1>1, <1>2, <1>3, <1>4, <1>5, <1>6, <1>7, <1>8, <1>9, <1>10, <1>11, <1>12,
     <1>13, <1>14 DEF AgentNext

LEMMA CopiesStayCounted == AgentInv /\ [AgentNext]_agentVars => CopiesCounted'
<1> SUFFICES ASSUME AgentTypeOK, CopiesCounted, [AgentNext]_agentVars PROVE CopiesCounted'
  BY DEF AgentInv
<1> USE DEF AgentTypeOK, CopiesCounted
<1>1. CASE GuestCopies
  BY <1>1 DEF GuestCopies, AgentCount
<1>2. CASE GuestGrab
  BY <1>2 DEF GuestGrab
<1>3. guestGrabs' = guestGrabs /\ agentEvents' \in {agentEvents, agentEvents + 1} => CopiesCounted'
  OBVIOUS
<1>4. CASE \/ \E t \in MaybeText : HostCopies(t)
           \/ \E s \in Sizes : Resize(s)
           \/ AgentConnects
  BY <1>3, <1>4 DEF HostCopies, Resize, AgentConnects, AgentCount
<1>5. CASE ResizeSettled \/ OnConnected \/ OnAgentConnected \/ MainOpened
  BY <1>3, <1>5 DEF ResizeSettled, OnConnected, OnAgentConnected, MainOpened
<1>6. CASE ClipboardCall \/ ResizeCall \/ AgentUpdate \/ AgentLeaves \/ UNCHANGED agentVars
  BY <1>3, <1>6 DEF ClipboardCall, ResizeCall, AgentUpdate, AgentLeaves, agentVars
<1> QED
  BY <1>1, <1>2, <1>4, <1>5, <1>6 DEF AgentNext

\* Calls come in order, and the newest text is the last of them.
LEMMA NewestStays == AgentInv /\ [AgentNext]_agentVars => NewestIsCalled' /\ NewestIsHeld'
<1> SUFFICES ASSUME AgentInv, [AgentNext]_agentVars PROVE NewestIsCalled' /\ NewestIsHeld'
  OBVIOUS
<1> USE DEF AgentInv
<1>0. /\ widgetSize \in Sizes /\ hostText \in MaybeText
      /\ agentIdle # <<>> => Head(agentIdle) \in AgentCalls
  BY CallTaken DEF AgentTypeOK
<1>1. CASE \E t \in MaybeText : HostCopies(t)
  BY <1>1, TextAdded DEF HostCopies, NewestIsHeld
<1>2. CASE OnConnected
  BY <1>0, <1>2, TextAdded DEF OnConnected, NewestIsHeld
<1>3. CASE ResizeSettled \/ OnAgentConnected
  <2>1. /\ agentIdle' = Append(agentIdle, SizeCall(widgetSize))
        /\ hostText' = hostText /\ clipText' = clipText
    BY <1>3 DEF ResizeSettled, OnAgentConnected, clipVars, agentWidgetVars
  <2>2. greeted' = greeted
    BY <1>3, Zenon DEF ResizeSettled, OnAgentConnected, agentWidgetVars
  <2> QED
    BY <1>0, <2>1, <2>2, SizeAdded DEF NewestIsHeld
<1>4. CASE ClipboardCall
  <2>1. /\ agentIdle # <<>> /\ Head(agentIdle).kind = "text"
        /\ agentIdle' = Tail(agentIdle)
        /\ hostText' = hostText /\ clipText' = Head(agentIdle).text
    BY <1>4 DEF ClipboardCall, AnnounceText, agentWidgetVars
  <2> QED
    BY <2>1, RestMovesUp DEF NewestIsHeld
<1>5. CASE ResizeCall
  <2>1. /\ agentIdle # <<>> /\ Head(agentIdle).kind = "size"
        /\ agentIdle' = Tail(agentIdle)
        /\ hostText' = hostText /\ clipText' = clipText
    BY <1>5 DEF ResizeCall, agentWidgetVars, clipVars
  <2>2. greeted' = greeted
    BY <1>5, Zenon DEF ResizeCall, agentWidgetVars
  <2> QED
    BY <2>1, <2>2, RestMovesUp DEF NewestIsHeld
<1>6. CASE UNCHANGED <<agentIdle, hostText, clipText, greeted>>
  BY <1>6 DEF NewestIsCalled, NewestIsHeld, TextQueued
<1>7. CASE (\E s \in Sizes : Resize(s)) \/ MainOpened \/ AgentConnects
  BY <1>6, <1>7 DEF Resize, MainOpened, AgentConnects, agentWidgetVars, clipVars
<1>8. CASE AgentUpdate \/ AgentLeaves
  BY <1>6, <1>8 DEF AgentUpdate, AgentLeaves, agentWidgetVars, clipVars
<1>9. CASE GuestCopies \/ GuestGrab \/ UNCHANGED agentVars
  BY <1>6, <1>9 DEF GuestCopies, GuestGrab, agentWidgetVars, agentVars
<1> QED
  BY <1>1, <1>2, <1>3, <1>4, <1>5, <1>7, <1>8, <1>9 DEF AgentNext

\* A text waits for the agent's capabilities, and is offered with them.
LEMMA OfferStays == AgentInv /\ [AgentNext]_agentVars => TextWaits' /\ TextOffered'
<1> SUFFICES ASSUME AgentInv, [AgentNext]_agentVars PROVE TextWaits' /\ TextOffered'
  OBVIOUS
<1> USE DEF AgentInv, TextWaits, TextOffered
<1>1. CASE ClipboardCall
  BY <1>1, Zenon DEF ClipboardCall, AnnounceText
<1>2. CASE AgentUpdate
  BY <1>2, Zenon DEF AgentUpdate, clipVars
<1>3. CASE AgentLeaves
  BY <1>3, Zenon DEF AgentLeaves
<1>4. CASE AgentConnects
  BY <1>4, Zenon DEF AgentConnects, clipVars
<1>5. CASE GuestCopies
  BY <1>5, Zenon DEF GuestCopies
<1>6. CASE UNCHANGED <<agentState, clipText, clipPending, clipOwner>>
  BY <1>6
<1>7. CASE (\E t \in MaybeText : HostCopies(t)) \/ (\E s \in Sizes : Resize(s)) \/ ResizeSettled
  BY <1>6, <1>7 DEF HostCopies, Resize, ResizeSettled, clipVars
<1>8. CASE OnConnected \/ OnAgentConnected \/ MainOpened
  BY <1>6, <1>8 DEF OnConnected, OnAgentConnected, MainOpened, clipVars
<1>9. CASE ResizeCall \/ GuestGrab \/ UNCHANGED agentVars
  BY <1>6, <1>9 DEF ResizeCall, GuestGrab, clipVars, agentVars
<1> QED
  BY <1>1, <1>2, <1>3, <1>4, <1>5, <1>7, <1>8, <1>9 DEF AgentNext

LEMMA AgentInvKept == AgentInv /\ [AgentNext]_agentVars => AgentInv'
  BY AgentNextType, CopiesStayCounted, NewestStays, OfferStays DEF AgentInv

\* The type invariant of the widget, the session and the guest.
THEOREM AgentTypeCorrect == AgentSpec => []AgentTypeOK
<1>1. AgentInv => AgentTypeOK
  BY DEF AgentInv
<1> QED
  BY <1>1, AgentInitInv, AgentInvKept, PTL DEF AgentSpec

(* For any texts and any number of copies, resizes and agents that come    *)
(* and go: a paste in the guest is given what the host's clipboard holds,  *)
(* and an agent with capabilities has been offered it.                     *)
THEOREM ClipboardKeptUp == AgentSpec => []ClipboardFollowsHost
<1>1. AgentInv => ClipboardFollowsHost
  BY DEF AgentInv, NewestIsHeld, TextOffered, ClipboardFollowsHost, Pasted
<1> QED
  BY <1>1, AgentInitInv, AgentInvKept, PTL DEF AgentSpec

-----------------------------------------------------------------------------
(* ConnectionTree, for any categories, hosts and bounds: what the tree is  *)
(* waiting for is what is shown to be, and answers come in order.          *)

(* Hosts are always in the tree, and whatever is in it has been made.      *)
Made == Hosts \subseteq present /\ \A i \in present : build[i] # 0

(* Nothing was asked for an item not yet made, nor read before its time.   *)
Requested == \A r \in requests : r.build <= build[r.item] /\ r.age <= age

(* A category is marked exactly while a request is out, and there is never *)
(* more than one, of a host only when it is crossed.                       *)
OneOut ==
  /\ \A c \in Categories : loading[c] <=> For(c) # {}
  /\ \A i \in Items \ crossed : \A r, s \in For(i) : r = s

(* What is shown is not newer than the data, nor than what was read for it *)
(* since it was asked for.                                                 *)
Newer ==
  /\ \A i \in Items : treeShown[i] <= age
  /\ \A i \in Items \ crossed : \A r \in For(i) : r.age # 0 => treeShown[i] <= r.age

TreeInv == TreeTypeOK /\ Made /\ Requested /\ OneOut /\ Newer

-----------------------------------------------------------------------------
\* The bounds are numbers, and what is out is for an item.
LEMMA TreeFacts ==
  ASSUME TreeTypeOK
  PROVE  /\ MaxBuilds \in Nat \ {0} /\ MaxAge \in Nat \ {0} /\ MaxRequests \in Nat \ {0}
         /\ \A c \in Categories : c \in Items /\ c \notin Hosts
         /\ \A h \in Hosts : h \in Items /\ h \notin Categories
         /\ \A i \in Items : build[i] \in Nat /\ treeShown[i] \in Nat
         /\ \A r \in requests : r.item \in Items /\ r.build \in Nat /\ r.age \in Nat
         /\ age \in Nat \ {0}
BY TreeAssumption DEF TreeTypeOK, Request, Items

\* A new request is one, and differs from those that are out.
LEMMA NewRequest ==
  ASSUME TreeTypeOK, NEW i \in Items, NEW number \in 1..MaxBuilds, NEW id \in Free
  PROVE  /\ New(i, number, id) \in Request
         /\ New(i, number, id).item = i /\ New(i, number, id).build = number
         /\ New(i, number, id).age = 0
BY TreeAssumption DEF New, Free, Request

LEMMA TreeInitInv == TreeInit => TreeInv
<1> SUFFICES ASSUME TreeInit PROVE TreeInv
  OBVIOUS
<1>1. TreeTypeOK
  BY TreeAssumption DEF TreeInit, TreeTypeOK, Items
<1>2. \A i \in Items : For(i) = {}
  BY DEF TreeInit, For
<1>3. Made
  BY DEF TreeInit, Made, Items
<1>4. OneOut
  BY <1>2 DEF TreeInit, OneOut, Items
<1>5. \A i \in Items : treeShown[i] <= age
  BY DEF TreeInit
<1> QED
  BY <1>1, <1>2, <1>3, <1>4, <1>5 DEF TreeInit, TreeInv, Requested, Newer

\* Whatever happens, the variables keep to their types.
LEMMA TreeNextType == TreeTypeOK /\ Made /\ [TreeNext]_treeVars => TreeTypeOK'
<1> SUFFICES ASSUME TreeTypeOK, Made, [TreeNext]_treeVars PROVE TreeTypeOK'
  OBVIOUS
<1>f. /\ MaxBuilds \in Nat \ {0} /\ MaxAge \in Nat \ {0} /\ MaxRequests \in Nat \ {0}
      /\ \A c \in Categories : c \in Items /\ c \notin Hosts
      /\ \A h \in Hosts : h \in Items /\ h \notin Categories
      /\ \A i \in Items : build[i] \in Nat /\ treeShown[i] \in Nat
      /\ age \in Nat \ {0}
  BY TreeFacts
<1>1. CASE ApplyProjectSelection
  <2>1. PICK ids \in [Categories -> Free] :
          requests' = requests \union {New(c, build[c] + 1, ids[c]) : c \in Categories}
    BY <1>1 DEF ApplyProjectSelection
  <2>2. \A i \in Items : build[i] + 1 \in 1..MaxBuilds
    BY <1>1, <1>f DEF ApplyProjectSelection, TreeTypeOK
  <2>3. \A c \in Categories : New(c, build[c] + 1, ids[c]) \in Request
    BY <2>2, <1>f, NewRequest
  <2>4. requests' \subseteq Request
    BY <2>1, <2>3 DEF TreeTypeOK
  <2> QED
    BY <1>1, <1>f, <2>2, <2>4 DEF ApplyProjectSelection, TreeTypeOK
<1>2. ASSUME NEW categories \in SUBSET Categories, BuildHosts(categories)
      PROVE TreeTypeOK'
  <2>1. \A h \in Hosts : build[h] + 1 \in 0..MaxBuilds
    BY <1>2, <1>f DEF BuildHosts, TreeTypeOK
  <2>2. build' \in [Items -> 0..MaxBuilds]
    BY <1>2, <2>1 DEF BuildHosts, TreeTypeOK
  <2>3. treeShown' \in [Items -> 0..MaxAge]
    BY <1>2, <1>f DEF BuildHosts, TreeTypeOK
  <2>4. loaded' \in [Items -> BOOLEAN] /\ loading' \in [Categories -> BOOLEAN]
    BY <1>2 DEF BuildHosts, TreeTypeOK
  <2> QED
    BY <1>2, <2>2, <2>3, <2>4 DEF BuildHosts, TreeTypeOK, Items
<1>3. ASSUME NEW c \in Categories, LoadCategory(c)
      PROVE TreeTypeOK'
  <2>1. PICK id \in Free : requests' = requests \union {New(c, build[c], id)}
    BY <1>3 DEF LoadCategory
  <2>2. build[c] \in 1..MaxBuilds
    BY <1>3, <1>f DEF LoadCategory, Made, TreeTypeOK
  <2>3. New(c, build[c], id) \in Request
    BY <2>2, <1>f, NewRequest
  <2> QED
    BY <1>3, <2>1, <2>3, <1>f DEF LoadCategory, TreeTypeOK
<1>4. ASSUME NEW h \in Hosts, LoadQemuVms(h)
      PROVE requests' \subseteq Request /\ crossed' \subseteq Hosts
  <2>1. PICK id \in Free : requests' = requests \union {New(h, build[h], id)}
    BY <1>4 DEF LoadQemuVms
  <2>2. build[h] \in 1..MaxBuilds
    BY <1>f DEF Made, TreeTypeOK
  <2>3. New(h, build[h], id) \in Request
    BY <2>2, <1>f, NewRequest
  <2> QED
    BY <1>4, <2>1, <2>3 DEF LoadQemuVms, TreeTypeOK
<1>5. CASE ItemExpanded \/ QemuPowerActionDone
  <2>1. requests' \subseteq Request /\ crossed' \subseteq Hosts
    BY <1>4, <1>5 DEF ItemExpanded, QemuPowerActionDone
  <2>2. UNCHANGED <<present, build, loading, treeShown, age>>
    BY <1>5 DEF ItemExpanded, QemuPowerActionDone, LoadQemuVms
  <2>3. loaded' \in [Items -> BOOLEAN]
    BY <1>5, <1>f DEF ItemExpanded, QemuPowerActionDone, TreeTypeOK
  <2> QED
    BY <2>1, <2>2, <2>3 DEF TreeTypeOK
<1>6. CASE DataChange
  BY <1>6, <1>f DEF DataChange, TreeTypeOK
<1>7. CASE Reads
  <2>1. PICK r \in requests : requests' = (requests \ {r}) \union {[r EXCEPT !.age = age]}
    BY <1>7 DEF Reads
  <2>2. [r EXCEPT !.age = age] \in Request
    BY <1>f DEF TreeTypeOK, Request
  <2> QED
    BY <1>7, <2>1, <2>2 DEF Reads, TreeTypeOK
<1>8. CASE Answered
  <2>1. PICK r \in requests :
          /\ requests' = requests \ {r}
          /\ crossed' = {h \in crossed : For(h) # {r}}
          /\ IF r \in For(r.item)
               THEN /\ treeShown' = [treeShown EXCEPT ![r.item] = r.age]
                    /\ loading' = [c \in Categories |-> loading[c] /\ c # r.item]
               ELSE UNCHANGED <<treeShown, loading>>
    BY <1>8 DEF Answered
  <2>2. r.age \in 0..MaxAge
    BY DEF TreeTypeOK, Request
  <2>3. treeShown' \in [Items -> 0..MaxAge] /\ loading' \in [Categories -> BOOLEAN]
    BY <2>1, <2>2 DEF TreeTypeOK
  <2> QED
    BY <1>8, <2>1, <2>3 DEF Answered, TreeTypeOK
<1>9. CASE UNCHANGED treeVars
  BY <1>9 DEF treeVars, TreeTypeOK
<1> QED
  BY <1>1, <1>2, <1>3, <1>5, <1>6, <1>7, <1>8, <1>9
  DEF TreeNext, SetSignedOut, PopulateQemuHosts, RefreshProject


-----------------------------------------------------------------------------
(* What a step does to the requests that an item waits for.                *)

LEMMA ForApply ==
  ASSUME TreeTypeOK, Requested, ApplyProjectSelection
  PROVE  /\ \A h \in Hosts : For(h)' = {}
         /\ \A c \in Categories : \E r : r.age = 0 /\ For(c)' = {r}
         /\ Requested'
<1>f. /\ \A c \in Categories : c \in Items /\ c \notin Hosts
      /\ \A h \in Hosts : h \in Items /\ h \notin Categories
      /\ \A i \in Items : build[i] \in Nat
      /\ \A r \in requests : r.item \in Items /\ r.build \in Nat
      /\ age \in Nat \ {0}
  BY TreeFacts
<1>1. PICK ids \in [Categories -> Free] :
        requests' = requests \union {New(c, build[c] + 1, ids[c]) : c \in Categories}
  BY DEF ApplyProjectSelection
<1>2. /\ present' = Items /\ age' = age
      /\ \A i \in Items : build'[i] = build[i] + 1 /\ build[i] + 1 \in 1..MaxBuilds
  BY <1>f, TreeFacts DEF ApplyProjectSelection, TreeTypeOK
<1>3. \A c \in Categories :
        LET n == New(c, build[c] + 1, ids[c])
        IN  n.item = c /\ n.build = build[c] + 1 /\ n.age = 0
  BY DEF New
<1>4. \A r \in requests : r.build # build'[r.item]
  BY <1>2, <1>f DEF Requested
<1>5. ASSUME NEW i \in Items
      PROVE  For(i)' = {r \in {New(c, build[c] + 1, ids[c]) : c \in Categories} : r.item = i}
  <2>1. For(i)' = {r \in requests' : r.item = i /\ r.build = build'[i]}
    BY <1>2 DEF For
  <2> QED
    BY <2>1, <1>1, <1>2, <1>3, <1>4, <1>f
<1>6. \A h \in Hosts : For(h)' = {}
  BY <1>3, <1>5, <1>f
<1>7. ASSUME NEW c \in Categories
      PROVE  \E r : r.age = 0 /\ For(c)' = {r}
  <2>1. For(c)' = {New(c, build[c] + 1, ids[c])}
    BY <1>3, <1>5, <1>f
  <2> QED
    BY <1>3, <2>1
<1>8. Requested'
  <2>1. \A r \in requests : r.build <= build'[r.item] /\ r.age <= age'
    BY <1>2, <1>f DEF Requested
  <2>2. \A c \in Categories :
          LET n == New(c, build[c] + 1, ids[c])
          IN  n.build <= build'[n.item] /\ n.age <= age'
    BY <1>2, <1>3, <1>f
  <2> QED
    BY <1>1, <2>1, <2>2 DEF Requested
<1> QED
  BY <1>6, <1>7, <1>8

LEMMA ForBuildHosts ==
  ASSUME TreeTypeOK, Requested, NEW categories, categories \subseteq present \intersect Categories,
         BuildHosts(categories)
  PROVE  /\ \A h \in Hosts : For(h)' = {}
         /\ \A c \in categories : For(c)' = For(c)
         /\ \A c \in Categories \ categories : For(c)' = {}
         /\ Requested'
<1>f. /\ \A c \in Categories : c \in Items /\ c \notin Hosts
      /\ \A h \in Hosts : h \in Items /\ h \notin Categories
      /\ \A i \in Items : build[i] \in Nat
      /\ \A r \in requests : r.item \in Items /\ r.build \in Nat
  BY TreeFacts
<1>1. /\ present' = Hosts \union categories /\ requests' = requests /\ age' = age
      /\ \A i \in Items : build'[i] = IF i \in Hosts THEN build[i] + 1 ELSE build[i]
  BY DEF BuildHosts
<1>2. \A h \in Hosts : For(h)' = {}
  BY <1>1, <1>f DEF For, Requested
<1>3. \A c \in categories : For(c)' = For(c)
  BY <1>1, <1>f DEF For
<1>4. \A c \in Categories \ categories : For(c)' = {}
  BY <1>1, <1>f DEF For
<1>5. Requested'
  BY <1>1, <1>f DEF Requested
<1> QED
  BY <1>2, <1>3, <1>4, <1>5

\* A request more for item i.
LEMMA ForAsked ==
  ASSUME TreeTypeOK, Requested, NEW i \in Items, i \in present, build[i] \in 1..MaxBuilds,
         NEW id \in Free, requests' = requests \union {New(i, build[i], id)},
         UNCHANGED <<present, build, age>>
  PROVE  /\ \E r : r.age = 0 /\ For(i)' = For(i) \union {r}
         /\ \A j \in Items \ {i} : For(j)' = For(j)
         /\ Requested'
<1> DEFINE n == New(i, build[i], id)
<1>1. n.item = i /\ n.build = build[i] /\ n.age = 0
  BY DEF New
<1>2. For(i)' = For(i) \union {n}
  BY <1>1 DEF For
<1>3. \A j \in Items \ {i} : For(j)' = For(j)
  BY <1>1 DEF For
<1>4. Requested'
  BY <1>1, TreeFacts DEF Requested
<1> QED
  BY <1>1, <1>2, <1>3, <1>4


\* A request reads: no item waits for another one, and none shows another age.
LEMMA ForRead ==
  ASSUME TreeTypeOK, Requested, Newer, NEW r \in requests, r.age = 0,
         requests' = (requests \ {r}) \union {[r EXCEPT !.age = age]},
         UNCHANGED <<present, build, treeShown, age, crossed>>
  PROVE  /\ \A i \in Items :
              For(i)' = IF r \in For(i) THEN (For(i) \ {r}) \union {[r EXCEPT !.age = age]}
                                       ELSE For(i)
         /\ Requested'
<1> DEFINE n == [r EXCEPT !.age = age]
<1>1. n.item = r.item /\ n.build = r.build /\ n.age = age
  BY DEF TreeTypeOK, Request
<1>2. ASSUME NEW i \in Items
      PROVE  For(i)' = IF r \in For(i) THEN (For(i) \ {r}) \union {n} ELSE For(i)
  BY <1>1 DEF For
<1>3. n.build <= build[n.item] /\ n.age <= age
  BY <1>1, TreeFacts DEF Requested
<1>4. Requested'
  <2>1. requests' = (requests \ {r}) \union {n}
    OBVIOUS
  <2> HIDE DEF n
  <2> QED
    BY <1>3, <2>1 DEF Requested
<1> QED
  BY <1>2, <1>4

\* It is answered.
LEMMA ForAnswered ==
  ASSUME TreeTypeOK, Requested, NEW r \in requests, requests' = requests \ {r},
         UNCHANGED <<present, build, age>>
  PROVE  /\ \A i \in Items : For(i)' = For(i) \ {r}
         /\ \A i \in Items : r \in For(i) => i = r.item
         /\ Requested'
<1>1. \A i \in Items : For(i)' = For(i) \ {r} /\ (r \in For(i) => i = r.item)
  BY DEF For
<1>2. Requested'
  BY DEF Requested
<1> QED
  BY <1>1, <1>2

-----------------------------------------------------------------------------
\* One step, whichever it is, keeps what the tree is waiting for in order.
LEMMA TreeStepInv == TreeInv /\ TreeNext => Made' /\ Requested' /\ OneOut' /\ Newer'
<1> SUFFICES ASSUME TreeInv, TreeNext PROVE Made' /\ Requested' /\ OneOut' /\ Newer'
  OBVIOUS
<1>t. TreeTypeOK /\ Made /\ Requested /\ OneOut /\ Newer
  BY DEF TreeInv
<1>f. /\ \A c \in Categories : c \in Items /\ c \notin Hosts
      /\ \A h \in Hosts : h \in Items /\ h \notin Categories
      /\ \A i \in Items : build[i] \in Nat /\ treeShown[i] \in Nat
      /\ \A r \in requests : r.item \in Items /\ r.build \in Nat /\ r.age \in Nat
      /\ \A i \in Items : i \in Hosts \/ i \in Categories
      /\ \A i \in Items : For(i) \subseteq requests
      /\ age \in Nat \ {0}
  BY <1>t, TreeFacts DEF Items, For
<1>1. CASE ApplyProjectSelection
  <2>1. /\ present' = Items /\ crossed' = {} /\ age' = age
        /\ \A i \in Items : build'[i] # 0 /\ treeShown'[i] = 0
        /\ \A c \in Categories : loading'[c]
    BY <1>1, <1>f DEF ApplyProjectSelection
  <2>2. /\ \A h \in Hosts : For(h)' = {}
        /\ \A c \in Categories : \E r : r.age = 0 /\ For(c)' = {r}
        /\ Requested'
    BY <1>1, <1>t, ForApply
  <2>3. Made'
    BY <2>1 DEF Made, Items
  <2>4. OneOut'
    <3>1. \A c \in Categories : loading'[c] <=> For(c)' # {}
      BY <2>1, <2>2
    <3>2. \A i \in Items : \A r, s \in For(i)' : r = s
      BY <2>2, <1>f
    <3> QED
      BY <3>1, <3>2 DEF OneOut
  <2>5. Newer'
    <3>1. \A i \in Items : \A r \in For(i)' : r.age = 0
      BY <2>2, <1>f
    <3> QED
      BY <2>1, <3>1, <1>f DEF Newer
  <2> QED
    BY <2>2, <2>3, <2>4, <2>5
<1>2. ASSUME NEW categories, categories \subseteq present \intersect Categories,
             BuildHosts(categories)
      PROVE  Made' /\ Requested' /\ OneOut' /\ Newer'
  <2>1. /\ present' = Hosts \union categories /\ crossed' = {} /\ age' = age
        /\ \A i \in Items : build'[i] = IF i \in Hosts THEN build[i] + 1 ELSE build[i]
        /\ \A i \in Items : treeShown'[i] = IF i \in categories THEN treeShown[i] ELSE 0
        /\ \A c \in Categories : loading'[c] = (loading[c] /\ c \in categories)
    BY <1>2 DEF BuildHosts
  <2>2. /\ \A h \in Hosts : For(h)' = {}
        /\ \A c \in categories : For(c)' = For(c)
        /\ \A c \in Categories \ categories : For(c)' = {}
        /\ Requested'
    BY <1>2, <1>t, ForBuildHosts
  <2>3. Made'
    BY <2>1, <1>t, <1>f, <1>2 DEF Made
  <2>4. OneOut'
    <3>1. \A c \in Categories : loading'[c] <=> For(c)' # {}
      BY <2>1, <2>2, <1>t, <1>2 DEF OneOut
    <3>2. \A i \in Items : \A r, s \in For(i)' : r = s
      <4>1. \A i \in categories : \A r, s \in For(i) : r = s
        BY <1>t, <1>f, <1>2 DEF OneOut, TreeTypeOK
      <4> QED
        BY <4>1, <2>2, <1>f
    <3> QED
      BY <3>1, <3>2 DEF OneOut
  <2>5. Newer'
    <3>1. \A i \in Items : treeShown'[i] <= age'
      BY <2>1, <1>t, <1>f DEF Newer
    <3>2. \A i \in categories : \A r \in For(i) : r.age # 0 => treeShown[i] <= r.age
      BY <1>t, <1>f, <1>2 DEF Newer, TreeTypeOK
    <3>3. \A i \in Items : \A r \in For(i)' : r.age # 0 => treeShown'[i] <= r.age
      BY <2>1, <2>2, <3>2, <1>f
    <3> QED
      BY <3>1, <3>3 DEF Newer
  <2> QED
    BY <2>2, <2>3, <2>4, <2>5
<1>3. ASSUME NEW c \in Categories, LoadCategory(c)
      PROVE  Made' /\ Requested' /\ OneOut' /\ Newer'
  <2>1. /\ c \in present /\ ~loading[c] /\ loading' = [loading EXCEPT ![c] = TRUE]
        /\ UNCHANGED <<present, build, treeShown, age, crossed>>
    BY <1>3 DEF LoadCategory
  <2>2. PICK id \in Free : requests' = requests \union {New(c, build[c], id)}
    BY <1>3 DEF LoadCategory
  <2>3. build[c] \in 1..MaxBuilds
    BY <2>1, <1>t, TreeFacts DEF Made, TreeTypeOK
  <2>4. /\ \E r : r.age = 0 /\ For(c)' = For(c) \union {r}
        /\ \A j \in Items \ {c} : For(j)' = For(j)
        /\ Requested'
    BY <2>1, <2>2, <2>3, <1>t, <1>f, ForAsked
  <2>5. For(c) = {}
    BY <2>1, <1>t DEF OneOut
  <2>6. Made'
    BY <2>1, <1>t DEF Made
  <2>7. OneOut'
    <3>1. \A d \in Categories : loading'[d] <=> For(d)' # {}
      BY <2>1, <2>4, <1>t, <1>f DEF OneOut, TreeTypeOK
    <3>2. \A i \in Items \ crossed' : \A r, s \in For(i)' : r = s
      BY <2>1, <2>4, <2>5, <1>t, <1>f DEF OneOut
    <3> QED
      BY <3>1, <3>2 DEF OneOut
  <2>8. Newer'
    BY <2>1, <2>4, <2>5, <1>t, <1>f DEF Newer
  <2> QED
    BY <2>4, <2>6, <2>7, <2>8
<1>4. ASSUME NEW h \in Hosts, LoadQemuVms(h)
      PROVE  Made' /\ Requested' /\ OneOut' /\ Newer'
  <2>1. /\ crossed' = crossed \union {x \in {h} : For(x) # {}}
        /\ UNCHANGED <<present, build, loading, treeShown, age>>
    BY <1>4 DEF LoadQemuVms
  <2>2. PICK id \in Free : requests' = requests \union {New(h, build[h], id)}
    BY <1>4 DEF LoadQemuVms
  <2>3. h \in present /\ build[h] \in 1..MaxBuilds
    BY <1>t, <1>f, TreeFacts DEF Made, TreeTypeOK
  <2>4. /\ \E r : r.age = 0 /\ For(h)' = For(h) \union {r}
        /\ \A j \in Items \ {h} : For(j)' = For(j)
        /\ Requested'
    BY <2>1, <2>2, <2>3, <1>t, <1>f, ForAsked
  <2>5. h \notin crossed' => For(h) = {}
    BY <2>1
  <2>6. Made'
    BY <2>1, <1>t DEF Made
  <2>7. OneOut'
    <3>1. \A d \in Categories : loading'[d] <=> For(d)' # {}
      BY <2>1, <2>4, <1>t, <1>f DEF OneOut
    <3>2. \A i \in Items \ crossed' : \A r, s \in For(i)' : r = s
      BY <2>1, <2>4, <2>5, <1>t, <1>f DEF OneOut
    <3> QED
      BY <3>1, <3>2 DEF OneOut
  <2>8. Newer'
    BY <2>1, <2>4, <2>5, <1>t, <1>f DEF Newer
  <2> QED
    BY <2>4, <2>6, <2>7, <2>8
<1>5. CASE DataChange
  <2>1. /\ age' = age + 1
        /\ UNCHANGED <<present, build, loaded, loading, treeShown, requests, crossed>>
    BY <1>5 DEF DataChange
  <2>2. \A i \in Items : For(i)' = For(i)
    BY <2>1 DEF For
  <2>3. Made' /\ Requested'
    BY <2>1, <1>t, <1>f DEF Made, Requested
  <2>4. OneOut'
    BY <2>1, <2>2, <1>t, <1>f DEF OneOut
  <2>5. Newer'
    BY <2>1, <2>2, <1>t, <1>f DEF Newer
  <2> QED
    BY <2>3, <2>4, <2>5
<1>6. CASE Reads
  <2>1. PICK r \in requests :
          /\ r.age = 0
          /\ requests' = (requests \ {r}) \union {[r EXCEPT !.age = age]}
          /\ UNCHANGED <<present, build, loaded, loading, treeShown, age, crossed>>
    BY <1>6 DEF Reads
  <2> DEFINE n == [r EXCEPT !.age = age]
  <2>2. \A i \in Items : For(i)' = IF r \in For(i) THEN (For(i) \ {r}) \union {n} ELSE For(i)
    BY <2>1, <1>t, ForRead
  <2>3. Requested'
    BY <2>1, <1>t, ForRead
  <2>4. n.age = age
    BY <1>t DEF TreeTypeOK, Request
  <2>5. Made'
    BY <2>1, <1>t DEF Made
  <2>6. OneOut'
    <3>1. \A c \in Categories : loading'[c] <=> For(c)' # {}
      <4>1. \A i \in Items : For(i)' # {} <=> For(i) # {}
        BY <2>2
      <4> QED
        BY <2>1, <4>1, <1>t, <1>f DEF OneOut
    <3>2. \A i \in Items \ crossed' : \A q, s \in For(i)' : q = s
      BY <2>1, <2>2, <1>t DEF OneOut
    <3> QED
      BY <3>1, <3>2 DEF OneOut
  <2>7. Newer'
    BY <2>1, <2>2, <2>4, <1>t, <1>f DEF Newer
  <2> QED
    BY <2>3, <2>5, <2>6, <2>7
<1>7. CASE Answered
  <2>1. PICK r \in requests :
          /\ r.age # 0
          /\ requests' = requests \ {r}
          /\ crossed' = {h \in crossed : For(h) # {r}}
          /\ IF r \in For(r.item)
               THEN /\ treeShown' = [treeShown EXCEPT ![r.item] = r.age]
                    /\ loading' = [c \in Categories |-> loading[c] /\ c # r.item]
               ELSE UNCHANGED <<treeShown, loading>>
          /\ UNCHANGED <<present, build, loaded, age>>
    BY <1>7 DEF Answered
  <2>2. /\ \A i \in Items : For(i)' = For(i) \ {r}
        /\ \A i \in Items : r \in For(i) => i = r.item
        /\ Requested'
    BY <2>1, <1>t, ForAnswered
  <2>3. Made'
    BY <2>1, <1>t DEF Made
  <2>4. \A i \in Items : i \notin crossed' => i \notin crossed \/ For(i)' = {}
    BY <2>1, <2>2
  <2>5. \A i \in Items : i # r.item \/ r \notin For(i) =>
          For(i)' = For(i) /\ treeShown'[i] = treeShown[i]
    BY <2>1, <2>2, <1>t DEF TreeTypeOK
  <2>6. ASSUME r \in For(r.item)
        PROVE  treeShown'[r.item] = r.age /\ r.age <= age
    BY <2>1, <2>6, <1>t, <1>f DEF TreeTypeOK, Requested
  <2>7. OneOut'
    <3>1. ASSUME NEW c \in Categories
          PROVE  loading'[c] <=> For(c)' # {}
      <4>1. CASE r \in For(c)
        <5>1. c = r.item
          BY <4>1, <2>2, <1>f
        <5>2. ~loading'[c]
          BY <4>1, <5>1, <2>1
        <5>3. c \notin crossed
          BY <1>t, <1>f DEF TreeTypeOK
        <5>4. For(c) = {r}
          BY <4>1, <5>3, <1>t, <1>f DEF OneOut
        <5> QED
          BY <5>2, <5>4, <2>2, <1>f
      <4>2. CASE r \notin For(c)
        <5>1. loading'[c] = loading[c]
          BY <4>2, <2>1, <1>t, <1>f DEF TreeTypeOK
        <5> QED
          BY <4>2, <5>1, <2>2, <1>t, <1>f DEF OneOut
      <4> QED
        BY <4>1, <4>2
    <3>2. \A i \in Items \ crossed' : \A q, s \in For(i)' : q = s
      BY <2>2, <2>4, <1>t DEF OneOut
    <3> QED
      BY <3>1, <3>2 DEF OneOut
  <2>8. Newer'
    <3>1. \A i \in Items : treeShown'[i] <= age'
      BY <2>1, <2>5, <2>6, <1>t, <1>f DEF Newer
    <3>2. ASSUME NEW i \in Items \ crossed', NEW q \in For(i)', q.age # 0
          PROVE  treeShown'[i] <= q.age
      <4>1. i \notin crossed /\ q \in For(i) /\ q # r
        BY <3>2, <2>2, <2>4
      <4>2. r \notin For(i)
        BY <4>1, <1>t DEF OneOut
      <4> QED
        BY <3>2, <4>1, <4>2, <2>5, <1>t DEF Newer
    <3> QED
      BY <3>1, <3>2 DEF Newer
  <2> QED
    BY <2>2, <2>3, <2>7, <2>8
<1>8. Hosts \subseteq present
  BY <1>t DEF Made
<1>9. CASE SetSignedOut \/ PopulateQemuHosts
  BY <1>2, <1>9 DEF SetSignedOut, PopulateQemuHosts
<1>10. CASE RefreshProject \/ ItemExpanded \/ QemuPowerActionDone
  BY <1>3, <1>4, <1>10 DEF RefreshProject, ItemExpanded, QemuPowerActionDone
<1> QED
  BY <1>1, <1>5, <1>6, <1>7, <1>9, <1>10 DEF TreeNext


\* A category is marked exactly while one request is out.
LEMMA OneIsOne == TreeInv => OneRequest
<1> SUFFICES ASSUME TreeInv, NEW c \in Categories
             PROVE  Cardinality(For(c)) = IF loading[c] THEN 1 ELSE 0
  BY DEF OneRequest
<1>1. c \in Items \ crossed
  BY TreeFacts DEF TreeInv, TreeTypeOK
<1>2. CASE loading[c]
  <2>1. PICK r : r \in For(c)
    BY <1>2 DEF TreeInv, OneOut
  <2>2. For(c) = {r}
    BY <1>1, <2>1 DEF TreeInv, OneOut
  <2> QED
    BY <1>2, <2>2, FS_Singleton
<1>3. CASE ~loading[c]
  BY <1>3, FS_EmptySet DEF TreeInv, OneOut
<1> QED
  BY <1>2, <1>3

\* Only an answer replaces what an item shows, and it is not older.
LEMMA NothingOlder == TreeInv /\ [TreeNext]_treeVars => OnlyForward
<1> SUFFICES ASSUME TreeInv, [TreeNext]_treeVars,
                    NEW i \in Items, GoesBack(i), i \notin crossed
             PROVE  FALSE
  BY DEF OnlyForward
<1>t. TreeTypeOK /\ Made /\ Newer
  BY DEF TreeInv
<1>f. /\ build[i] \in Nat /\ treeShown[i] \in Nat
      /\ \A h \in Hosts : h \in Items
  BY <1>t, TreeFacts
<1>g. i \in present' /\ build'[i] = build[i] /\ treeShown'[i] < treeShown[i]
  BY DEF GoesBack
<1>1. CASE ApplyProjectSelection
  BY <1>1, <1>g, <1>f DEF ApplyProjectSelection
<1>2. ASSUME NEW categories, BuildHosts(categories)
      PROVE  FALSE
  BY <1>2, <1>g, <1>f DEF BuildHosts
<1>3. CASE Answered
  <2>1. PICK r \in requests :
          /\ r.age # 0
          /\ IF r \in For(r.item)
               THEN treeShown' = [treeShown EXCEPT ![r.item] = r.age]
               ELSE treeShown' = treeShown
    BY <1>3 DEF Answered
  <2>2. r \in For(i) /\ treeShown'[i] = r.age
    BY <2>1, <1>g, <1>f, <1>t DEF TreeTypeOK, For
  <2>3. treeShown[i] <= r.age /\ r.age \in Nat
    BY <2>1, <2>2, <1>t, TreeFacts DEF Newer
  <2> QED
    BY <2>2, <2>3, <1>g, <1>f
<1>4. CASE treeShown' = treeShown
  BY <1>4, <1>g, <1>f
<1> QED
  BY <1>1, <1>2, <1>3, <1>4
  DEF TreeNext, SetSignedOut, PopulateQemuHosts, RefreshProject, LoadCategory, ItemExpanded,
      QemuPowerActionDone, LoadQemuVms, DataChange, Reads, treeVars

\* Every step keeps the invariant.
LEMMA TreeInvKept == TreeInv /\ [TreeNext]_treeVars => TreeInv'
<1>1. TreeInv /\ [TreeNext]_treeVars => TreeTypeOK'
  BY TreeNextType DEF TreeInv
<1>2. TreeInv /\ UNCHANGED treeVars => Made' /\ Requested' /\ OneOut' /\ Newer'
  BY DEF TreeInv, treeVars, Made, Requested, OneOut, Newer, For
<1> QED
  BY <1>1, <1>2, TreeStepInv DEF TreeInv

\* The type invariant of the tree, its items and the requests for them.
THEOREM TreeTypeCorrect == TreeSpec => []TreeTypeOK
<1>1. TreeInv => TreeTypeOK
  BY DEF TreeInv
<1> QED
  BY <1>1, TreeInvKept, TreeInitInv, PTL DEF TreeSpec

(* However often the tree is refreshed, rebuilt or emptied while requests  *)
(* are out, for any projects and hosts: a category is asked for once at a  *)
(* time, and no late answer takes the place of a newer one.                *)
THEOREM NoAnswerIsStale == TreeSpec => NoStaleAnswer
<1>1. TreeInv /\ [TreeNext]_treeVars => OneRequest /\ OnlyForward
  BY OneIsOne, NothingOlder
<1> QED
  BY <1>1, TreeInvKept, TreeInitInv, PTL DEF TreeSpec, NoStaleAnswer

-----------------------------------------------------------------------------
(* GcloudAccount, for any accounts and any number of jobs.                 *)

(* A change that has reached gcloud, and is not announced yet; a view that *)
(* has not heard of its first check.                                       *)
Moved == \E j \in jobs : IsChange(j) /\ j.got # Unread
Due(v) == \E j \in jobs : j.what = "check" /\ j.view = v

(* A view checks once, and changes are one at a time until two cross.      *)
JobsApart ==
  /\ IsFiniteSet(jobs)
  /\ \A j \in jobs : j.got = Token => Lists(j)
  /\ \A j, k \in jobs :
       j.what = "check" /\ k.what = "check" /\ j.view = k.view => j = k
  /\ ~changesCrossed =>
       \A j, k \in jobs : IsChange(j) /\ IsChange(k) => j = k

(* What a job was told by gcloud is still so when it answers.              *)
Kept(j) ==
  /\ j.what = "sign in" => gcloud # Nobody
  /\ j.what = "sign out" => gcloud = Nobody
  /\ j.what = "check" /\ ~Moved /\ ~identity.seen => j.got = gcloud
GotIsKept ==
  ~changesCrossed => \A j \in jobs : j.got # Unread => Kept(j)

Waits ==
  /\ settings.shown = "busy" =>
       \E j \in jobs : IsChange(j) /\ j.view = "settings"
  /\ settings.shown = "checking" => Due("settings")
  /\ Due("manager") /\ ~identity.seen => manager.account = Nobody

(* A view that has heard of gcloud agrees with it, unless a change has     *)
(* reached gcloud since.                                                   *)
Settled(v) == v \notin unsure /\ (identity.seen \/ ~Due(v))
Agreed ==
  ~changesCrossed /\ ~Moved =>
    /\ Settled("identity") => identity.signedIn = (gcloud # Nobody)
    /\ Settled("settings") =>
         settings.shown \in {gcloud, "error", "busy", "checking"}
    /\ Settled("manager") => manager.account = gcloud

NothingOfNobody ==
  /\ ~identity.signedIn => ~identity.projects
  /\ manager.account = Nobody /\ ~lateList =>
       Listed("manager") /\ ~manager.projects /\ ~manager.tree

AccountInv ==
  /\ AccountTypeOK /\ JobsApart /\ GotIsKept /\ Waits /\ Agreed
  /\ NothingOfNobody

-----------------------------------------------------------------------------
\* Of a finite set of jobs, one number at least is not used.
LEMMA FreshIsNew ==
  ASSUME AccountTypeOK, JobsApart
  PROVE  Fresh \in Nat
<1> DEFINE n == Cardinality(jobs)
           ids == {j.id : j \in jobs}
<1>1. IsFiniteSet(jobs) /\ n \in Nat
  BY FS_CardinalityType DEF JobsApart
<1>2. IsFiniteSet(ids) /\ Cardinality(ids) <= n
  <2> DEFINE f == [j \in jobs |-> j.id]
  <2>1. f \in Surjection(jobs, ids)
    BY DEF Surjection
  <2> QED
    BY <1>1, <2>1, FS_Surjection
<1>3. IsFiniteSet(1 .. n + 1) /\ Cardinality(1 .. n + 1) = n + 1
  BY <1>1, FS_Interval
<1>4. ~(1 .. n + 1 \subseteq ids)
  <2>1. SUFFICES ASSUME 1 .. n + 1 \subseteq ids PROVE FALSE
    OBVIOUS
  <2>2. Cardinality(1 .. n + 1) <= Cardinality(ids)
    BY <1>2, <2>1, FS_Subset
  <2>3. Cardinality(ids) \in Nat
    BY <1>2, FS_CardinalityType
  <2> QED
    BY <1>1, <1>2, <1>3, <2>2, <2>3
<1>5. \E i \in 1 .. n + 1 : \A j \in jobs : j.id # i
  BY <1>4
<1> QED
  BY <1>1, <1>5 DEF Fresh

LEMMA AccountInitInv == AccountInit => AccountInv
<1> SUFFICES ASSUME AccountInit PROVE AccountInv
  OBVIOUS
<1>1. \A j \in jobs : \E v \in Views :
        /\ j = NewJob(0, "check", v) /\ j.what = "check" /\ j.view = v /\ j.got = Unread
  BY DEF AccountInit, NewJob
<1>2. AccountTypeOK
  <2>1. \A v \in Views : NewJob(0, "check", v) \in AccountJob
    BY DEF NewJob, AccountJob
  <2>2. jobs \subseteq AccountJob
    BY <2>1 DEF AccountInit
  <2>3. dialogs \in Seq({"first", "select"})
    BY DEF AccountInit
  <2> QED
    BY <2>2, <2>3 DEF AccountInit, AccountTypeOK, Anyone
<1>3. JobsApart
  <2>1. IsFiniteSet(jobs)
    <3>1. jobs = {NewJob(0, "check", "settings")} \union
                   ({NewJob(0, "check", "manager")} \union {NewJob(0, "check", "identity")})
      BY DEF AccountInit, Views
    <3> QED
      BY <3>1, FS_Singleton, FS_Union
  <2>2. \A j \in jobs : j.got # Token /\ ~IsChange(j)
    BY <1>1, AccountsAssumption DEF IsChange
  <2>3. \A j, k \in jobs : j.view = k.view => j = k
    BY <1>1
  <2> QED
    BY <2>1, <2>2, <2>3 DEF JobsApart
<1>4. GotIsKept
  <2>1. \A j \in jobs : j.got = Unread
    BY <1>1
  <2> QED
    BY <2>1 DEF GotIsKept
<1>5. ASSUME NEW v \in Views PROVE Due(v)
  <2>1. NewJob(0, "check", v) \in jobs
    BY DEF AccountInit
  <2>2. NewJob(0, "check", v).what = "check" /\ NewJob(0, "check", v).view = v
    BY DEF NewJob
  <2> QED
    BY <2>1, <2>2 DEF Due
<1>6. Waits
  BY <1>5 DEF AccountInit, Waits, Views
<1>7. Agreed
  BY <1>5 DEF AccountInit, Agreed, Settled, Views
<1>8. NothingOfNobody
  BY <1>1 DEF AccountInit, NothingOfNobody, Listed, Lists
<1> QED
  BY <1>2, <1>3, <1>4, <1>6, <1>7, <1>8 DEF AccountInv

-----------------------------------------------------------------------------
(* The three things that can happen to the jobs.                           *)

\* One of them asks gcloud.
LEMMA JobsAsk ==
  ASSUME AccountTypeOK, JobsApart, Asks
  PROVE  \E j \in jobs, account \in Anyone, k \in AccountJob :
           /\ j.got = Unread /\ jobs' = (jobs \ {j}) \union {k}
           /\ k.what = j.what /\ k.view = j.view
           /\ k.got = IF Lists(j) THEN Token ELSE account
           /\ j.what = "sign in" => account # Nobody
           /\ j.what # "sign in" => account = gcloud
           /\ gcloud' = IF j.what = "sign out" THEN Nobody ELSE account
<1>1. PICK j \in jobs, account \in Anyone :
        /\ j.got = Unread
        /\ IF j.what = "sign in" THEN account # Nobody ELSE account = gcloud
        /\ gcloud' = IF j.what = "sign out" THEN Nobody ELSE account
        /\ jobs' = (jobs \ {j}) \union {[j EXCEPT !.got = IF Lists(j) THEN Token ELSE account]}
  BY DEF Asks
<1> DEFINE k == [j EXCEPT !.got = IF Lists(j) THEN Token ELSE account]
<1>2. /\ k \in AccountJob /\ k.what = j.what /\ k.view = j.view
      /\ k.got = IF Lists(j) THEN Token ELSE account
  BY DEF AccountTypeOK, AccountJob
<1>3. jobs' = (jobs \ {j}) \union {k}
  BY <1>1
<1> HIDE DEF k
<1> QED
  BY <1>1, <1>2, <1>3

\* One is started.
Starts(what, view) ==
  \E k \in AccountJob : /\ jobs' = jobs \union {k}
                        /\ k.what = what /\ k.view = view /\ k.got = Unread

LEMMA JobsStart ==
  ASSUME AccountTypeOK, JobsApart, NEW view \in Views,
         NEW what \in {"list", "select", "sign in", "sign out"}, StartJob(what, view)
  PROVE  Starts(what, view)
<1>1. jobs' = jobs \union {NewJob(Fresh, what, view)}
  BY DEF StartJob
<1>0. what \in {"check", "list", "select", "sign in", "sign out"}
  OBVIOUS
<1>2. /\ NewJob(Fresh, what, view) \in AccountJob
      /\ NewJob(Fresh, what, view).what = what
      /\ NewJob(Fresh, what, view).view = view
      /\ NewJob(Fresh, what, view).got = Unread
  BY <1>0, FreshIsNew DEF NewJob, AccountJob
<1> QED
  BY <1>1, <1>2 DEF Starts

\* One is answered, and lists are asked for.
Answers(j, views) ==
  \E new \in SUBSET AccountJob :
    /\ jobs' = (jobs \ {j}) \union new /\ IsFiniteSet(new)
    /\ \A k \in new : k.what = "list" /\ k.view \in views /\ k.got = Unread

LEMMA JobsAnswer ==
  ASSUME AccountTypeOK, JobsApart, NEW j, NEW account, NEW views \in SUBSET Views,
         ListFor(account, views, j)
  PROVE  Answers(j, IF account = Nobody THEN {} ELSE views)
<1> DEFINE new == {NewJob(Fresh, "list", v) : v \in views}
<1>1. CASE account = Nobody
  BY <1>1, FS_EmptySet DEF ListFor, Answers
<1>2. CASE account # Nobody
  <2>1. ASSUME NEW v \in views
        PROVE  LET k == NewJob(Fresh, "list", v)
               IN  k \in AccountJob /\ k.what = "list" /\ k.view \in views /\ k.got = Unread
    BY FreshIsNew DEF NewJob, AccountJob
  <2>2. IsFiniteSet(new)
    <3>1. new \subseteq {NewJob(Fresh, "list", "settings")} \union
                   ({NewJob(Fresh, "list", "manager")} \union {NewJob(Fresh, "list", "identity")})
      BY DEF Views
    <3>2. IsFiniteSet({NewJob(Fresh, "list", "settings")} \union
            ({NewJob(Fresh, "list", "manager")} \union {NewJob(Fresh, "list", "identity")}))
      BY FS_Singleton, FS_Union
    <3> QED
      BY <3>1, <3>2, FS_Subset
  <2>3. jobs' = (jobs \ {j}) \union new
    BY <1>2 DEF ListFor
  <2>4. new \in SUBSET AccountJob
    BY <2>1
  <2>5. \A k \in new : k.what = "list" /\ k.view \in views /\ k.got = Unread
    BY <2>1
  <2> HIDE DEF new
  <2>6. Answers(j, views)
    BY <2>2, <2>3, <2>4, <2>5 DEF Answers
  <2> QED
    BY <1>2, <2>6
<1> QED
  BY <1>1, <1>2

LEMMA JobsForget ==
  ASSUME NEW j, Forget(j)
  PROVE  Answers(j, {})
BY FS_EmptySet DEF Forget, Answers


-----------------------------------------------------------------------------
\* Whatever happens, the variables keep to their types.
LEMMA AccountNextType ==
  AccountTypeOK /\ JobsApart /\ [AccountNext]_accountVars => AccountTypeOK'
<1> SUFFICES ASSUME AccountTypeOK, JobsApart, [AccountNext]_accountVars PROVE AccountTypeOK'
  OBVIOUS
<1>t. /\ gcloud \in Anyone /\ Nobody \in Anyone
      /\ settings \in [shown : Anyone \union {"checking", "busy", "error"},
                       canSignIn : BOOLEAN, canSignOut : BOOLEAN]
      /\ manager \in [account : Anyone, projects : BOOLEAN, root : BOOLEAN, tree : BOOLEAN]
      /\ dialogs \in Seq({"first", "select"})
      /\ chosen \in BOOLEAN /\ changesCrossed \in BOOLEAN /\ lateList \in BOOLEAN
      /\ identity \in [signedIn : BOOLEAN, seen : BOOLEAN, projects : BOOLEAN]
      /\ jobs \subseteq AccountJob /\ unsure \subseteq Views
  BY DEF AccountTypeOK, Anyone
<1>a. \A account \in Anyone :
        /\ Show(account) \in [shown : Anyone \union {"checking", "busy", "error"},
                             canSignIn : BOOLEAN, canSignOut : BOOLEAN]
        /\ ManagerOf(account) \in [account : Anyone, projects : BOOLEAN, root : BOOLEAN,
                                  tree : BOOLEAN]
        /\ IdentityOf(account) \in [signedIn : BOOLEAN, seen : BOOLEAN, projects : BOOLEAN]
  BY <1>t DEF Show, ManagerOf, IdentityOf
<1>b. ASSUME NEW j, NEW views, Answers(j, views) PROVE jobs' \subseteq AccountJob
  BY <1>b, <1>t DEF Answers
<1>c. ASSUME NEW j \in jobs PROVE j.view \in Views /\ j.got \in Anyone \union {Unread, Token}
  BY <1>t DEF AccountJob
<1>d. ASSUME NEW what, NEW view, Starts(what, view) PROVE jobs' \subseteq AccountJob
  BY <1>d, <1>t DEF Starts
<1>v. "settings" \in Views /\ "manager" \in Views /\ "identity" \in Views
  BY DEF Views
<1>1. CASE Asks
  <2>1. jobs' \subseteq AccountJob /\ gcloud' \in Anyone
    BY <1>1, <1>t, JobsAsk
  <2> QED
    BY <1>1, <2>1 DEF Asks, AccountTypeOK
<1>2. CASE UserStep
  <2>1. ASSUME NEW what \in {"sign in", "sign out"}, NEW view \in Views, Change(what, view)
        PROVE  jobs' \subseteq AccountJob /\ changesCrossed' \in BOOLEAN
               /\ UNCHANGED <<gcloud, manager, dialogs, chosen, identity, unsure, lateList>>
    BY <2>1, <1>t, <1>d, JobsStart DEF Change
  <2>2. CASE SignInClicked \/ SignOutClicked
    <3>1. settings' \in [shown : Anyone \union {"checking", "busy", "error"},
                        canSignIn : BOOLEAN, canSignOut : BOOLEAN]
      BY <2>2, <1>t DEF SignInClicked, SignOutClicked
    <3> QED
      BY <2>1, <2>2, <3>1, <1>t, <1>v DEF SignInClicked, SignOutClicked, AccountTypeOK
  <2>3. CASE DoSignOut
    BY <2>1, <2>3, <1>t, <1>v DEF DoSignOut, AccountTypeOK
  <2>4. CASE SelectProjectsClicked
    BY <2>4, <1>t, <1>d, <1>v, JobsStart DEF SelectProjectsClicked, AccountTypeOK
  <2>5. CASE Refresh
    BY <2>5, <1>t, <1>d, <1>v, JobsStart DEF Refresh, AccountTypeOK
  <2>6. CASE DialogAccepted \/ DialogRejected
    <3>1. dialogs' \in Seq({"first", "select"})
      BY <2>6, <1>t DEF DialogAccepted, DialogRejected
    <3>2. manager' \in [account : Anyone, projects : BOOLEAN, root : BOOLEAN, tree : BOOLEAN]
      BY <2>6, <1>t DEF DialogAccepted, DialogRejected, Applied
    <3>3. chosen' \in BOOLEAN
      BY <2>6, <1>t DEF DialogAccepted, DialogRejected
    <3> QED
      BY <2>6, <3>1, <3>2, <3>3, <1>t DEF DialogAccepted, DialogRejected, AccountTypeOK
  <2> QED
    BY <1>2, <2>2, <2>3, <2>4, <2>5, <2>6 DEF UserStep
<1>3. CASE AccountChanged
  <2>1. PICK account \in Anyone : \E j : Announce(j, account)
    <3>1. CASE \E j \in Ended("sign in", "settings") : gcloud # Nobody /\ Announce(j, gcloud)
      BY <3>1, <1>t
    <3>2. CASE \E v \in Views : \E j \in Ended("sign out", v) : Announce(j, Nobody)
      BY <3>2, <1>t
    <3> QED
      BY <1>3, <3>1, <3>2 DEF AccountChanged
  <2>0. PICK j : Announce(j, account)
    BY <2>1
  <2>2. jobs' \subseteq AccountJob
    <3>1. ListFor(account, {"manager", "identity"}, j) /\ {"manager", "identity"} \in SUBSET Views
      BY <2>0 DEF Announce, Views
    <3>2. Answers(j, IF account = Nobody THEN {} ELSE {"manager", "identity"})
      BY <3>1, JobsAnswer
    <3> QED
      BY <3>2, <1>b
  <2>3. identity' \in [signedIn : BOOLEAN, seen : BOOLEAN, projects : BOOLEAN]
    <3> DEFINE old == IdentityOf(account)
    <3>1. old \in [signedIn : BOOLEAN, seen : BOOLEAN, projects : BOOLEAN]
      BY <1>a
    <3>2. identity' = [old EXCEPT !.seen = TRUE]
      BY <2>0 DEF Announce
    <3> HIDE DEF old
    <3> QED
      BY <3>1, <3>2
  <2> QED
    BY <2>0, <2>2, <2>3, <1>a, <1>t DEF Announce, AccountTypeOK
<1>4. CASE ChangeFails
  <2>1. PICK j : Forget(j) /\ settings' = IF j.view = "settings"
                     THEN [shown |-> "error", canSignIn |-> TRUE, canSignOut |-> TRUE]
                     ELSE settings
    BY <1>4 DEF ChangeFails
  <2>2. jobs' \subseteq AccountJob
    BY <2>1, <1>b, JobsForget
  <2> QED
    BY <1>4, <2>1, <2>2, <1>t DEF ChangeFails, AccountTypeOK
<1>5. CASE SettingsChecked
  <2>1. PICK j \in jobs : /\ Forget(j) /\ j.what = "check"
                         /\ settings' = Show(IF j.got = Unread THEN Nobody ELSE j.got)
                         /\ unsure' \in {unsure, unsure \union {"settings"}}
    BY <1>5 DEF SettingsChecked
  <2>2. jobs' \subseteq AccountJob
    BY <2>1, <1>b, JobsForget
  <2>3. j.got # Token
    BY <2>1 DEF JobsApart, Lists
  <2>4. (IF j.got = Unread THEN Nobody ELSE j.got) \in Anyone
    BY <2>3, <1>c, <1>t
  <2> QED
    BY <1>5, <2>1, <2>2, <2>4, <1>a, <1>t, <1>v DEF SettingsChecked, AccountTypeOK
<1>6. CASE ManagerChecked
  <2>1. PICK j \in Ended("check", "manager") :
          /\ manager' = IF j.got = Nobody THEN manager ELSE ManagerOf(j.got)
          /\ ListFor(j.got, {"manager"}, j)
          /\ unsure' = IF identity.seen THEN unsure \union {"manager"} ELSE unsure
    BY <1>6 DEF ManagerChecked
  <2>2. j \in jobs /\ j.what = "check" /\ j.got # Unread
    BY DEF Ended
  <2>3. j.got \in Anyone
    BY <2>2, <1>c DEF JobsApart, Lists
  <2>4. jobs' \subseteq AccountJob
    BY <2>1, <1>b, <1>v, JobsAnswer
  <2> QED
    BY <1>6, <2>1, <2>3, <2>4, <1>a, <1>t, <1>v DEF ManagerChecked, AccountTypeOK
<1>7. CASE IdentityChecked
  <2>1. PICK j \in Ended("check", "identity") : StartupAccount(j)
    BY <1>7 DEF IdentityChecked
  <2>2. j \in jobs /\ j.what = "check" /\ j.got # Unread
    BY DEF Ended
  <2>3. j.got \in Anyone
    BY <2>2, <1>c DEF JobsApart, Lists
  <2>4. jobs' \subseteq AccountJob
    BY <2>1, <1>b, <1>v, JobsAnswer, JobsForget DEF StartupAccount
  <2> QED
    BY <1>7, <2>1, <2>3, <2>4, <1>a, <1>t DEF IdentityChecked, StartupAccount, AccountTypeOK
<1>8. CASE CheckFails
  <2>1. PICK j \in jobs : /\ Forget(j)
                         /\ unsure' = IF identity.seen THEN unsure ELSE unsure \union {j.view}
    BY <1>8 DEF CheckFails, Failed
  <2>2. jobs' \subseteq AccountJob
    BY <2>1, <1>b, JobsForget
  <2> QED
    BY <1>8, <2>1, <2>2, <1>c, <1>t DEF CheckFails, AccountTypeOK
<1>9. CASE PopulateProjects \/ OpenSelection
  <2>1. jobs' \subseteq AccountJob
    <3>1. \E j : Forget(j)
      BY <1>9 DEF PopulateProjects, OpenSelection
    <3> QED
      BY <3>1, <1>b, JobsForget
  <2>2. dialogs' \in Seq({"first", "select"})
    <3>1. dialogs' \in {dialogs, <<"first">> \o dialogs, <<"select">> \o dialogs}
      BY <1>9 DEF PopulateProjects, OpenSelection
    <3>2. <<"first">> \in Seq({"first", "select"}) /\ <<"select">> \in Seq({"first", "select"})
      OBVIOUS
    <3> DEFINE S == {"first", "select"}
    <3>3. <<"first">> \in Seq(S) /\ <<"select">> \in Seq(S) /\ dialogs \in Seq(S)
      BY <3>2, <1>t
    <3> HIDE DEF S
    <3>4. <<"first">> \o dialogs \in Seq(S) /\ <<"select">> \o dialogs \in Seq(S)
      BY <3>3
    <3>5. dialogs' \in Seq(S)
      BY <3>1, <3>3, <3>4
    <3> QED
      BY <3>5 DEF S
  <2>3. manager' \in [account : Anyone, projects : BOOLEAN, root : BOOLEAN, tree : BOOLEAN]
    BY <1>9, <1>t DEF PopulateProjects, OpenSelection, Applied
  <2> QED
    BY <1>9, <2>1, <2>2, <2>3, <1>t DEF PopulateProjects, OpenSelection, AccountTypeOK
<1>10. CASE PopulateGcpProjects \/ ListFails
  <2>1. jobs' \subseteq AccountJob
    BY <1>10, <1>b, JobsForget DEF PopulateGcpProjects, ListFails
  <2>2. identity' \in [signedIn : BOOLEAN, seen : BOOLEAN, projects : BOOLEAN]
    BY <1>10, <1>t DEF PopulateGcpProjects, ListFails
  <2> QED
    BY <1>10, <2>1, <2>2, <1>t DEF PopulateGcpProjects, ListFails, AccountTypeOK
<1>11. CASE UNCHANGED accountVars
  BY <1>11, <1>t DEF accountVars, AccountTypeOK
<1> QED
  BY <1>1, <1>2, <1>3, <1>4, <1>5, <1>6, <1>7, <1>8, <1>9, <1>10, <1>11
  DEF AccountNext, ViewStep


-----------------------------------------------------------------------------
\* What becomes of the jobs when one of them is answered.
LEMMA JobAnswered ==
  ASSUME AccountTypeOK, JobsApart, NEW j, NEW views, Answers(j, views), UNCHANGED changesCrossed
  PROVE  /\ JobsApart'
         /\ \A k : ~Lists(k) => (k \in jobs' <=> k \in jobs /\ k # j)
         /\ \A k \in jobs' : k.got # Unread => k \in jobs
         /\ \A v : v \notin views /\ Listed(v) => Listed(v)'
<1>1. PICK new \in SUBSET AccountJob :
        /\ jobs' = (jobs \ {j}) \union new /\ IsFiniteSet(new)
        /\ \A k \in new : k.what = "list" /\ k.view \in views /\ k.got = Unread
  BY DEF Answers
<1>2. \A k \in new : Lists(k) /\ ~IsChange(k) /\ k.what # "check" /\ k.got # Token
  BY <1>1, AccountsAssumption DEF Lists, IsChange
<1>3. \A k : ~Lists(k) => (k \in jobs' <=> k \in jobs /\ k # j)
  BY <1>1, <1>2
<1>4. IsFiniteSet(jobs')
  <2>1. IsFiniteSet(jobs \ {j})
    BY FS_Subset DEF JobsApart
  <2> QED
    BY <1>1, <2>1, FS_Union
<1>5. JobsApart'
  <2>1. \A k \in jobs' : k \in jobs \/ k \in new
    BY <1>1
  <2>2. \A k \in jobs' : (k.got = Token => Lists(k))
    BY <1>2, <2>1 DEF JobsApart
  <2>3. \A i, k \in jobs' :
          i.what = "check" /\ k.what = "check" /\ i.view = k.view => i = k
    BY <1>2, <2>1 DEF JobsApart
  <2>4. ~changesCrossed => \A i, k \in jobs' : IsChange(i) /\ IsChange(k) => i = k
    BY <1>2, <2>1 DEF JobsApart
  <2> QED
    BY <1>4, <2>2, <2>3, <2>4 DEF JobsApart, Lists, IsChange
<1>6. \A k \in jobs' : k.got # Unread => k \in jobs
  BY <1>1
<1>7. \A v : v \notin views /\ Listed(v) => Listed(v)'
  BY <1>1 DEF Listed, Lists
<1> QED
  BY <1>3, <1>5, <1>6, <1>7

\* ... and of what has been said of them, when gcloud stays.
LEMMA AnsweredKeeps ==
  ASSUME AccountInv, NEW j \in jobs, NEW views, Answers(j, views),
         UNCHANGED <<changesCrossed, gcloud>>, identity'.seen = identity.seen
  PROVE  /\ JobsApart'
         /\ \A v : v \notin views /\ Listed(v) => Listed(v)'
         /\ j.got = Unread \/ ~IsChange(j) => GotIsKept' /\ Moved' = Moved
         /\ j.what # "check" => \A v : Due(v)' = Due(v)
         /\ j.what = "check" => ~Due(j.view)' /\ \A v : v # j.view => Due(v)' = Due(v)
         /\ ~IsChange(j) \/ j.view # "settings" =>
              ((\E k \in jobs : IsChange(k) /\ k.view = "settings") =>
                \E k \in jobs' : IsChange(k) /\ k.view = "settings")
<1>t. AccountTypeOK /\ JobsApart /\ GotIsKept
  BY DEF AccountInv
<1>1. /\ JobsApart'
      /\ \A k : ~Lists(k) => (k \in jobs' <=> k \in jobs /\ k # j)
      /\ \A k \in jobs' : k.got # Unread => k \in jobs
      /\ \A v : v \notin views /\ Listed(v) => Listed(v)'
  BY <1>t, JobAnswered
<1>2. \A k : IsChange(k) \/ k.what = "check" => ~Lists(k)
  BY DEF IsChange, Lists
<1>3. ASSUME j.got = Unread \/ ~IsChange(j) PROVE Moved' = Moved /\ GotIsKept'
  <2>1. \A k : IsChange(k) /\ k.got # Unread => (k \in jobs' <=> k \in jobs)
    BY <1>1, <1>2, <1>3
  <2>2. Moved' = Moved
    BY <2>1 DEF Moved, IsChange
  <2>3. GotIsKept'
    BY <1>1, <1>t, <2>2 DEF GotIsKept, Kept
  <2> QED
    BY <2>2, <2>3
<1>4. j.what # "check" => \A v : Due(v)' = Due(v)
  BY <1>1, <1>2 DEF Due
<1>5. ASSUME j.what = "check" PROVE ~Due(j.view)' /\ \A v : v # j.view => Due(v)' = Due(v)
  <2>1. ~Due(j.view)'
    BY <1>1, <1>2, <1>5, <1>t DEF Due, JobsApart
  <2>2. \A v : v # j.view => Due(v)' = Due(v)
    BY <1>1, <1>2, <1>5 DEF Due
  <2> QED
    BY <2>1, <2>2
<1>6. ASSUME ~IsChange(j) \/ j.view # "settings",
             \E k \in jobs : IsChange(k) /\ k.view = "settings"
      PROVE  \E k \in jobs' : IsChange(k) /\ k.view = "settings"
  BY <1>1, <1>2, <1>6
<1> QED
  BY <1>1, <1>3, <1>4, <1>5, <1>6


-----------------------------------------------------------------------------
(* Each step keeps what is said of the jobs and of the views.              *)

LEMMA AskKeeps ==
  ASSUME AccountInv, Asks
  PROVE  JobsApart' /\ GotIsKept' /\ Waits' /\ Agreed' /\ NothingOfNobody'
<1>t. AccountTypeOK /\ JobsApart /\ GotIsKept /\ Waits /\ Agreed /\ NothingOfNobody
  BY DEF AccountInv
<1>1. PICK j \in jobs, account \in Anyone, k \in AccountJob :
        /\ j.got = Unread /\ jobs' = (jobs \ {j}) \union {k}
        /\ k.what = j.what /\ k.view = j.view
        /\ k.got = IF Lists(j) THEN Token ELSE account
        /\ j.what = "sign in" => account # Nobody
        /\ j.what # "sign in" => account = gcloud
        /\ gcloud' = IF j.what = "sign out" THEN Nobody ELSE account
  BY <1>t, JobsAsk
<1>2. UNCHANGED <<settings, manager, dialogs, chosen, identity, changesCrossed, unsure, lateList>>
  BY DEF Asks
<1>3. account # Unread /\ account # Token /\ k.got # Unread
  BY <1>1, AccountsAssumption DEF Anyone
<1>4. (IsChange(k) <=> IsChange(j)) /\ (Lists(k) <=> Lists(j))
  BY <1>1 DEF IsChange, Lists
<1>5. JobsApart'
  <2>1. IsFiniteSet(jobs')
    <3>1. IsFiniteSet(jobs \ {j})
      BY <1>t, FS_Subset DEF JobsApart
    <3> QED
      BY <1>1, <3>1, FS_Singleton, FS_Union
  <2>2. \A i \in jobs' : i = k \/ (i \in jobs /\ i # j)
    BY <1>1
  <2>3. \A i \in jobs' : i.got = Token => Lists(i)
    BY <1>1, <1>3, <1>4, <1>t, <2>2 DEF JobsApart
  <2>4. \A i, m \in jobs' :
          i.what = "check" /\ m.what = "check" /\ i.view = m.view => i = m
    BY <1>1, <1>t, <2>2 DEF JobsApart
  <2>5. ~changesCrossed' => \A i, m \in jobs' : IsChange(i) /\ IsChange(m) => i = m
    BY <1>2, <1>4, <1>t, <2>2 DEF JobsApart
  <2> QED
    BY <2>1, <2>3, <2>4, <2>5 DEF JobsApart, Lists, IsChange
<1>6. \A v : Due(v)' = Due(v)
  BY <1>1 DEF Due
<1>7. CASE IsChange(j)
  <2>1. Moved'
    BY <1>1, <1>3, <1>4, <1>7 DEF Moved, IsChange
  <2>2. GotIsKept'
    <3> SUFFICES ASSUME ~changesCrossed, NEW i \in jobs', i.got # Unread,
                        i.what \in {"sign in", "sign out"}
                 PROVE  i = k
      BY <1>1, <1>2, <1>7, <2>1 DEF GotIsKept, Kept, IsChange
    <3> QED
      BY <1>1, <1>7, <1>t DEF JobsApart, IsChange
  <2> QED
    BY <1>1, <1>2, <1>4, <1>5, <1>6, <1>t, <2>1, <2>2
    DEF Waits, Agreed, NothingOfNobody, Listed, Lists, IsChange
<1>8. CASE ~IsChange(j)
  <2>1. gcloud' = gcloud
    BY <1>1, <1>8 DEF IsChange
  <2>2. Moved' = Moved
    BY <1>1, <1>4, <1>8 DEF Moved, IsChange
  <2>3. GotIsKept'
    <3>1. ~Lists(k) => k.got = gcloud
      BY <1>1, <1>4, <1>8 DEF IsChange
    <3>2. \A i \in jobs' : i = k \/ i \in jobs
      BY <1>1
    <3>3. k.what # "sign in" /\ k.what # "sign out" /\ (k.what = "check" => ~Lists(k))
      BY <1>1, <1>8 DEF IsChange, Lists
    <3> QED
      BY <1>2, <1>t, <2>1, <2>2, <3>1, <3>2, <3>3 DEF GotIsKept, Kept
  <2>4. (\E i \in jobs : IsChange(i) /\ i.view = "settings") =>
          \E i \in jobs' : IsChange(i) /\ i.view = "settings"
    BY <1>1, <1>8
  <2>5. Waits'
    BY <1>2, <1>6, <1>t, <2>4 DEF Waits, IsChange
  <2>6. Agreed'
    BY <1>2, <1>6, <1>t, <2>1, <2>2 DEF Agreed, Settled
  <2>7. NothingOfNobody'
    BY <1>1, <1>2, <1>t DEF NothingOfNobody, Listed, Lists
  <2> QED
    BY <1>5, <2>3, <2>5, <2>6, <2>7
<1> QED
  BY <1>7, <1>8

\* The settings page is busy from now on, or stays as it is.
LEMMA StartKeeps ==
  ASSUME AccountInv, NEW view \in Views, NEW what \in {"list", "select", "sign in", "sign out"},
         Starts(what, view),
         what \in {"list", "select"} /\ view = "manager" => manager.account # Nobody,
         changesCrossed' =
           (changesCrossed \/ (what \notin {"list", "select"} /\ \E j \in jobs : IsChange(j))),
         \/ settings'.shown = settings.shown
         \/ settings'.shown = "busy" /\ view = "settings" /\ what \in {"sign in", "sign out"},
         UNCHANGED <<gcloud, manager, dialogs, chosen, identity, unsure, lateList>>
  PROVE  JobsApart' /\ GotIsKept' /\ Waits' /\ Agreed' /\ NothingOfNobody'
<1>t. AccountTypeOK /\ JobsApart /\ GotIsKept /\ Waits /\ Agreed /\ NothingOfNobody
  BY DEF AccountInv
<1>1. PICK k \in AccountJob : /\ jobs' = jobs \union {k}
                             /\ k.what = what /\ k.view = view /\ k.got = Unread
  BY DEF Starts
<1>2. JobsApart'
  <2>1. IsFiniteSet(jobs')
    BY <1>1, <1>t, FS_Singleton, FS_Union DEF JobsApart
  <2>2. \A i \in jobs' : i.got = Token => Lists(i)
    BY <1>1, <1>t, AccountsAssumption DEF JobsApart
  <2>3. \A i, m \in jobs' :
          i.what = "check" /\ m.what = "check" /\ i.view = m.view => i = m
    BY <1>1, <1>t DEF JobsApart
  <2>4. ~changesCrossed' => \A i, m \in jobs' : IsChange(i) /\ IsChange(m) => i = m
    <3>1. CASE what \in {"list", "select"}
      BY <1>1, <1>t, <3>1 DEF JobsApart, IsChange
    <3>2. CASE what \notin {"list", "select"}
      BY <1>1, <1>t, <3>2 DEF JobsApart
    <3> QED
      BY <3>1, <3>2
  <2> QED
    BY <2>1, <2>2, <2>3, <2>4 DEF JobsApart, Lists, IsChange
<1>3. (\A v : Due(v)' = Due(v)) /\ Moved' = Moved
  BY <1>1 DEF Due, Moved, IsChange
<1>4. ~changesCrossed' => ~changesCrossed
  OBVIOUS
<1>5. GotIsKept'
  BY <1>1, <1>3, <1>4, <1>t DEF GotIsKept, Kept
<1>6. Waits'
  <2>1. settings'.shown = "busy" => \E j \in jobs' : IsChange(j) /\ j.view = "settings"
    BY <1>1, <1>t DEF Waits, IsChange
  <2>2. settings'.shown = "checking" => Due("settings")'
    BY <1>3, <1>t DEF Waits
  <2>3. Due("manager")' /\ ~identity'.seen => manager'.account = Nobody
    BY <1>3, <1>t DEF Waits
  <2> QED
    BY <2>1, <2>2, <2>3 DEF Waits, IsChange
<1>7. Agreed'
  BY <1>3, <1>4, <1>t DEF Agreed, Settled
<1>8. NothingOfNobody'
  BY <1>1, <1>t DEF NothingOfNobody, Listed, Lists
<1> QED
  BY <1>2, <1>5, <1>6, <1>7, <1>8


\* Everybody hears of a change, and nothing is left to hear.
LEMMA AnnounceKeeps ==
  ASSUME AccountInv, AccountChanged
  PROVE  JobsApart' /\ GotIsKept' /\ Waits' /\ Agreed' /\ NothingOfNobody'
<1>t. AccountTypeOK /\ JobsApart /\ GotIsKept /\ Waits /\ Agreed /\ NothingOfNobody
  BY DEF AccountInv
<1>1. PICK j \in jobs :
        \E account \in Anyone :
          /\ IsChange(j) /\ j.got # Unread /\ Announce(j, account)
          /\ j.what = "sign in" => account = gcloud
          /\ j.what = "sign out" => account = Nobody
  <2>1. gcloud \in Anyone /\ Nobody \in Anyone
    BY <1>t DEF AccountTypeOK, Anyone
  <2>2. CASE \E i \in Ended("sign in", "settings") : gcloud # Nobody /\ Announce(i, gcloud)
    BY <2>1, <2>2 DEF Ended, IsChange
  <2>3. CASE \E v \in Views : \E i \in Ended("sign out", v) : Announce(i, Nobody)
    BY <2>1, <2>3 DEF Ended, IsChange
  <2> QED
    BY <2>2, <2>3 DEF AccountChanged
<1>2. PICK account \in Anyone :
        /\ IsChange(j) /\ j.got # Unread /\ Announce(j, account)
        /\ j.what = "sign in" => account = gcloud
        /\ j.what = "sign out" => account = Nobody
  BY <1>1
<1>3. /\ settings' = Show(account) /\ manager' = ManagerOf(account)
      /\ identity' = [IdentityOf(account) EXCEPT !.seen = TRUE]
      /\ ListFor(account, {"manager", "identity"}, j)
      /\ lateList' = (lateList \/ (account = Nobody /\ ~Listed("manager")))
      /\ UNCHANGED <<gcloud, dialogs, chosen, changesCrossed>>
  BY <1>2 DEF Announce
<1> DEFINE views == IF account = Nobody THEN {} ELSE {"manager", "identity"}
<1>4. Answers(j, views)
  <2>1. {"manager", "identity"} \in SUBSET Views
    BY DEF Views
  <2> QED
    BY <1>3, <1>t, <2>1, JobsAnswer
<1>5. /\ JobsApart'
      /\ \A k : ~Lists(k) => (k \in jobs' <=> k \in jobs /\ k # j)
      /\ \A v : v \notin views /\ Listed(v) => Listed(v)'
  BY <1>3, <1>4, <1>t, JobAnswered
<1>6. ~changesCrossed => gcloud = account /\ ~\E k \in jobs' : IsChange(k)
  <2>1. ~changesCrossed => gcloud = account
    BY <1>2, <1>t DEF GotIsKept, Kept, IsChange
  <2>2. \A k : IsChange(k) => ~Lists(k)
    BY DEF IsChange, Lists
  <2>3. ~changesCrossed => ~\E k \in jobs' : IsChange(k)
    BY <1>2, <1>5, <1>t, <2>2 DEF JobsApart
  <2> QED
    BY <2>1, <2>3
<1>7. /\ settings'.shown = account /\ manager'.account = account
      /\ identity'.seen /\ (identity'.signedIn <=> account # Nobody)
      /\ identity'.signedIn = (account # Nobody)
  <2>1. settings'.shown = account
    BY <1>3 DEF Show
  <2>2. manager'.account = account
    BY <1>3, <1>t DEF ManagerOf, AccountTypeOK
  <2>3. CASE account = Nobody
    <3>1. identity'.seen /\ identity'.signedIn = FALSE
      BY <1>3, <1>t, <2>3 DEF IdentityOf, AccountTypeOK
    <3> QED
      BY <2>1, <2>2, <2>3, <3>1
  <2>4. CASE account # Nobody
    <3>1. identity'.seen /\ identity'.signedIn = TRUE
      BY <1>3, <1>t, <2>4 DEF IdentityOf, AccountTypeOK
    <3> QED
      BY <2>1, <2>2, <2>4, <3>1
  <2> QED
    BY <2>3, <2>4
<1>8. account \notin {"busy", "checking"}
  BY AccountsAssumption DEF Anyone
<1>9. GotIsKept'
  BY <1>3, <1>6, <1>7 DEF GotIsKept, Kept, IsChange
<1>10. Waits'
  BY <1>7, <1>8 DEF Waits
<1>11. Agreed'
  BY <1>3, <1>6, <1>7 DEF Agreed
<1>12. NothingOfNobody'
  <2>1. CASE account = Nobody
    <3>1. /\ manager' = [account |-> Nobody, projects |-> FALSE, root |-> FALSE, tree |-> FALSE]
          /\ ~identity'.projects
      BY <1>3, <1>t, <2>1 DEF ManagerOf, IdentityOf, AccountTypeOK
    <3>2. ~lateList' => Listed("manager")'
      BY <1>3, <1>5, <2>1
    <3> QED
      BY <3>1, <3>2 DEF NothingOfNobody
  <2>2. CASE account # Nobody
    BY <1>7, <2>2 DEF NothingOfNobody
  <2> QED
    BY <2>1, <2>2
<1> QED
  BY <1>5, <1>9, <1>10, <1>11, <1>12


\* A view hears of its check, or does not.
LEMMA CheckKeeps ==
  ASSUME AccountInv, SettingsChecked \/ ManagerChecked \/ IdentityChecked \/ CheckFails
  PROVE  JobsApart' /\ GotIsKept' /\ Waits' /\ Agreed' /\ NothingOfNobody'
<1>t. AccountTypeOK /\ JobsApart /\ GotIsKept /\ Waits /\ Agreed /\ NothingOfNobody
  BY DEF AccountInv
<1>g. UNCHANGED <<gcloud, dialogs, chosen, changesCrossed, lateList>>
  BY DEF SettingsChecked, ManagerChecked, IdentityChecked, CheckFails
<1>h. /\ identity.seen \in BOOLEAN /\ identity.signedIn \in BOOLEAN
      /\ identity.projects \in BOOLEAN
  BY <1>t DEF AccountTypeOK
<1>1. ASSUME NEW j \in jobs, j.what = "check", NEW views, Answers(j, views),
             "manager" \notin views \/ manager'.account # Nobody, identity'.seen = identity.seen
      PROVE  /\ JobsApart' /\ GotIsKept' /\ Moved' = Moved
             /\ ~Due(j.view)' /\ \A v : v # j.view => Due(v)' = Due(v)
             /\ Listed("manager") => Listed("manager")' \/ manager'.account # Nobody
             /\ (\E k \in jobs : IsChange(k) /\ k.view = "settings") =>
                  \E k \in jobs' : IsChange(k) /\ k.view = "settings"
  <2>1. ~IsChange(j)
    BY <1>1 DEF IsChange
  <2> QED
    BY <1>1, <1>g, <2>1, AnsweredKeeps
<1>2. ASSUME NEW j \in jobs, j.what = "check", j.got # Unread
      PROVE  /\ j.got \in Anyone
             /\ ~changesCrossed /\ ~Moved /\ ~identity.seen => j.got = gcloud
  <2>1. j.got # Token
    BY <1>2, <1>t DEF JobsApart, Lists
  <2> QED
    BY <1>2, <1>t, <2>1 DEF GotIsKept, Kept, AccountTypeOK, AccountJob
<1>3. CASE SettingsChecked
  <2>1. PICK j \in jobs :
          /\ j.what = "check" /\ j.view = "settings"
          /\ settings' = Show(IF j.got = Unread THEN Nobody ELSE j.got)
          /\ unsure' = IF j.got # Unread /\ ~identity.seen
                         THEN unsure ELSE unsure \union {"settings"}
          /\ Forget(j) /\ UNCHANGED <<manager, identity>>
    BY <1>3 DEF SettingsChecked
  <2>2. Answers(j, {})
    BY <2>1, JobsForget
  <2>3. /\ JobsApart' /\ GotIsKept' /\ Moved' = Moved
        /\ ~Due("settings")' /\ \A v : v # "settings" => Due(v)' = Due(v)
        /\ Listed("manager") => Listed("manager")' \/ manager'.account # Nobody
    BY <1>1, <2>1, <2>2
  <2>4. settings'.shown = IF j.got = Unread THEN Nobody ELSE j.got
    BY <2>1 DEF Show
  <2>5. settings'.shown \notin {"busy", "checking"}
    BY <1>2, <2>1, <2>4, AccountsAssumption DEF Anyone
  <2>6. Waits'
    BY <1>t, <2>1, <2>3, <2>5 DEF Waits
  <2>7. Agreed'
    <3> SUFFICES ASSUME ~changesCrossed, ~Moved
                 PROVE  /\ Settled("identity")' => identity'.signedIn = (gcloud # Nobody)
                        /\ Settled("settings")' => settings'.shown = gcloud
                        /\ Settled("manager")' => manager'.account = gcloud
      BY <1>g, <2>3 DEF Agreed
    <3>1. Settled("settings")' => j.got # Unread /\ ~identity.seen
      BY <2>1 DEF Settled
    <3>2. /\ Settled("identity")' => Settled("identity")
          /\ Settled("manager")' => Settled("manager")
      BY <2>1, <2>3 DEF Settled
    <3> QED
      BY <1>2, <1>t, <2>1, <2>4, <3>1, <3>2 DEF Agreed
  <2>8. NothingOfNobody'
    BY <1>g, <1>t, <2>1, <2>3 DEF NothingOfNobody
  <2> QED
    BY <2>3, <2>6, <2>7, <2>8
<1>4. CASE ManagerChecked
  <2>1. PICK j \in jobs :
          /\ j.what = "check" /\ j.view = "manager" /\ j.got # Unread
          /\ manager' = IF j.got = Nobody THEN manager ELSE ManagerOf(j.got)
          /\ ListFor(j.got, {"manager"}, j)
          /\ unsure' = IF identity.seen THEN unsure \union {"manager"} ELSE unsure
          /\ UNCHANGED <<settings, identity>>
    BY <1>4 DEF ManagerChecked, Ended
  <2>2. /\ j.got = Nobody => manager' = manager
        /\ j.got # Nobody => manager'.account = j.got
    BY <1>t, <2>1 DEF ManagerOf, AccountTypeOK
  <2>3. Answers(j, IF j.got = Nobody THEN {} ELSE {"manager"})
    <3>1. {"manager"} \in SUBSET Views
      BY DEF Views
    <3> QED
      BY <1>t, <2>1, <3>1, JobsAnswer
  <2>4. /\ JobsApart' /\ GotIsKept' /\ Moved' = Moved
        /\ ~Due("manager")' /\ \A v : v # "manager" => Due(v)' = Due(v)
        /\ Listed("manager") => Listed("manager")' \/ manager'.account # Nobody
        /\ (\E k \in jobs : IsChange(k) /\ k.view = "settings") =>
             \E k \in jobs' : IsChange(k) /\ k.view = "settings"
    BY <1>1, <2>1, <2>2, <2>3
  <2>5. Waits'
    BY <1>t, <2>1, <2>4 DEF Waits, IsChange
  <2>6. Agreed'
    <3> SUFFICES ASSUME ~changesCrossed, ~Moved
                 PROVE  /\ Settled("identity")' => Settled("identity")
                        /\ Settled("settings")' => Settled("settings")
                        /\ Settled("manager")' => manager'.account = gcloud
      BY <1>g, <1>t, <2>1, <2>4 DEF Agreed
    <3>1. ASSUME Settled("manager")' PROVE manager'.account = gcloud
      <4>1. ~identity.seen
        BY <2>1, <3>1 DEF Settled
      <4>2. j.got = gcloud
        BY <1>2, <2>1, <4>1
      <4>3. j.got = Nobody => manager.account = Nobody
        BY <1>t, <2>1, <4>1 DEF Waits, Due
      <4> QED
        BY <2>2, <4>2, <4>3
    <3> QED
      BY <2>1, <2>4, <3>1 DEF Settled
  <2>7. NothingOfNobody'
    BY <1>g, <1>t, <2>1, <2>2, <2>4 DEF NothingOfNobody
  <2> QED
    BY <2>4, <2>5, <2>6, <2>7
<1>5. CASE IdentityChecked
  <2>1. PICK j \in jobs :
          /\ j.what = "check" /\ j.view = "identity" /\ j.got # Unread
          /\ StartupAccount(j) /\ UNCHANGED <<settings, manager, unsure>>
    BY <1>5 DEF IdentityChecked, Ended
  <2>2. \E views : Answers(j, views) /\ "manager" \notin views
    <3>1. CASE identity.seen
      BY <2>1, <3>1, JobsForget DEF StartupAccount
    <3>2. CASE ~identity.seen
      <4>1. {"identity"} \in SUBSET Views
        BY DEF Views
      <4>2. Answers(j, IF j.got = Nobody THEN {} ELSE {"identity"})
        BY <1>t, <2>1, <3>2, <4>1, JobsAnswer DEF StartupAccount
      <4> QED
        BY <4>2
    <3> QED
      BY <3>1, <3>2
  <2>3. identity.seen => identity' = identity
    BY <2>1 DEF StartupAccount
  <2>4. ASSUME ~identity.seen
        PROVE  /\ identity'.seen = identity.seen
               /\ identity'.signedIn = (j.got # Nobody)
               /\ identity'.signedIn \/ ~identity'.projects
    <3>1. identity' = IdentityOf(j.got)
      BY <2>1, <2>4 DEF StartupAccount
    <3>2. CASE j.got = Nobody
      <4>1. identity'.seen = identity.seen /\ identity'.signedIn = FALSE /\ ~identity'.projects
        BY <1>t, <3>1, <3>2 DEF IdentityOf, AccountTypeOK
      <4> QED
        BY <3>2, <4>1
    <3>3. CASE j.got # Nobody
      <4>1. identity'.seen = identity.seen /\ identity'.signedIn = TRUE
        BY <1>t, <3>1, <3>3 DEF IdentityOf, AccountTypeOK
      <4> QED
        BY <3>3, <4>1
    <3> QED
      BY <3>2, <3>3
  <2>5. /\ JobsApart' /\ GotIsKept' /\ Moved' = Moved
        /\ ~Due("identity")' /\ \A v : v # "identity" => Due(v)' = Due(v)
        /\ Listed("manager") => Listed("manager")' \/ manager'.account # Nobody
        /\ (\E k \in jobs : IsChange(k) /\ k.view = "settings") =>
             \E k \in jobs' : IsChange(k) /\ k.view = "settings"
    BY <1>1, <2>1, <2>2, <2>3, <2>4
  <2>6. Waits'
    BY <1>t, <2>1, <2>3, <2>4, <2>5 DEF Waits, IsChange
  <2>7. Agreed'
    <3> SUFFICES ASSUME ~changesCrossed, ~Moved
                 PROVE  /\ Settled("identity")' => identity'.signedIn = (gcloud # Nobody)
                        /\ Settled("settings")' => Settled("settings")
                        /\ Settled("manager")' => Settled("manager")
      BY <1>g, <1>t, <2>1, <2>5 DEF Agreed
    <3>1. CASE identity.seen
      BY <1>t, <2>1, <2>3, <2>5, <3>1 DEF Agreed, Settled
    <3>2. CASE ~identity.seen
      <4>1. identity'.signedIn = (gcloud # Nobody)
        BY <1>2, <2>1, <2>4, <3>2
      <4> QED
        BY <2>1, <2>4, <2>5, <3>2, <4>1 DEF Settled
    <3> QED
      BY <3>1, <3>2
  <2>8. NothingOfNobody'
    BY <1>g, <1>t, <2>1, <2>3, <2>4, <2>5 DEF NothingOfNobody
  <2> QED
    BY <2>5, <2>6, <2>7, <2>8
<1>6. CASE CheckFails
  <2>1. PICK j \in jobs :
          /\ j.what = "check" /\ j.view # "settings"
          /\ unsure' = IF identity.seen THEN unsure ELSE unsure \union {j.view}
          /\ Forget(j) /\ UNCHANGED <<settings, manager, identity>>
    BY <1>6 DEF CheckFails, Failed
  <2>2. Answers(j, {})
    BY <2>1, JobsForget
  <2>3. /\ JobsApart' /\ GotIsKept' /\ Moved' = Moved
        /\ ~Due(j.view)' /\ \A v : v # j.view => Due(v)' = Due(v)
        /\ Listed("manager") => Listed("manager")' \/ manager'.account # Nobody
        /\ (\E k \in jobs : IsChange(k) /\ k.view = "settings") =>
             \E k \in jobs' : IsChange(k) /\ k.view = "settings"
    BY <1>1, <2>1, <2>2
  <2>4. Waits'
    BY <1>t, <2>1, <2>3 DEF Waits, IsChange
  <2>5. \A v : Settled(v)' => Settled(v)
    BY <2>1, <2>3 DEF Settled
  <2>6. Agreed'
    BY <1>g, <1>t, <2>1, <2>3, <2>5 DEF Agreed
  <2>7. NothingOfNobody'
    BY <1>g, <1>t, <2>1, <2>3 DEF NothingOfNobody
  <2> QED
    BY <2>3, <2>4, <2>6, <2>7
<1> QED
  BY <1>3, <1>4, <1>5, <1>6


\* A change fails, or projects have been listed.
LEMMA OtherAnswersKeep ==
  ASSUME AccountInv,
         ChangeFails \/ PopulateProjects \/ OpenSelection \/ PopulateGcpProjects \/ ListFails
  PROVE  JobsApart' /\ GotIsKept' /\ Waits' /\ Agreed' /\ NothingOfNobody'
<1>t. AccountTypeOK /\ JobsApart /\ GotIsKept /\ Waits /\ Agreed /\ NothingOfNobody
  BY DEF AccountInv
<1>1. CASE ChangeFails
  <2>1. PICK j \in jobs :
          /\ IsChange(j) /\ MayFail(j) /\ Forget(j)
          /\ settings' = IF j.view = "settings"
                           THEN [shown |-> "error", canSignIn |-> TRUE, canSignOut |-> TRUE]
                           ELSE settings
          /\ UNCHANGED <<gcloud, manager, dialogs, chosen, identity, changesCrossed, unsure,
                         lateList>>
    BY <1>1 DEF ChangeFails, Failed, IsChange
  <2>2. Answers(j, {})
    BY <2>1, JobsForget
  <2>3. ~changesCrossed => j.got = Unread
    BY <2>1, <1>t DEF MayFail, IsChange, Lists, GotIsKept, Kept
  <2>4. j.what # "check"
    BY <2>1 DEF IsChange
  <2>5. /\ JobsApart' /\ (Listed("manager") => Listed("manager")')
        /\ ~changesCrossed => GotIsKept' /\ Moved' = Moved
        /\ \A v : Due(v)' = Due(v)
        /\ j.view # "settings" =>
             ((\E k \in jobs : IsChange(k) /\ k.view = "settings") =>
                \E k \in jobs' : IsChange(k) /\ k.view = "settings")
    BY <2>1, <2>2, <2>3, <2>4, AnsweredKeeps
  <2>6. GotIsKept'
    BY <2>1, <2>5 DEF GotIsKept
  <2>7. Waits'
    BY <1>t, <2>1, <2>5 DEF Waits, IsChange
  <2>8. Agreed'
    <3>1. \A v : Settled(v)' = Settled(v)
      BY <2>1, <2>5 DEF Settled
    <3>2. settings'.shown = settings.shown \/ settings'.shown = "error"
      BY <2>1
    <3> QED
      BY <1>t, <2>1, <2>5, <3>1, <3>2 DEF Agreed
  <2>9. NothingOfNobody'
    BY <1>t, <2>1, <2>5 DEF NothingOfNobody
  <2> QED
    BY <2>5, <2>6, <2>7, <2>8, <2>9
<1>2. ASSUME NEW j \in jobs, Lists(j), Forget(j), identity'.seen = identity.seen,
             UNCHANGED <<gcloud, changesCrossed, unsure, lateList>>, settings' = settings,
             identity'.signedIn = identity.signedIn, identity.signedIn \/ ~identity'.projects,
             manager'.account = manager.account, manager' = manager \/ ~Listed("manager")
      PROVE  JobsApart' /\ GotIsKept' /\ Waits' /\ Agreed' /\ NothingOfNobody'
  <2>1. Answers(j, {})
    BY <1>2, JobsForget
  <2>2. ~IsChange(j) /\ j.what # "check"
    BY <1>2 DEF IsChange, Lists
  <2>3. /\ JobsApart' /\ GotIsKept' /\ Moved' = Moved /\ (Listed("manager") => Listed("manager")')
        /\ \A v : Due(v)' = Due(v)
        /\ (\E k \in jobs : IsChange(k) /\ k.view = "settings") =>
             \E k \in jobs' : IsChange(k) /\ k.view = "settings"
    BY <1>2, <2>1, <2>2, AnsweredKeeps
  <2>4. Waits'
    BY <1>t, <1>2, <2>3 DEF Waits, IsChange
  <2>5. \A v : Settled(v)' = Settled(v)
    BY <1>2, <2>3 DEF Settled
  <2>6. Agreed'
    BY <1>t, <1>2, <2>3, <2>5 DEF Agreed
  <2>7. NothingOfNobody'
    BY <1>t, <1>2, <2>3 DEF NothingOfNobody
  <2> QED
    BY <2>3, <2>4, <2>6, <2>7
<1>3. CASE PopulateProjects
  <2>1. PICK j \in jobs : Lists(j) /\ j.view = "manager" /\ Forget(j)
    BY <1>3 DEF PopulateProjects, Ended, Lists
  <2>2. manager'.account = manager.account
    BY <1>3, <1>t DEF PopulateProjects, Applied, AccountTypeOK
  <2>3. ~Listed("manager")
    BY <2>1 DEF Listed
  <2>4. UNCHANGED <<gcloud, settings, identity, changesCrossed, unsure, lateList>>
    BY <1>3 DEF PopulateProjects
  <2> QED
    BY <1>2, <1>t, <2>1, <2>2, <2>3, <2>4 DEF NothingOfNobody
<1>4. CASE OpenSelection
  <2>1. PICK j \in jobs : Lists(j) /\ j.view = "manager" /\ Forget(j)
    BY <1>4 DEF OpenSelection, Ended, Lists
  <2>2. manager'.account = manager.account
    BY <1>4, <1>t DEF OpenSelection, AccountTypeOK
  <2>3. ~Listed("manager")
    BY <2>1 DEF Listed
  <2>4. UNCHANGED <<gcloud, settings, identity, changesCrossed, unsure, lateList>>
    BY <1>4 DEF OpenSelection
  <2> QED
    BY <1>2, <1>t, <2>1, <2>2, <2>3, <2>4 DEF NothingOfNobody
<1>5. CASE PopulateGcpProjects
  <2>1. PICK j \in jobs : Lists(j) /\ Forget(j)
    BY <1>5 DEF PopulateGcpProjects, Ended, Lists
  <2>2. /\ identity'.seen = identity.seen /\ identity'.signedIn = identity.signedIn
        /\ identity.signedIn \/ ~identity'.projects
    BY <1>5, <1>t DEF PopulateGcpProjects, AccountTypeOK, NothingOfNobody
  <2>3. UNCHANGED <<gcloud, settings, manager, changesCrossed, unsure, lateList>>
    BY <1>5 DEF PopulateGcpProjects
  <2> QED
    BY <1>2, <2>1, <2>2, <2>3
<1>6. CASE ListFails
  <2>1. PICK j \in jobs : Lists(j) /\ Forget(j)
    BY <1>6 DEF ListFails, Failed, Lists
  <2>2. UNCHANGED <<gcloud, settings, manager, identity, changesCrossed, unsure, lateList>>
    BY <1>6 DEF ListFails
  <2> QED
    BY <1>2, <1>t, <2>1, <2>2 DEF NothingOfNobody
<1> QED
  BY <1>1, <1>3, <1>4, <1>5, <1>6

LEMMA AccountUserKeeps ==
  ASSUME AccountInv, UserStep
  PROVE  JobsApart' /\ GotIsKept' /\ Waits' /\ Agreed' /\ NothingOfNobody'
<1>t. AccountTypeOK /\ JobsApart /\ GotIsKept /\ Waits /\ Agreed /\ NothingOfNobody
  BY DEF AccountInv
<1>v. "settings" \in Views /\ "manager" \in Views /\ "identity" \in Views
  BY DEF Views
<1>1. ASSUME NEW what \in {"sign in", "sign out"}, NEW view \in Views, Change(what, view),
             \/ settings'.shown = settings.shown
             \/ settings'.shown = "busy" /\ view = "settings"
      PROVE  JobsApart' /\ GotIsKept' /\ Waits' /\ Agreed' /\ NothingOfNobody'
  <2>1. Starts(what, view)
    BY <1>1, <1>t, JobsStart DEF Change
  <2> QED
    BY <1>1, <2>1, StartKeeps DEF Change
<1>2. CASE SignInClicked
  <2>1. Change("sign in", "settings") /\ settings'.shown = "busy"
    BY <1>2, <1>t DEF SignInClicked, AccountTypeOK
  <2> QED
    BY <1>1, <1>v, <2>1
<1>3. CASE SignOutClicked
  <2>1. Change("sign out", "settings") /\ settings'.shown = "busy"
    BY <1>3, <1>t DEF SignOutClicked, AccountTypeOK
  <2> QED
    BY <1>1, <1>v, <2>1
<1>4. CASE DoSignOut
  BY <1>1, <1>4, <1>v DEF DoSignOut
<1>5. CASE SelectProjectsClicked
  <2>1. Starts("select", "manager")
    BY <1>5, <1>t, <1>v, JobsStart DEF SelectProjectsClicked
  <2> QED
    BY <1>5, <1>v, <2>1, StartKeeps, <1>t DEF SelectProjectsClicked, AccountTypeOK
<1>6. CASE Refresh
  <2>1. Starts("list", "identity")
    BY <1>6, <1>t, <1>v, JobsStart DEF Refresh
  <2> QED
    BY <1>6, <1>v, <2>1, StartKeeps, <1>t DEF Refresh, AccountTypeOK
<1>7. CASE DialogAccepted \/ DialogRejected
  <2>1. UNCHANGED <<gcloud, settings, identity, jobs, changesCrossed, unsure, lateList>>
    BY <1>7 DEF DialogAccepted, DialogRejected
  <2>2. /\ manager'.account = manager.account /\ manager'.projects = manager.projects
        /\ manager'.tree \in {manager.tree, manager.projects, FALSE}
    BY <1>7, <1>t DEF DialogAccepted, DialogRejected, Applied, AccountTypeOK
  <2>3. JobsApart' /\ GotIsKept'
    BY <1>t, <2>1 DEF JobsApart, GotIsKept, Kept, Moved, IsChange, Lists
  <2>4. Waits'
    BY <1>t, <2>1, <2>2 DEF Waits, Due, IsChange
  <2>5. Agreed'
    BY <1>t, <2>1, <2>2 DEF Agreed, Settled, Due, Moved, IsChange
  <2>6. NothingOfNobody'
    BY <1>t, <2>1, <2>2 DEF NothingOfNobody, Listed, Lists
  <2> QED
    BY <2>3, <2>4, <2>5, <2>6
<1> QED
  BY <1>2, <1>3, <1>4, <1>5, <1>6, <1>7 DEF UserStep

LEMMA AccountInvKept == AccountInv /\ [AccountNext]_accountVars => AccountInv'
<1> SUFFICES ASSUME AccountInv, [AccountNext]_accountVars PROVE AccountInv'
  OBVIOUS
<1>1. AccountTypeOK'
  BY AccountNextType DEF AccountInv
<1>2. CASE AccountNext
  BY <1>1, <1>2, AskKeeps, AccountUserKeeps, AnnounceKeeps, CheckKeeps, OtherAnswersKeep
  DEF AccountNext, ViewStep, AccountInv
<1>3. CASE UNCHANGED accountVars
  BY <1>1, <1>3
  DEF accountVars, AccountInv, JobsApart, GotIsKept, Kept, Waits, Agreed, Settled, Due, Moved,
      NothingOfNobody, Listed, Lists, IsChange
<1> QED
  BY <1>2, <1>3

\* The type invariant of the account, its views and the jobs that are out.
THEOREM AccountTypeCorrect == AccountSpec => []AccountTypeOK
<1>1. AccountInv => AccountTypeOK
  BY DEF AccountInv
<1> QED
  BY <1>1, AccountInvKept, AccountInitInv, PTL DEF AccountSpec

(* In whatever order signing in and out, the first checks and the lists of *)
(* projects are asked for and answered, or fail, and for any number of     *)
(* accounts: the views come to agree with gcloud, and show no projects of  *)
(* an account that was signed out.                                         *)
THEOREM ViewsComeToAgree == AccountSpec => []AccountsAgree
<1>1. AccountInv => AccountsAgree
  <2> SUFFICES ASSUME AccountInv PROVE AccountsAgree
    OBVIOUS
  <2>1. QuietViewsAgree
    <3> SUFFICES ASSUME Quiet, ~changesCrossed PROVE QuietViewsAgree
      BY DEF QuietViewsAgree
    <3>1. ~Moved /\ \A v : ~Due(v)
      BY DEF Quiet, Moved, Due
    <3>2. settings.shown # "busy" /\ settings.shown # "checking"
      BY <3>1 DEF AccountInv, Waits, Quiet
    <3> QED
      BY <3>1, <3>2 DEF AccountInv, Agreed, Settled, QuietViewsAgree
  <2>2. NobodyHasNoProjects
    BY DEF AccountInv, NothingOfNobody, NobodyHasNoProjects
  <2> QED
    BY <2>1, <2>2 DEF AccountsAgree
<1> QED
  BY <1>1, AccountInvKept, AccountInitInv, PTL DEF AccountSpec
-----------------------------------------------------------------------------
(* MboxBrowser, for any queries, messages and events: the types, and that  *)
(* the tab shows what belongs to the query and the message chosen now.     *)

OpenJob == [kind |-> "open"]
IndexJob == [kind |-> "index"]
Hows == {"done", "error", "cancelled"}

(* The file is opened before it is indexed, and is indexed once; when that *)
(* fails the file is closed.                                               *)
IndexedOnce ==
  /\ OpenJob \in mailJobs => IndexJob \notin MailOut
  /\ \A i \in DOMAIN mailAnswers : mailAnswers[i].job = IndexJob =>
       /\ IndexJob \notin mailJobs
       /\ mailAnswers[i].how # "done" => file = "closed"
       /\ \A k \in DOMAIN mailAnswers : mailAnswers[k].job = IndexJob => k = i

(* A search of the present generation is of the query in the box, and has  *)
(* not been cancelled.                                                     *)
SearchesTold ==
  /\ timer => reader /\ ~mailClosed /\ bodies /\ query # Nothing
  /\ \A j \in MailOut : j.kind = "search" =>
       /\ j.generation <= generation
       /\ j.generation = generation => bodies /\ query = j.query
  /\ \A i \in DOMAIN mailAnswers :
       mailAnswers[i].job.kind = "search" /\ mailAnswers[i].how = "cancelled"
         => mailAnswers[i].job.generation # generation

MailInv == MailTypeOK /\ IndexedOnce /\ SearchesTold /\ MailboxFollowsUser

-----------------------------------------------------------------------------
(* Jobs and their answers.                                                 *)

\* The kind of a job tells what it has.
LEMMA MailJobKinds ==
  ASSUME NEW j \in MailJob
  PROVE  /\ j.kind \in {"open", "index", "search", "load"}
         /\ j.kind = "open" <=> j = OpenJob
         /\ j.kind = "index" <=> j = IndexJob
         /\ j.kind = "search" => j.generation \in Nat /\ j.query \in Queries
         /\ j.kind = "load" => j.message \in Messages
<1>1. CASE j \in [kind : {"open", "index"}]
  BY <1>1 DEF OpenJob, IndexJob
<1>2. CASE j \in [kind : {"search"}, generation : Nat, query : Queries]
  BY <1>2 DEF OpenJob, IndexJob
<1>3. CASE j \in [kind : {"load"}, id : Nat, message : Messages]
  BY <1>3 DEF OpenJob, IndexJob
<1> QED
  BY <1>1, <1>2, <1>3 DEF MailJob

LEMMA SeqElement ==
  ASSUME NEW S, NEW q \in Seq(S), NEW i \in DOMAIN q
  PROVE  q[i] \in S
  OBVIOUS

\* What is out are jobs, and what is answered was out.
LEMMA OutAreJobs ==
  ASSUME MailTypeOK
  PROVE  /\ MailOut \subseteq MailJob /\ mailJobs \subseteq MailOut
         /\ \A i \in DOMAIN mailAnswers : /\ mailAnswers[i].job \in MailOut
                                          /\ mailAnswers[i].how \in Hows
<1>1. \A i \in DOMAIN mailAnswers : mailAnswers[i] \in [job : MailJob, how : Hows]
  <2>1. mailAnswers \in Seq([job : MailJob, how : Hows])
    BY DEF MailTypeOK, Hows
  <2> QED
    BY <2>1, SeqElement
<1>2. \A i \in DOMAIN mailAnswers : mailAnswers[i].job \in MailJob /\ mailAnswers[i].how \in Hows
  BY <1>1
<1> QED
  BY <1>2 DEF MailTypeOK, MailOut

\* A job that has ended is out until its answer is taken.
LEMMA AnswerAdded ==
  ASSUME MailTypeOK, NEW j \in mailJobs, NEW how \in Hows, MailEnds(j, how)
  PROVE  /\ mailJobs' \subseteq MailJob
         /\ mailAnswers' \in Seq([job : MailJob, how : Hows])
         /\ MailOut' = MailOut
         /\ \A i \in DOMAIN mailAnswers' :
              \/ i \in DOMAIN mailAnswers /\ mailAnswers'[i] = mailAnswers[i]
              \/ i = Len(mailAnswers) + 1 /\ mailAnswers'[i] = [job |-> j, how |-> how]
<1> DEFINE n == Len(mailAnswers)
           a == [job |-> j, how |-> how]
<1>1. /\ mailAnswers \in Seq([job : MailJob, how : Hows]) /\ j \in MailJob
      /\ n \in Nat /\ DOMAIN mailAnswers = 1..n /\ a \in [job : MailJob, how : Hows]
      /\ mailAnswers' = Append(mailAnswers, a) /\ mailJobs' = mailJobs \ {j}
      /\ mailJobs \subseteq MailJob
  BY DEF MailTypeOK, MailEnds, Hows
<1> HIDE DEF a
<1>2. /\ mailAnswers' \in Seq([job : MailJob, how : Hows])
      /\ DOMAIN mailAnswers' = 1..(n + 1)
      /\ \A i \in 1..n : mailAnswers'[i] = mailAnswers[i]
      /\ mailAnswers'[n + 1] = a
  BY <1>1
<1> HIDE DEF n
<1>3. a.job = j
  BY DEF a
<1>4. \A i \in DOMAIN mailAnswers' : i \in DOMAIN mailAnswers \/ i = n + 1
  BY <1>1, <1>2
<1>5. \A i \in DOMAIN mailAnswers : i \in DOMAIN mailAnswers' /\ n + 1 \in DOMAIN mailAnswers'
  BY <1>1, <1>2
<1>6. n + 1 \in DOMAIN mailAnswers'
  BY <1>1, <1>2
<1>7. MailOut' = MailOut
  <2>1. MailOut \subseteq MailOut'
    <3> SUFFICES ASSUME NEW x \in MailOut PROVE x \in MailOut'
      OBVIOUS
    <3>1. CASE x = j
      BY <1>2, <1>3, <1>6, <3>1 DEF MailOut
    <3>2. CASE x # j /\ x \in mailJobs
      BY <1>1, <3>2 DEF MailOut
    <3>3. CASE \E i \in DOMAIN mailAnswers : x = mailAnswers[i].job
      BY <1>1, <1>2, <1>5, <3>3 DEF MailOut
    <3> QED
      BY <3>1, <3>2, <3>3 DEF MailOut
  <2>2. MailOut' \subseteq MailOut
    <3> SUFFICES ASSUME NEW x \in MailOut' PROVE x \in MailOut
      OBVIOUS
    <3>1. CASE x \in mailJobs'
      BY <1>1, <3>1 DEF MailOut
    <3>2. CASE \E i \in DOMAIN mailAnswers' : x = mailAnswers'[i].job
      BY <1>1, <1>2, <1>3, <1>4, <3>2 DEF MailOut
    <3> QED
      BY <3>1, <3>2 DEF MailOut
  <2> QED
    BY <2>1, <2>2
<1> QED
  BY <1>1, <1>2, <1>4, <1>7 DEF n, a

\* Taking an answer takes its job out, unless it was out twice.
LEMMA AnswerTaken ==
  ASSUME MailTypeOK, mailAnswers # <<>>,
         mailAnswers' = Tail(mailAnswers), mailJobs' = mailJobs
  PROVE  /\ mailAnswers' \in Seq([job : MailJob, how : Hows])
         /\ MailOut' \subseteq MailOut /\ MailOut \subseteq MailOut' \union {Head(mailAnswers).job}
         /\ Head(mailAnswers).job \in MailOut /\ Head(mailAnswers).how \in Hows
         /\ Head(mailAnswers) = mailAnswers[1] /\ 1 \in DOMAIN mailAnswers
         /\ \A i \in DOMAIN mailAnswers' :
              /\ i + 1 \in DOMAIN mailAnswers /\ i + 1 # 1
              /\ mailAnswers'[i] = mailAnswers[i + 1]
<1> DEFINE n == Len(mailAnswers)
<1>1. /\ mailAnswers \in Seq([job : MailJob, how : Hows])
      /\ n \in Nat \ {0} /\ DOMAIN mailAnswers = 1..n
      /\ Head(mailAnswers) = mailAnswers[1]
  BY DEF MailTypeOK, Hows
<1>2. /\ mailAnswers' \in Seq([job : MailJob, how : Hows])
      /\ DOMAIN mailAnswers' = 1..(n - 1)
      /\ \A i \in 1..(n - 1) : mailAnswers'[i] = mailAnswers[i + 1]
  BY <1>1
<1> HIDE DEF n
<1>3. \A i \in DOMAIN mailAnswers' :
        /\ i + 1 \in DOMAIN mailAnswers /\ i + 1 # 1
        /\ mailAnswers'[i] = mailAnswers[i + 1]
  BY <1>1, <1>2
<1>4. \A k \in DOMAIN mailAnswers :
        k # 1 => k - 1 \in DOMAIN mailAnswers' /\ mailAnswers'[k - 1] = mailAnswers[k]
  BY <1>1, <1>2
<1>5. MailOut' \subseteq MailOut
  BY <1>3 DEF MailOut
<1>6. MailOut \subseteq MailOut' \union {Head(mailAnswers).job}
  <2> SUFFICES ASSUME NEW x \in MailOut, x # Head(mailAnswers).job PROVE x \in MailOut'
    OBVIOUS
  <2>1. CASE x \in mailJobs
    BY <2>1 DEF MailOut
  <2>2. CASE \E k \in DOMAIN mailAnswers : x = mailAnswers[k].job
    <3>1. PICK k \in DOMAIN mailAnswers : x = mailAnswers[k].job
      BY <2>2
    <3>2. k # 1
      BY <1>1, <3>1
    <3> QED
      BY <1>4, <3>1, <3>2 DEF MailOut
  <2> QED
    BY <2>1, <2>2 DEF MailOut
<1>7. 1 \in DOMAIN mailAnswers
  BY <1>1
<1>8. Head(mailAnswers).job \in MailOut /\ Head(mailAnswers).how \in Hows
  BY <1>1, <1>7, OutAreJobs
<1> QED
  BY <1>1, <1>2, <1>3, <1>5, <1>6, <1>7, <1>8
-----------------------------------------------------------------------------
LEMMA MailInitInv == MailInit => MailInv
<1> SUFFICES ASSUME MailInit PROVE MailInv
  OBVIOUS
<1>1. /\ mailJobs = {OpenJob} /\ mailAnswers = <<>> /\ DOMAIN mailAnswers = {}
      /\ file = "unopened" /\ generation = 0 /\ matches = Nothing
      /\ preview = Nothing /\ selected = Nothing /\ query = Nothing /\ mailEvents = 0
  BY DEF MailInit, OpenJob
<1>2. /\ mailClosed \in BOOLEAN /\ reader \in BOOLEAN /\ bodies \in BOOLEAN
      /\ timer \in BOOLEAN /\ searching \in BOOLEAN /\ ~timer /\ ~searching
  BY Zenon DEF MailInit
<1>3. OpenJob \in MailJob /\ OpenJob.kind = "open" /\ IndexJob # OpenJob
  BY DEF MailJob, OpenJob, IndexJob
<1>4. MailOut = {OpenJob}
  BY <1>1 DEF MailOut
<1>5. mailAnswers \in Seq([job : MailJob, how : {"done", "error", "cancelled"}])
  BY <1>1
<1>6. MailTypeOK
  BY <1>1, <1>2, <1>3, <1>5, MailAssumption DEF MailTypeOK
<1>7. IndexedOnce
  BY <1>1, <1>3, <1>4 DEF IndexedOnce
<1>8. SearchesTold
  BY <1>1, <1>2, <1>3, <1>4 DEF SearchesTold
<1>9. MailboxFollowsUser
  BY <1>1, <1>2 DEF MailboxFollowsUser, FileAccounted, SearchIsCurrent, PreviewIsCurrent
<1> QED
  BY <1>6, <1>7, <1>8, <1>9 DEF MailInv

\* What a search and a load ask for are jobs.
LEMMA NewMailJobs ==
  ASSUME MailTypeOK
  PROVE  /\ OpenJob \in MailJob /\ IndexJob \in MailJob
         /\ \A q \in Queries :
              [kind |-> "search", generation |-> generation, query |-> q] \in MailJob
         /\ \A m \in Messages : [kind |-> "load", id |-> mailEvents, message |-> m] \in MailJob
  BY MailAssumption DEF MailTypeOK, MailJob, OpenJob, IndexJob

LEMMA MailNextType ==
  ASSUME MailTypeOK, SearchesTold, [MailNext]_mailVars
  PROVE  MailTypeOK'
<1> DEFINE EndedJobs == Seq([job : MailJob, how : {"done", "error", "cancelled"}])
<1>a. /\ mailJobs \subseteq MailJob /\ mailAnswers \in EndedJobs /\ generation \in Nat
      /\ generation + 1 \in Nat /\ mailEvents \in 0..MaxMailEvents
      /\ mailEvents < MaxMailEvents => mailEvents + 1 \in 0..MaxMailEvents
  BY MailAssumption DEF MailTypeOK
<1>b. /\ file \in {"unopened", "open", "closed"}
      /\ query \in Queries \union {Nothing} /\ matches \in Queries \union {Nothing}
      /\ selected \in Messages \union {Nothing} /\ preview \in Messages \union {Nothing}
      /\ mailClosed \in BOOLEAN /\ reader \in BOOLEAN /\ bodies \in BOOLEAN
      /\ timer \in BOOLEAN /\ searching \in BOOLEAN
  BY DEF MailTypeOK
<1>1. CASE QueryChanged
  <2>1. timer' \in BOOLEAN /\ searching' \in BOOLEAN /\ bodies' \in BOOLEAN
    BY <1>1, <1>b, Zenon DEF QueryChanged
  <2>2. /\ query' \in Queries \union {Nothing} /\ matches' = Nothing
        /\ generation' = generation + 1 /\ mailEvents < MaxMailEvents
        /\ mailEvents' = mailEvents + 1
    BY <1>1, <1>b DEF QueryChanged, MailEvent
  <2> QED
    BY <1>1, <1>a, <1>b, <2>1, <2>2 DEF QueryChanged, MailTypeOK
<1>2. CASE StartBodySearch
  <2>1. mailJobs' \subseteq MailJob
    BY <1>2, <1>a, <1>b, NewMailJobs DEF StartBodySearch, SearchesTold
  <2> QED
    BY <1>2, <1>a, <1>b, <2>1 DEF StartBodySearch, MailTypeOK
<1>3. CASE CurrentItemChanged
  <2>1. PICK m \in (Messages \union {Nothing}) \ {selected} :
          /\ selected' = m
          /\ preview' = IF m = Nothing THEN Nothing ELSE preview
          /\ mailJobs' = mailJobs \union
               {[kind |-> "load", id |-> mailEvents, message |-> x] : x \in {m} \ {Nothing}}
    BY <1>3 DEF CurrentItemChanged
  <2>2. mailJobs' \subseteq MailJob
    BY <1>a, <2>1, NewMailJobs
  <2>3. mailEvents < MaxMailEvents /\ mailEvents' = mailEvents + 1
    BY <1>3 DEF CurrentItemChanged, MailEvent
  <2> QED
    BY <1>3, <1>a, <1>b, <2>1, <2>2, <2>3 DEF CurrentItemChanged, MailTypeOK
<1>4. CASE CloseMailSession
  <2>1. mailClosed' = TRUE /\ timer' = FALSE /\ reader' = FALSE
    BY <1>4 DEF CloseMailSession
  <2> QED
    BY <1>4, <1>a, <1>b, <2>1 DEF CloseMailSession, MailTypeOK
<1>5. CASE MailPoolStep
  <2>1. /\ mailJobs' \subseteq MailJob
        /\ mailAnswers' \in EndedJobs
        /\ file' \in {"unopened", "open", "closed"}
    <3>1. ASSUME NEW j \in mailJobs, NEW how \in Hows, MailEnds(j, how)
          PROVE  mailJobs' \subseteq MailJob /\ mailAnswers' \in EndedJobs
      BY <3>1, AnswerAdded DEF Hows
    <3>2. CASE OpenFile
      <4>1. PICK j \in mailJobs :
              \/ /\ file' = "open" /\ mailJobs' = (mailJobs \ {j}) \union {IndexJob}
                 /\ UNCHANGED mailAnswers
              \/ MailEnds(j, "error") /\ UNCHANGED file
        BY <3>2 DEF OpenFile, IndexJob
      <4> QED
        BY <1>a, <1>b, <3>1, <4>1, NewMailJobs DEF Hows
    <3>3. CASE IndexFails
      BY <3>1, <3>3 DEF IndexFails, Hows
    <3>4. CASE Indexed \/ SearchEnds \/ LoadEnds
      BY <1>b, <3>1, <3>4 DEF Indexed, SearchEnds, LoadEnds, Hows
    <3> QED
      BY <1>5, <3>2, <3>3, <3>4 DEF MailPoolStep
  <2>2. MailPoolFrame
    BY <1>5 DEF MailPoolStep, OpenFile, IndexFails, Indexed, SearchEnds, LoadEnds
  <2> QED
    BY <1>a, <1>b, <2>1, <2>2 DEF MailPoolFrame, MailTypeOK
<1>6. CASE MailAnswerStep
  <2>1. /\ mailAnswers # <<>> /\ mailAnswers' = Tail(mailAnswers) /\ mailJobs' = mailJobs
        /\ UNCHANGED <<mailClosed, query, bodies, generation, timer, selected, mailEvents>>
    BY <1>6 DEF MailAnswerStep, Loaded, LoadError, SearchAnswered, DetailAnswered, TakesMail
  <2>2. mailAnswers' \in EndedJobs /\ Head(mailAnswers).job \in MailJob
    BY <2>1, AnswerTaken, OutAreJobs DEF Hows
  <2>3. CASE Loaded
    <3>1. reader' \in BOOLEAN
      BY <2>3, Zenon DEF Loaded
    <3> QED
      BY <1>a, <1>b, <2>1, <2>2, <2>3, <3>1 DEF Loaded, MailTypeOK
  <2>4. CASE LoadError
    BY <1>a, <1>b, <2>1, <2>2, <2>4 DEF LoadError, MailTypeOK
  <2>5. CASE SearchAnswered
    <3>1. searching' \in BOOLEAN
      BY <2>5, Zenon DEF SearchAnswered
    <3>2. Head(mailAnswers).job.query \in Queries
      BY <2>2, <2>5, MailJobKinds DEF SearchAnswered, TakesMail
    <3>3. matches' \in Queries \union {Nothing}
      BY <1>b, <2>5, <3>2 DEF SearchAnswered
    <3> QED
      BY <1>a, <1>b, <2>1, <2>2, <2>5, <3>1, <3>3 DEF SearchAnswered, MailTypeOK
  <2>6. CASE DetailAnswered
    <3>1. Head(mailAnswers).job.message \in Messages
      BY <2>2, <2>6, MailJobKinds DEF DetailAnswered, TakesMail
    <3>2. preview' \in Messages \union {Nothing}
      BY <1>b, <2>6, <3>1 DEF DetailAnswered
    <3> QED
      BY <1>a, <1>b, <2>1, <2>2, <2>6, <3>2 DEF DetailAnswered, MailTypeOK
  <2> QED
    BY <1>6, <2>3, <2>4, <2>5, <2>6 DEF MailAnswerStep
<1>7. CASE UNCHANGED mailVars
  BY <1>7 DEF mailVars, MailTypeOK
<1> QED
  BY <1>1, <1>2, <1>3, <1>4, <1>5, <1>6, <1>7 DEF MailNext, MailUserStep
-----------------------------------------------------------------------------
\* A job of another kind changes nothing for the file.
LEMMA FileUntouched ==
  ASSUME MailInv, mailAnswers' = mailAnswers, file' = file, reader' = reader,
         OpenJob \in mailJobs' <=> OpenJob \in mailJobs,
         IndexJob \in mailJobs' <=> IndexJob \in mailJobs
  PROVE  IndexedOnce' /\ FileAccounted'
<1>1. IndexJob \in MailOut' <=> IndexJob \in MailOut
  BY DEF MailOut
<1> QED
  BY <1>1 DEF MailInv, IndexedOnce, MailboxFollowsUser, FileAccounted, IndexJob

\* A job that ends stays out; one that indexed, and failed, has closed the file.
LEMMA IndexEnds ==
  ASSUME MailInv, NEW j \in mailJobs, NEW how \in Hows, MailEnds(j, how),
         file' \in {file, "closed"}, reader' = reader,
         j = IndexJob /\ how # "done" => file' = "closed"
  PROVE  IndexedOnce' /\ FileAccounted'
<1> DEFINE n == Len(mailAnswers)
<1>1. /\ MailOut' = MailOut
      /\ \A i \in DOMAIN mailAnswers' :
           \/ i \in DOMAIN mailAnswers /\ mailAnswers'[i] = mailAnswers[i]
           \/ i = n + 1 /\ mailAnswers'[i] = [job |-> j, how |-> how]
  BY AnswerAdded DEF MailInv
<1> HIDE DEF n
<1>2. mailJobs' = mailJobs \ {j} /\ mailJobs \subseteq MailOut
  BY OutAreJobs DEF MailEnds, MailInv
<1>3. FileAccounted'
  BY <1>1 DEF MailInv, MailboxFollowsUser, FileAccounted, IndexJob
<1>4. IndexedOnce'
  <2>1. OpenJob \in mailJobs' => IndexJob \notin MailOut'
    BY <1>1, <1>2 DEF MailInv, IndexedOnce
  <2>2. ASSUME NEW i \in DOMAIN mailAnswers', mailAnswers'[i].job = IndexJob
        PROVE  /\ IndexJob \notin mailJobs'
               /\ mailAnswers'[i].how # "done" => file' = "closed"
               /\ \A k \in DOMAIN mailAnswers' : mailAnswers'[k].job = IndexJob => k = i
    <3>1. CASE j = IndexJob
      <4>1. \A k \in DOMAIN mailAnswers : mailAnswers[k].job # IndexJob
        BY <3>1 DEF MailInv, IndexedOnce
      <4>2. \A k \in DOMAIN mailAnswers' : mailAnswers'[k].job = IndexJob =>
              k = n + 1 /\ mailAnswers'[k] = [job |-> j, how |-> how]
        BY <1>1, <4>1
      <4> QED
        BY <1>2, <2>2, <3>1, <4>2
    <3>2. CASE j # IndexJob
      <4>1. \A k \in DOMAIN mailAnswers' : mailAnswers'[k].job = IndexJob =>
              k \in DOMAIN mailAnswers /\ mailAnswers'[k] = mailAnswers[k]
        BY <1>1, <3>2
      <4> QED
        BY <1>2, <2>2, <3>2, <4>1 DEF MailInv, IndexedOnce
    <3> QED
      BY <3>1, <3>2
  <2> QED
    BY <2>1, <2>2 DEF IndexedOnce
<1> QED
  BY <1>3, <1>4

LEMMA FileStaysAccounted == MailInv /\ MailNext => IndexedOnce' /\ FileAccounted'
<1> SUFFICES ASSUME MailInv, MailNext PROVE IndexedOnce' /\ FileAccounted'
  OBVIOUS
<1>t. MailTypeOK
  BY DEF MailInv
<1>k. \A j \in mailJobs : /\ j.kind = "open" <=> j = OpenJob
                          /\ j.kind = "index" <=> j = IndexJob
  BY <1>t, MailJobKinds DEF MailTypeOK
<1>1. CASE QueryChanged
  BY <1>1, FileUntouched DEF QueryChanged
<1>2. CASE StartBodySearch
  <2>1. [kind |-> "search", generation |-> generation, query |-> query] \notin {OpenJob, IndexJob}
    BY DEF OpenJob, IndexJob
  <2> QED
    BY <1>2, <2>1, FileUntouched DEF StartBodySearch
<1>3. CASE CurrentItemChanged
  <2>1. \A m : [kind |-> "load", id |-> mailEvents, message |-> m] \notin {OpenJob, IndexJob}
    BY DEF OpenJob, IndexJob
  <2> QED
    BY <1>3, <2>1, FileUntouched DEF CurrentItemChanged
<1>4. CASE CloseMailSession
  <2>1. /\ mailJobs' = mailJobs /\ mailAnswers' = mailAnswers /\ reader' = FALSE
        /\ file' = IF reader THEN "closed" ELSE file
    BY <1>4 DEF CloseMailSession
  <2>2. MailOut' = MailOut
    BY <2>1 DEF MailOut
  <2>3. FileAccounted'
    BY <2>1, <2>2 DEF MailInv, MailboxFollowsUser, FileAccounted, IndexJob
  <2>4. IndexedOnce'
    BY <2>1, <2>2 DEF MailInv, IndexedOnce
  <2> QED
    BY <2>3, <2>4
<1>5. CASE OpenFile
  <2>1. PICK j \in mailJobs :
          /\ j.kind = "open"
          /\ \/ /\ file' = "open" /\ mailJobs' = (mailJobs \ {j}) \union {IndexJob}
                /\ UNCHANGED mailAnswers
             \/ MailEnds(j, "error") /\ UNCHANGED file
          /\ reader' = reader
    BY <1>5 DEF OpenFile, MailPoolFrame, IndexJob
  <2>2. j = OpenJob /\ IndexJob # OpenJob
    BY <1>k, <2>1 DEF OpenJob, IndexJob
  <2>3. CASE MailEnds(j, "error") /\ UNCHANGED file
    BY <2>1, <2>2, <2>3, IndexEnds DEF Hows
  <2>4. CASE /\ file' = "open" /\ mailJobs' = (mailJobs \ {j}) \union {IndexJob}
             /\ UNCHANGED mailAnswers
    <3>1. OpenJob \notin mailJobs' /\ IndexJob \in MailOut'
      BY <2>2, <2>4 DEF MailOut
    <3>2. IndexJob \notin MailOut
      BY <2>2 DEF MailInv, IndexedOnce
    <3>3. \A i \in DOMAIN mailAnswers' : mailAnswers'[i].job # IndexJob
      BY <2>4, <3>2 DEF MailOut
    <3> QED
      BY <3>1, <3>3 DEF IndexedOnce, FileAccounted, IndexJob
  <2> QED
    BY <2>1, <2>3, <2>4
<1>6. CASE IndexFails
  <2>1. PICK j \in mailJobs :
          /\ MailEnds(j, "error") \/ MailEnds(j, "cancelled")
          /\ file' = "closed" /\ reader' = reader
    BY <1>6 DEF IndexFails, MailPoolFrame
  <2> QED
    BY <2>1, IndexEnds DEF Hows
<1>7. CASE Indexed
  <2>1. PICK j \in mailJobs : MailEnds(j, "done") /\ file' = file /\ reader' = reader
    BY <1>7 DEF Indexed, MailPoolFrame
  <2> QED
    BY <2>1, IndexEnds DEF Hows
<1>8. CASE SearchEnds \/ LoadEnds
  <2>1. PICK j \in mailJobs : /\ j.kind \in {"search", "load"}
                              /\ \E how \in Hows : MailEnds(j, how)
                              /\ file' = file /\ reader' = reader
    BY <1>8 DEF SearchEnds, LoadEnds, MailPoolFrame, Hows
  <2>2. j # IndexJob
    BY <1>k, <2>1
  <2> QED
    BY <2>1, <2>2, IndexEnds
<1>9. CASE MailAnswerStep
  <2> DEFINE a == Head(mailAnswers)
  <2>1. mailAnswers # <<>> /\ mailAnswers' = Tail(mailAnswers) /\ mailJobs' = mailJobs
    BY <1>9 DEF MailAnswerStep, Loaded, LoadError, SearchAnswered, DetailAnswered, TakesMail
  <2>2. /\ MailOut' \subseteq MailOut /\ MailOut \subseteq MailOut' \union {a.job}
        /\ a.job \in MailJob /\ a = mailAnswers[1] /\ 1 \in DOMAIN mailAnswers
        /\ \A i \in DOMAIN mailAnswers' :
             /\ i + 1 \in DOMAIN mailAnswers /\ i + 1 # 1
             /\ mailAnswers'[i] = mailAnswers[i + 1]
    BY <1>t, <2>1, AnswerTaken, OutAreJobs
  <2>3. file' \in {file, "closed"}
    BY <1>9 DEF MailAnswerStep, Loaded, LoadError, SearchAnswered, DetailAnswered
  <2>4. IndexedOnce'
    <3>1. OpenJob \in mailJobs' => IndexJob \notin MailOut'
      BY <2>1, <2>2 DEF MailInv, IndexedOnce
    <3>2. ASSUME NEW i \in DOMAIN mailAnswers', mailAnswers'[i].job = IndexJob
          PROVE  /\ IndexJob \notin mailJobs'
                 /\ mailAnswers'[i].how # "done" => file' = "closed"
                 /\ \A k \in DOMAIN mailAnswers' : mailAnswers'[k].job = IndexJob => k = i
      <4>1. i + 1 \in DOMAIN mailAnswers /\ mailAnswers[i + 1] = mailAnswers'[i]
        BY <2>2
      <4>2. /\ IndexJob \notin mailJobs
            /\ mailAnswers[i + 1].how # "done" => file = "closed"
            /\ \A k \in DOMAIN mailAnswers : mailAnswers[k].job = IndexJob => k = i + 1
        BY <3>2, <4>1 DEF MailInv, IndexedOnce
      <4>3. ASSUME NEW k \in DOMAIN mailAnswers', mailAnswers'[k].job = IndexJob PROVE k = i
        <5>1. k + 1 = i + 1
          BY <2>2, <4>2, <4>3
        <5>2. k \in Int /\ i \in Int
          <6>1. mailAnswers' \in Seq([job : MailJob, how : Hows])
            BY <1>t, <2>1, AnswerTaken
          <6> QED
            BY <6>1
        <5> QED
          BY <5>1, <5>2
      <4> QED
        BY <2>1, <2>3, <4>1, <4>2, <4>3
    <3> QED
      BY <3>1, <3>2 DEF IndexedOnce
  <2>5. FileAccounted'
    <3>1. CASE Loaded
      BY <3>1, Zenon DEF Loaded, FileAccounted
    <3>2. CASE LoadError
      <4>1. a.job = IndexJob => file = "closed"
        BY <2>2, <3>2 DEF MailInv, IndexedOnce, LoadError
      <4>2. file' = file /\ reader' = reader
        BY <3>2 DEF LoadError
      <4> QED
        BY <2>2, <4>1, <4>2 DEF MailInv, MailboxFollowsUser, FileAccounted, IndexJob
    <3>3. CASE SearchAnswered \/ DetailAnswered
      <4>1. a.job # IndexJob
        BY <2>2, <3>3 DEF SearchAnswered, DetailAnswered, TakesMail, IndexJob
      <4>2. file' = file /\ reader' = reader
        BY <3>3 DEF SearchAnswered, DetailAnswered
      <4> QED
        BY <2>2, <4>1, <4>2 DEF MailInv, MailboxFollowsUser, FileAccounted, IndexJob
    <3> QED
      BY <1>9, <3>1, <3>2, <3>3 DEF MailAnswerStep
  <2> QED
    BY <2>4, <2>5
<1> QED
  BY <1>1, <1>2, <1>3, <1>4, <1>5, <1>6, <1>7, <1>8, <1>9
     DEF MailNext, MailUserStep, MailPoolStep
-----------------------------------------------------------------------------
\* A step of the pool's threads loses no job, and the widgets stay as they are;
\* what ends, ends as it may.
LEMMA PoolKeepsOut ==
  ASSUME MailTypeOK, MailPoolStep
  PROVE  /\ MailPoolFrame /\ MailOut \subseteq MailOut' \union {OpenJob}
         /\ \A j \in MailOut' : j \in MailOut \/ j = IndexJob
         /\ \A i \in DOMAIN mailAnswers' :
              \/ i \in DOMAIN mailAnswers /\ mailAnswers'[i] = mailAnswers[i]
              \/ mailAnswers'[i].job.kind = "search" /\ mailAnswers'[i].how = "cancelled"
                   => mailAnswers'[i].job.generation # generation
<1>1. MailPoolFrame
  BY DEF MailPoolStep, OpenFile, IndexFails, Indexed, SearchEnds, LoadEnds
<1>2. ASSUME NEW j \in mailJobs, NEW how \in Hows, MailEnds(j, how),
             j.kind = "search" /\ how = "cancelled" => j.generation # generation
      PROVE  /\ MailOut' = MailOut
             /\ \A i \in DOMAIN mailAnswers' :
                  \/ i \in DOMAIN mailAnswers /\ mailAnswers'[i] = mailAnswers[i]
                  \/ mailAnswers'[i].job.kind = "search" /\ mailAnswers'[i].how = "cancelled"
                       => mailAnswers'[i].job.generation # generation
  BY <1>2, AnswerAdded
<1>3. CASE OpenFile
  <2>1. PICK j \in mailJobs :
          /\ j.kind = "open"
          /\ \/ mailJobs' = (mailJobs \ {j}) \union {IndexJob} /\ UNCHANGED mailAnswers
             \/ MailEnds(j, "error")
    BY <1>3 DEF OpenFile, IndexJob
  <2>2. CASE MailEnds(j, "error")
    BY <1>1, <1>2, <2>1, <2>2 DEF Hows
  <2>3. CASE mailJobs' = (mailJobs \ {j}) \union {IndexJob} /\ UNCHANGED mailAnswers
    <3>1. j = OpenJob
      BY <2>1, MailJobKinds DEF MailTypeOK
    <3>2. MailOut \subseteq MailOut' \union {OpenJob}
      BY <2>3, <3>1 DEF MailOut
    <3>3. \A x \in MailOut' : x \in MailOut \/ x = IndexJob
      BY <2>3 DEF MailOut
    <3> QED
      BY <1>1, <2>3, <3>2, <3>3
  <2> QED
    BY <2>1, <2>2, <2>3
<1>4. CASE IndexFails \/ Indexed \/ SearchEnds \/ LoadEnds
  <2>1. PICK j \in mailJobs, how \in Hows :
          /\ MailEnds(j, how)
          /\ j.kind = "search" /\ how = "cancelled" => j.generation # generation
    BY <1>4 DEF IndexFails, Indexed, SearchEnds, LoadEnds, Hows
  <2> QED
    BY <1>1, <1>2, <2>1
<1> QED
  BY <1>3, <1>4 DEF MailPoolStep

\* What an answer that is taken leaves.
LEMMA TakenLeaves ==
  ASSUME MailTypeOK, MailAnswerStep
  PROVE  /\ mailAnswers # <<>> /\ Head(mailAnswers) = mailAnswers[1] /\ 1 \in DOMAIN mailAnswers
         /\ Head(mailAnswers).job \in MailOut /\ Head(mailAnswers).job \in MailJob
         /\ MailOut' \subseteq MailOut
         /\ MailOut \subseteq MailOut' \union {Head(mailAnswers).job}
         /\ \A i \in DOMAIN mailAnswers' : /\ i + 1 \in DOMAIN mailAnswers
                                           /\ mailAnswers'[i] = mailAnswers[i + 1]
         /\ UNCHANGED <<mailClosed, query, bodies, generation, timer, selected>>
         /\ reader \/ mailClosed => reader' \/ mailClosed
<1>1. /\ mailAnswers # <<>> /\ mailAnswers' = Tail(mailAnswers) /\ mailJobs' = mailJobs
      /\ UNCHANGED <<mailClosed, query, bodies, generation, timer, selected>>
  BY DEF MailAnswerStep, Loaded, LoadError, SearchAnswered, DetailAnswered, TakesMail
<1>2. reader \/ mailClosed => reader' \/ mailClosed
  BY Zenon DEF MailAnswerStep, Loaded, LoadError, SearchAnswered, DetailAnswered
<1> QED
  BY <1>1, <1>2, AnswerTaken, OutAreJobs

\* The searches stay of the query in the box, and cancelled ones are past.
LEMMA SearchesStayTold == MailInv /\ MailNext => SearchesTold'
<1> SUFFICES ASSUME MailInv, MailNext PROVE SearchesTold'
  OBVIOUS
<1>t. MailTypeOK /\ SearchesTold /\ generation \in Nat
  BY DEF MailInv, MailTypeOK
<1>g. /\ \A j \in MailOut : j.kind = "search" => j.generation \in Nat
      /\ \A i \in DOMAIN mailAnswers : mailAnswers[i].job \in MailOut
  BY <1>t, OutAreJobs, MailJobKinds
<1>1. ASSUME generation' = generation + 1, mailJobs' = mailJobs, mailAnswers' = mailAnswers,
             timer' => reader' /\ ~mailClosed' /\ bodies' /\ query' # Nothing
      PROVE  SearchesTold'
  <2>1. MailOut' = MailOut
    BY <1>1 DEF MailOut
  <2>2. \A j \in MailOut' : j.kind = "search" => j.generation < generation'
    BY <1>1, <1>t, <1>g, <2>1 DEF SearchesTold
  <2>3. \A j \in MailOut' : j.kind = "search" =>
          j.generation <= generation' /\ j.generation # generation'
    BY <1>1, <1>t, <1>g, <2>1, <2>2
  <2>4. \A i \in DOMAIN mailAnswers' : mailAnswers'[i].job \in MailOut'
    BY <1>1, <1>g, <2>1
  <2> QED
    BY <1>1, <2>3, <2>4 DEF SearchesTold
<1>2. CASE QueryChanged
  <2>1. timer' => reader' /\ ~mailClosed' /\ bodies' /\ query' # Nothing
    BY <1>2, Zenon DEF QueryChanged, MailEvent
  <2> QED
    BY <1>1, <1>2, <2>1 DEF QueryChanged
<1>3. CASE CloseMailSession
  BY <1>1, <1>3 DEF CloseMailSession
<1>4. CASE StartBodySearch
  <2> DEFINE new == [kind |-> "search", generation |-> generation, query |-> query]
  <2>1. /\ mailJobs' = mailJobs \union {new} /\ mailAnswers' = mailAnswers
        /\ generation' = generation /\ query' = query /\ timer' = FALSE /\ bodies
    BY <1>4, <1>t DEF StartBodySearch, SearchesTold
  <2>b. bodies'
    BY <1>4, <2>1, Zenon DEF StartBodySearch
  <2>2. \A j \in MailOut' : j \in MailOut \/ j = new
    BY <2>1 DEF MailOut
  <2>3. new.generation = generation /\ new.query = query
    OBVIOUS
  <2> HIDE DEF new
  <2>4. \A j \in MailOut' : j.kind = "search" =>
          /\ j.generation <= generation'
          /\ j.generation = generation' => bodies' /\ query' = j.query
    BY <1>t, <2>1, <2>b, <2>2, <2>3 DEF SearchesTold
  <2> QED
    BY <1>t, <2>1, <2>4 DEF SearchesTold
<1>5. CASE CurrentItemChanged
  <2>1. PICK m : mailJobs' = mailJobs \union
          {[kind |-> "load", id |-> mailEvents, message |-> x] : x \in {m} \ {Nothing}}
    BY <1>5 DEF CurrentItemChanged
  <2>2. /\ mailAnswers' = mailAnswers
        /\ UNCHANGED <<mailClosed, query, bodies, generation, timer, reader>>
    BY <1>5 DEF CurrentItemChanged, MailEvent
  <2>3. \A j \in MailOut' : j.kind = "search" => j \in MailOut
    BY <2>1, <2>2 DEF MailOut
  <2> QED
    BY <1>t, <2>2, <2>3 DEF SearchesTold
<1>6. CASE MailPoolStep
  <2>1. UNCHANGED <<mailClosed, query, bodies, generation, timer, reader>>
    BY <1>6, <1>t, PoolKeepsOut DEF MailPoolFrame
  <2>2. \A j \in MailOut' : j.kind = "search" => j \in MailOut
    BY <1>6, <1>t, PoolKeepsOut DEF IndexJob
  <2>3. \A i \in DOMAIN mailAnswers' :
          mailAnswers'[i].job.kind = "search" /\ mailAnswers'[i].how = "cancelled"
            => mailAnswers'[i].job.generation # generation
    BY <1>6, <1>t, PoolKeepsOut DEF SearchesTold
  <2> QED
    BY <1>t, <2>1, <2>2, <2>3 DEF SearchesTold
<1>7. CASE MailAnswerStep
  <2>1. timer => reader'
    BY <1>7, <1>t, TakenLeaves DEF SearchesTold
  <2>2. /\ UNCHANGED <<mailClosed, query, bodies, generation, timer>>
        /\ MailOut' \subseteq MailOut
        /\ \A i \in DOMAIN mailAnswers' : /\ i + 1 \in DOMAIN mailAnswers
                                          /\ mailAnswers'[i] = mailAnswers[i + 1]
    BY <1>7, <1>t, TakenLeaves
  <2> QED
    BY <1>t, <2>1, <2>2 DEF SearchesTold
<1> QED
  BY <1>2, <1>3, <1>4, <1>5, <1>6, <1>7 DEF MailNext, MailUserStep

\* While matches are awaited, the timer or a present search is on its way.
LEMMA SearchStaysCurrent == MailInv /\ MailNext => SearchIsCurrent'
<1> SUFFICES ASSUME MailInv, MailNext PROVE SearchIsCurrent'
  OBVIOUS
<1>t. MailTypeOK /\ SearchesTold /\ SearchIsCurrent
  BY DEF MailInv, MailboxFollowsUser
<1>1. CASE QueryChanged
  BY <1>1, Zenon DEF QueryChanged, SearchIsCurrent
<1>2. CASE CloseMailSession
  <2>1. mailClosed' /\ matches' = matches /\ query' = query
    BY <1>2 DEF CloseMailSession
  <2>2. bodies' = bodies
    BY <1>2, Zenon DEF CloseMailSession
  <2> QED
    BY <1>t, <2>1, <2>2 DEF SearchIsCurrent
<1>3. CASE StartBodySearch
  <2> DEFINE new == [kind |-> "search", generation |-> generation, query |-> query]
  <2>1. new \in mailJobs' /\ generation' = generation /\ matches' = matches /\ query' = query
    BY <1>3, <1>t DEF StartBodySearch, SearchesTold
  <2>2. bodies' = bodies
    BY <1>3, Zenon DEF StartBodySearch
  <2>3. new \in MailOut' /\ new.kind = "search" /\ new.generation = generation'
    BY <2>1 DEF MailOut
  <2> HIDE DEF new
  <2> QED
    BY <1>t, <2>1, <2>2, <2>3 DEF SearchIsCurrent
<1>4. ASSUME UNCHANGED <<mailClosed, query, bodies, generation, timer, searching, matches>>,
             \A j \in MailOut : j.kind = "search" => j \in MailOut'
      PROVE  SearchIsCurrent'
  BY <1>4, <1>t DEF SearchIsCurrent
<1>5. CASE CurrentItemChanged
  <2>1. mailJobs \subseteq mailJobs' /\ mailAnswers' = mailAnswers
    BY <1>5 DEF CurrentItemChanged
  <2>2. MailOut \subseteq MailOut'
    BY <2>1 DEF MailOut
  <2>3. UNCHANGED <<mailClosed, query, bodies, generation, timer, searching, matches>>
    BY <1>5 DEF CurrentItemChanged
  <2> QED
    BY <1>4, <2>2, <2>3
<1>6. CASE MailPoolStep
  <2>1. UNCHANGED <<mailClosed, query, bodies, generation, timer, searching, matches>>
    BY <1>6, <1>t, PoolKeepsOut DEF MailPoolFrame
  <2>2. \A j \in MailOut : j.kind = "search" => j \in MailOut'
    BY <1>6, <1>t, PoolKeepsOut DEF OpenJob
  <2> QED
    BY <1>4, <2>1, <2>2
<1>7. CASE Loaded \/ LoadError \/ DetailAnswered
  <2>1. MailAnswerStep /\ Head(mailAnswers).job.kind # "search"
    BY <1>7 DEF Loaded, LoadError, DetailAnswered, TakesMail, MailAnswerStep
  <2>2. \A j \in MailOut : j.kind = "search" => j \in MailOut'
    BY <1>t, <2>1, TakenLeaves
  <2>3. UNCHANGED <<mailClosed, query, bodies, generation, timer, searching, matches>>
    BY <1>7 DEF Loaded, LoadError, DetailAnswered
  <2> QED
    BY <1>4, <2>2, <2>3
<1>8. CASE SearchAnswered
  <2> DEFINE a == Head(mailAnswers)
             kept == a.job.generation = generation /\ ~mailClosed /\ a.how # "cancelled"
  <2>1. /\ a.job \in MailOut /\ a.job.kind = "search"
        /\ a = mailAnswers[1] /\ 1 \in DOMAIN mailAnswers
        /\ MailOut \subseteq MailOut' \union {a.job}
        /\ UNCHANGED <<mailClosed, query, bodies, generation, timer>>
    BY <1>8, <1>t, TakenLeaves DEF MailAnswerStep, SearchAnswered, TakesMail
  <2>2. /\ matches' = IF kept /\ a.how = "done" THEN a.job.query ELSE matches
        /\ searching' <=> searching /\ ~kept
    BY <1>8, Zenon DEF SearchAnswered
  <2>3. matches' # Nothing => bodies' /\ matches' = query'
    BY <1>t, <2>1, <2>2 DEF SearchesTold, SearchIsCurrent
  <2>4. ASSUME searching', ~mailClosed'
        PROVE  timer' \/ \E j \in MailOut' : j.kind = "search" /\ j.generation = generation'
    <3>1. CASE timer
      BY <2>1, <3>1
    <3>2. CASE ~timer
      <4>1. PICK j \in MailOut : j.kind = "search" /\ j.generation = generation
        BY <1>t, <2>1, <2>2, <2>4, <3>2 DEF SearchIsCurrent
      <4>2. a.job.generation = generation => a.how # "cancelled"
        BY <1>t, <2>1 DEF SearchesTold
      <4>3. j # a.job
        BY <2>1, <2>2, <2>4, <4>1, <4>2
      <4> QED
        BY <2>1, <4>1, <4>3
    <3> QED
      BY <3>1, <3>2
  <2> QED
    BY <2>3, <2>4 DEF SearchIsCurrent
<1> QED
  BY <1>1, <1>2, <1>3, <1>5, <1>6, <1>7, <1>8 DEF MailNext, MailUserStep, MailAnswerStep

\* The preview shows the selected message, or that is being loaded.
LEMMA PreviewStaysCurrent == MailInv /\ MailNext => PreviewIsCurrent'
<1> SUFFICES ASSUME MailInv, MailNext, ~mailClosed', preview' # selected'
             PROVE  \E j \in MailOut' : j.kind = "load" /\ j.message = selected'
  BY DEF PreviewIsCurrent
<1>t. MailTypeOK /\ PreviewIsCurrent
  BY DEF MailInv, MailboxFollowsUser
<1>1. ASSUME UNCHANGED <<mailClosed, selected, preview>>,
             \A j \in MailOut : j.kind = "load" => j \in MailOut'
      PROVE  \E j \in MailOut' : j.kind = "load" /\ j.message = selected'
  BY <1>1, <1>t DEF PreviewIsCurrent
<1>2. CASE QueryChanged
  <2>1. UNCHANGED <<mailClosed, selected, preview, mailJobs, mailAnswers>>
    BY <1>2 DEF QueryChanged
  <2> QED
    BY <1>1, <2>1 DEF MailOut
<1>3. CASE StartBodySearch
  <2>1. UNCHANGED <<mailClosed, selected, preview, mailAnswers>> /\ mailJobs \subseteq mailJobs'
    BY <1>3 DEF StartBodySearch
  <2> QED
    BY <1>1, <2>1 DEF MailOut
<1>4. CASE CurrentItemChanged
  <2>1. PICK m \in (Messages \union {Nothing}) \ {selected} :
          /\ selected' = m
          /\ preview' = IF m = Nothing THEN Nothing ELSE preview
          /\ mailJobs' = mailJobs \union
               {[kind |-> "load", id |-> mailEvents, message |-> x] : x \in {m} \ {Nothing}}
    BY <1>4 DEF CurrentItemChanged
  <2>2. m # Nothing
    BY <2>1
  <2>3. [kind |-> "load", id |-> mailEvents, message |-> m] \in MailOut'
    BY <2>1, <2>2 DEF MailOut
  <2> QED
    BY <2>1, <2>3
<1>5. CASE CloseMailSession
  BY <1>5 DEF CloseMailSession
<1>6. CASE MailPoolStep
  <2>1. UNCHANGED <<mailClosed, selected, preview>>
    BY <1>6, <1>t, PoolKeepsOut DEF MailPoolFrame
  <2>2. \A j \in MailOut : j.kind = "load" => j \in MailOut'
    BY <1>6, <1>t, PoolKeepsOut DEF OpenJob
  <2> QED
    BY <1>1, <2>1, <2>2
<1>7. CASE Loaded \/ LoadError \/ SearchAnswered
  <2>1. MailAnswerStep /\ Head(mailAnswers).job.kind # "load"
    BY <1>7 DEF Loaded, LoadError, SearchAnswered, TakesMail, MailAnswerStep
  <2>2. \A j \in MailOut : j.kind = "load" => j \in MailOut'
    BY <1>t, <2>1, TakenLeaves
  <2>3. UNCHANGED <<mailClosed, selected, preview>>
    BY <1>7 DEF Loaded, LoadError, SearchAnswered
  <2> QED
    BY <1>1, <2>2, <2>3
<1>8. CASE DetailAnswered
  <2> DEFINE m == Head(mailAnswers).job.message
  <2>1. /\ MailOut \subseteq MailOut' \union {Head(mailAnswers).job}
        /\ mailClosed' = mailClosed /\ selected' = selected
    BY <1>8, <1>t, TakenLeaves DEF MailAnswerStep
  <2>2. preview' = IF ~mailClosed /\ m = selected THEN m ELSE preview
    BY <1>8 DEF DetailAnswered
  <2>3. m # selected /\ preview' = preview
    BY <2>1, <2>2
  <2>4. PICK j \in MailOut : j.kind = "load" /\ j.message = selected
    BY <1>t, <2>1, <2>3 DEF PreviewIsCurrent
  <2>5. j \in MailOut'
    BY <2>1, <2>3, <2>4
  <2> QED
    BY <2>1, <2>4, <2>5
<1> QED
  BY <1>2, <1>3, <1>4, <1>5, <1>6, <1>7, <1>8 DEF MailNext, MailUserStep, MailAnswerStep

LEMMA MailInvKept == MailInv /\ [MailNext]_mailVars => MailInv'
<1> SUFFICES ASSUME MailInv, [MailNext]_mailVars PROVE MailInv'
  OBVIOUS
<1>1. MailTypeOK'
  BY MailNextType DEF MailInv
<1>2. CASE MailNext
  BY <1>1, <1>2, FileStaysAccounted, SearchesStayTold, SearchStaysCurrent, PreviewStaysCurrent
  DEF MailInv, MailboxFollowsUser
<1>3. CASE UNCHANGED mailVars
  BY <1>1, <1>3
  DEF mailVars, MailInv, MailOut, IndexedOnce, SearchesTold, MailboxFollowsUser, FileAccounted,
      SearchIsCurrent, PreviewIsCurrent
<1> QED
  BY <1>2, <1>3

\* The type invariant of the tab, its jobs and their answers.
THEOREM MailTypeCorrect == MailSpec => []MailTypeOK
<1>1. MailInv => MailTypeOK
  BY DEF MailInv
<1> QED
  BY <1>1, MailInitInv, MailInvKept, PTL DEF MailSpec

(* For any number of queries, messages and events, and however the index,  *)
(* the searches and the loads end: the file is the open tab's, the matches *)
(* are of the query in the box, and the preview is of the message chosen,  *)
(* or on its way.                                                          *)
THEOREM MailboxKeptUp == MailSpec => []MailboxFollowsUser
<1>1. MailInv => MailboxFollowsUser
  BY DEF MailInv
<1> QED
  BY <1>1, MailInitInv, MailInvKept, PTL DEF MailSpec
-----------------------------------------------------------------------------
(* RdpPicture, for any number of paints and of events: the types, and that *)
(* a frame is drawn by the view, or by the widget when the view gives up.  *)

\* A frame that is to be drawn is there, and the view draws as long as it is shown.
Drawable ==
  /\ \A i \in 1..Len(rdpFrames) : rdpFrames[i] # 0
  /\ frameDirty => painted # 0
  /\ unpainted \/ imageDirty \/ gpuView = "shown" => image # 0
  /\ image = 0 => screen = 0
  /\ gpuView = "hidden" /\ ~failureShown => image = 0
  /\ gpuView = "shown" => ~failureShown /\ ~unpainted
  /\ imageDirty /\ ~failureShown => gpuView = "shown" /\ renderDue

\* The newest frame is the last one sent, unless the server has painted since.
NewestSent ==
  ~frameDirty =>
    painted = IF rdpFrames = <<>> THEN image ELSE rdpFrames[Len(rdpFrames)]

\* What can be seen is the widget's image, unless somebody is about to draw it.
ImageIsSeen ==
  /\ gpuView = "shown" /\ ~imageDirty /\ ~blanked =>
       rhi /\ texture = image /\ (renderDue \/ screen = image)
  /\ gpuView = "none" /\ ~failureShown => paintDue \/ screen = image

\* A frame on its way is the one in flight.
OneInFlight ==
  ~again =>
    /\ Len(rdpFrames) <= 1
    /\ rdpFrames # <<>> => inFlight
    /\ gpuView = "shown" /\ imageDirty => inFlight /\ rdpFrames = <<>>

PictureInv ==
  /\ PictureTypeOK /\ Drawable /\ NewestSent /\ ImageIsSeen /\ OneInFlight
  /\ FrameIsOwed

-----------------------------------------------------------------------------
\* What sending a frame, and taking one, does to the queue.
LEMMA FrameAppended ==
  ASSUME PictureTypeOK
  PROVE  /\ Append(rdpFrames, painted) \in Seq(FrameNumbers)
         /\ Append(rdpFrames, painted) # <<>>
         /\ Len(Append(rdpFrames, painted)) = Len(rdpFrames) + 1
         /\ \A i \in 1..Len(rdpFrames) : Append(rdpFrames, painted)[i] = rdpFrames[i]
         /\ Append(rdpFrames, painted)[Len(rdpFrames) + 1] = painted
         /\ Len(rdpFrames) \in Nat /\ (rdpFrames = <<>> <=> Len(rdpFrames) = 0)
  BY DEF PictureTypeOK

LEMMA FrameTaken ==
  ASSUME PictureTypeOK, rdpFrames # <<>>
  PROVE  /\ Tail(rdpFrames) \in Seq(FrameNumbers)
         /\ Len(Tail(rdpFrames)) = Len(rdpFrames) - 1
         /\ \A i \in 1..(Len(rdpFrames) - 1) : Tail(rdpFrames)[i] = rdpFrames[i + 1]
         /\ Head(rdpFrames) = rdpFrames[1] /\ Head(rdpFrames) \in FrameNumbers
         /\ Len(rdpFrames) \in Nat \ {0}
         /\ (Tail(rdpFrames) = <<>>) <=> (Len(rdpFrames) = 1)
<1>1. rdpFrames \in Seq(FrameNumbers)
  BY DEF PictureTypeOK
<1>2. /\ Tail(rdpFrames) \in Seq(FrameNumbers)
      /\ Len(Tail(rdpFrames)) = Len(rdpFrames) - 1
      /\ \A i \in 1..(Len(rdpFrames) - 1) : Tail(rdpFrames)[i] = rdpFrames[i + 1]
      /\ Head(rdpFrames) = rdpFrames[1] /\ Head(rdpFrames) \in FrameNumbers
      /\ Len(rdpFrames) \in Nat \ {0}
  BY <1>1
<1>3. (Tail(rdpFrames) = <<>>) <=> (Len(Tail(rdpFrames)) = 0)
  <2>1. \A q \in Seq(FrameNumbers) : (q = <<>>) <=> (Len(q) = 0)
    OBVIOUS
  <2> QED
    BY <1>2, <2>1
<1>4. (Len(rdpFrames) - 1 = 0) <=> (Len(rdpFrames) = 1)
  BY <1>2
<1>5. (Tail(rdpFrames) = <<>>) <=> (Len(rdpFrames) = 1)
  BY <1>2, <1>3, <1>4
<1> QED
  BY <1>2, <1>5

\* The counters keep within their bounds.
LEMMA PictureCounts ==
  /\ \A n \in FrameNumbers : n < MaxPicturePaints => n + 1 \in FrameNumbers /\ n + 1 # 0
  /\ \A n \in 0..MaxPictureEvents : n < MaxPictureEvents => n + 1 \in 0..MaxPictureEvents
  /\ 0 \in FrameNumbers /\ 0 \in 0..MaxPictureEvents
  BY PictureAssumption DEF FrameNumbers

-----------------------------------------------------------------------------
(* The invariant holds at the start, and every step keeps it.              *)

LEMMA PictureInitInv == PictureInit => PictureInv
<1> SUFFICES ASSUME PictureInit PROVE PictureInv
  OBVIOUS
<1>1. PictureTypeOK
  <2>1. rdpFrames \in Seq(FrameNumbers)
    BY DEF PictureInit
  <2>2. {frameDirty, inFlight, unpainted, paintDue, imageDirty, renderDue, rhi,
         exposed, failureShown, blanked, again} \subseteq BOOLEAN
    BY DEF PictureInit
  <2> QED
    BY <2>1, <2>2, PictureCounts DEF PictureInit, PictureTypeOK
<1>2. Len(rdpFrames) = 0 /\ rdpFrames = <<>>
  BY DEF PictureInit
<1> QED
  BY <1>1, <1>2 DEF PictureInit, PictureInv, Drawable, NewestSent, ImageIsSeen, OneInFlight,
     FrameIsOwed

LEMMA PictureNextType ==
  PictureTypeOK /\ [PictureNext]_pictureVars => PictureTypeOK'
<1> SUFFICES ASSUME PictureTypeOK, [PictureNext]_pictureVars PROVE PictureTypeOK'
  OBVIOUS
<1> USE DEF PictureTypeOK, pictureVars, rdpWorkerVars, rdpWidgetVars, gpuVars, pictureHistory
<1>1. CASE Paints
  BY <1>1, PictureCounts DEF Paints
<1>2. CASE Delivers
  BY <1>2, FrameAppended DEF Delivers
<1>3. CASE OnFrameReady
  BY <1>3, FrameTaken DEF OnFrameReady
<1>4. CASE PaintEvent
  BY <1>4 DEF PaintEvent
<1>5. CASE TabChanges
  BY <1>5, PictureCounts DEF TabChanges, PictureEvent
<1>6. CASE ShowFailure
  BY <1>6, PictureCounts DEF ShowFailure, PictureEvent
<1>7. CASE Initialize
  BY <1>7, PictureCounts DEF Initialize
<1>8. CASE InitializeFails
  BY <1>8, PictureCounts DEF InitializeFails, PictureEvent, GpuGivesUp
<1>9. CASE RenderFrame
  BY <1>9 DEF RenderFrame
<1>10. CASE RenderRaises
  BY <1>10, PictureCounts DEF RenderRaises, PictureEvent, GpuGivesUp
<1>11. CASE NewRhi
  BY <1>11, PictureCounts DEF NewRhi, PictureEvent
<1>12. CASE UNCHANGED pictureVars
  BY <1>12
<1> QED
  BY <1>1, <1>2, <1>3, <1>4, <1>5, <1>6, <1>7, <1>8, <1>9, <1>10, <1>11, <1>12 DEF PictureNext

LEMMA PictureInvKept == PictureInv /\ [PictureNext]_pictureVars => PictureInv'
<1> SUFFICES ASSUME PictureInv, [PictureNext]_pictureVars PROVE PictureInv'
  OBVIOUS
<1>1. PictureTypeOK /\ PictureTypeOK'
  BY PictureNextType DEF PictureInv
<1> USE DEF pictureVars, rdpWorkerVars, rdpWidgetVars, gpuVars, pictureHistory
<1>2. CASE Paints
  <2>1. Drawable'
    BY <1>2, PictureCounts DEF PictureInv, PictureTypeOK, Paints, Drawable
  <2>2. NewestSent'
    BY <1>2 DEF PictureInv, Paints, NewestSent
  <2>3. ImageIsSeen'
    BY <1>2 DEF PictureInv, Paints, ImageIsSeen
  <2>4. OneInFlight'
    BY <1>2 DEF PictureInv, Paints, OneInFlight
  <2>5. FrameIsOwed'
    BY <1>2 DEF PictureInv, Paints, FrameIsOwed
  <2> QED
    BY <1>1, <2>1, <2>2, <2>3, <2>4, <2>5 DEF PictureInv
<1>3. CASE Delivers
  <2>1. Drawable'
    BY <1>3 DEF PictureInv, Delivers, Drawable
  <2>2. NewestSent'
    BY <1>3 DEF PictureInv, Delivers, NewestSent
  <2>3. ImageIsSeen'
    BY <1>3 DEF PictureInv, Delivers, ImageIsSeen
  <2>4. OneInFlight'
    BY <1>3 DEF PictureInv, Delivers, OneInFlight
  <2>5. FrameIsOwed'
    BY <1>3 DEF PictureInv, Delivers, FrameIsOwed
  <2> QED
    BY <1>1, <2>1, <2>2, <2>3, <2>4, <2>5 DEF PictureInv
<1>4. CASE OnFrameReady
  <2>1. Drawable'
    BY <1>4 DEF PictureInv, PictureTypeOK, OnFrameReady, Drawable
  <2>2. NewestSent'
    BY <1>4, FrameTaken DEF PictureInv, PictureTypeOK, OnFrameReady, NewestSent
  <2>3. ImageIsSeen'
    BY <1>4 DEF PictureInv, OnFrameReady, Drawable, ImageIsSeen
  <2>4. OneInFlight'
    BY <1>4 DEF PictureInv, OnFrameReady, OneInFlight
  <2>5. FrameIsOwed'
    BY <1>4 DEF PictureInv, OnFrameReady, FrameIsOwed
  <2> QED
    BY <1>1, <2>1, <2>2, <2>3, <2>4, <2>5 DEF PictureInv
<1>5. CASE PaintEvent
  <2>1. Drawable'
    BY <1>5 DEF PictureInv, PaintEvent, Drawable
  <2>2. NewestSent'
    BY <1>5 DEF PictureInv, PaintEvent, NewestSent
  <2>3. ImageIsSeen'
    BY <1>5 DEF PictureInv, PaintEvent, Drawable, ImageIsSeen
  <2>4. OneInFlight'
    BY <1>5 DEF PictureInv, PaintEvent, OneInFlight
  <2>5. FrameIsOwed'
    BY <1>5 DEF PictureInv, PaintEvent, Drawable, FrameIsOwed
  <2> QED
    BY <1>1, <2>1, <2>2, <2>3, <2>4, <2>5 DEF PictureInv
<1>6. CASE TabChanges
  <2>1. Drawable'
    BY <1>6 DEF PictureInv, TabChanges, Drawable
  <2>2. NewestSent'
    BY <1>6 DEF PictureInv, TabChanges, NewestSent
  <2>3. ImageIsSeen'
    BY <1>6 DEF PictureInv, TabChanges, ImageIsSeen, FrameIsOwed
  <2>4. OneInFlight'
    BY <1>6 DEF PictureInv, TabChanges, OneInFlight
  <2>5. FrameIsOwed'
    BY <1>6 DEF PictureInv, TabChanges, FrameIsOwed
  <2> QED
    BY <1>1, <2>1, <2>2, <2>3, <2>4, <2>5 DEF PictureInv
<1>7. CASE ShowFailure
  <2>1. Drawable'
    BY <1>7 DEF PictureInv, ShowFailure, Drawable
  <2>2. NewestSent'
    BY <1>7 DEF PictureInv, ShowFailure, NewestSent
  <2>3. ImageIsSeen'
    BY <1>7 DEF PictureInv, ShowFailure, ImageIsSeen
  <2>4. OneInFlight'
    BY <1>7 DEF PictureInv, ShowFailure, OneInFlight
  <2>5. FrameIsOwed'
    BY <1>7 DEF PictureInv, ShowFailure, FrameIsOwed
  <2> QED
    BY <1>1, <2>1, <2>2, <2>3, <2>4, <2>5 DEF PictureInv
<1>8. CASE Initialize
  <2>1. Drawable'
    BY <1>8 DEF PictureInv, Initialize, Drawable
  <2>2. NewestSent'
    BY <1>8 DEF PictureInv, Initialize, NewestSent
  <2>3. ImageIsSeen'
    BY <1>8 DEF PictureInv, Initialize, ImageIsSeen
  <2>4. OneInFlight'
    BY <1>8 DEF PictureInv, Initialize, OneInFlight
  <2>5. FrameIsOwed'
    BY <1>8 DEF PictureInv, Initialize, FrameIsOwed
  <2> QED
    BY <1>1, <2>1, <2>2, <2>3, <2>4, <2>5 DEF PictureInv
<1>9. CASE InitializeFails
  <2>1. Drawable'
    BY <1>9 DEF PictureInv, InitializeFails, GpuGivesUp, Drawable
  <2>2. NewestSent'
    BY <1>9 DEF PictureInv, InitializeFails, NewestSent
  <2>3. ImageIsSeen'
    BY <1>9 DEF PictureInv, InitializeFails, GpuGivesUp, ImageIsSeen
  <2>4. OneInFlight'
    BY <1>9 DEF PictureInv, InitializeFails, GpuGivesUp, OneInFlight
  <2>5. FrameIsOwed'
    BY <1>9 DEF PictureInv, InitializeFails, GpuGivesUp, Drawable, FrameIsOwed
  <2> QED
    BY <1>1, <2>1, <2>2, <2>3, <2>4, <2>5 DEF PictureInv
<1>10. CASE RenderFrame
  <2>1. Drawable'
    BY <1>10 DEF PictureInv, RenderFrame, Rendering, Drawable
  <2>2. NewestSent'
    BY <1>10 DEF PictureInv, RenderFrame, NewestSent
  <2>3. ImageIsSeen'
    BY <1>10 DEF PictureInv, RenderFrame, Rendering, ImageIsSeen, FrameIsOwed
  <2>4. OneInFlight'
    BY <1>10 DEF PictureInv, RenderFrame, Rendering, OneInFlight
  <2>5. FrameIsOwed'
    BY <1>10 DEF PictureInv, RenderFrame, FrameIsOwed
  <2> QED
    BY <1>1, <2>1, <2>2, <2>3, <2>4, <2>5 DEF PictureInv
<1>11. CASE RenderRaises
  <2>1. Drawable'
    BY <1>11 DEF PictureInv, RenderRaises, GpuGivesUp, Drawable
  <2>2. NewestSent'
    BY <1>11 DEF PictureInv, RenderRaises, NewestSent
  <2>3. ImageIsSeen'
    BY <1>11 DEF PictureInv, RenderRaises, GpuGivesUp, ImageIsSeen
  <2>4. OneInFlight'
    BY <1>11 DEF PictureInv, RenderRaises, GpuGivesUp, OneInFlight
  <2>5. FrameIsOwed'
    BY <1>11 DEF PictureInv, RenderRaises, GpuGivesUp, Drawable, FrameIsOwed
  <2> QED
    BY <1>1, <2>1, <2>2, <2>3, <2>4, <2>5 DEF PictureInv
<1>12. CASE NewRhi
  <2>1. Drawable'
    BY <1>12 DEF PictureInv, NewRhi, Drawable
  <2>2. NewestSent'
    BY <1>12 DEF PictureInv, NewRhi, NewestSent
  <2>3. ImageIsSeen'
    BY <1>12 DEF PictureInv, NewRhi, ImageIsSeen
  <2>4. OneInFlight'
    BY <1>12 DEF PictureInv, NewRhi, OneInFlight
  <2>5. FrameIsOwed'
    BY <1>12 DEF PictureInv, NewRhi, FrameIsOwed
  <2> QED
    BY <1>1, <2>1, <2>2, <2>3, <2>4, <2>5 DEF PictureInv
<1>13. CASE UNCHANGED pictureVars
  BY <1>1, <1>13 DEF PictureInv, Drawable, NewestSent, ImageIsSeen, OneInFlight, FrameIsOwed
<1> QED
  BY <1>2, <1>3, <1>4, <1>5, <1>6, <1>7, <1>8, <1>9, <1>10, <1>11, <1>12, <1>13 DEF
     PictureNext

-----------------------------------------------------------------------------
\* Every variable of the picture's way to the screen keeps its type.
THEOREM PictureTypeCorrect == PictureSpec => []PictureTypeOK
<1>1. PictureInv => PictureTypeOK
  BY DEF PictureInv
<1> QED
  BY <1>1, PictureInitInv, PictureInvKept, PTL DEF PictureSpec

LEMMA PictureInvSays == PictureInv => FrameArrives
<1> SUFFICES ASSUME PictureInv PROVE FrameArrives
  OBVIOUS
<1>1. FrameIsOwed /\ PictureTypeOK
  BY DEF PictureInv
<1>2. PictureIsNewest
  BY <1>1 DEF PictureInv, PictureTypeOK, Drawable, NewestSent, ImageIsSeen, PictureIsNewest
<1>3. OneFrameQueued
  BY <1>1, FrameAppended DEF PictureInv, OneInFlight, OneFrameQueued
<1> QED
  BY <1>1, <1>2, <1>3 DEF FrameArrives

(* Whoever holds the frame in flight draws it, and the newest one comes to *)
(* be seen, whichever step of the GPU view fails (rdp_gpu_view.py, with    *)
(* rdp_widget.py as the fallback).                                         *)
THEOREM FrameNeverLost == PictureSpec => []FrameArrives
  BY PictureInvSays, PictureInitInv, PictureInvKept, PTL DEF PictureSpec
=============================================================================

-------------------------- MODULE ConnectionSessionsProofs --------------------------
(***************************************************************************)
(* Proofs about ConnectionSessions, for any attempts and any pool: the type *)
(* invariant, the agreement of the view's tables, that no session is closed *)
(* in place of another, and that no tunnel is stopped twice.                *)
(***************************************************************************)
EXTENDS ConnectionSessions, FiniteSetTheorems, TLAPS

(* Sequences that hold an element at most once.                            *)
In(s, e) == \E k \in 1..Len(s) : s[k] = e
Once(s) == \A k, l \in 1..Len(s) : s[k] = s[l] => k = l

(* Session numbers are handed out in order, each to one attempt.           *)
Numbered == {c \in Attempts : session_id[c] # 0}
Numbers ==
  /\ next_session_id = Cardinality(Numbered) + 1
  /\ \A c \in Attempts : session_id[c] < next_session_id
  /\ \A c, d \in Attempts : session_id[c] # 0 /\ session_id[c] = session_id[d] => c = d

(* Before its answer arrives an attempt has neither number nor widget.     *)
Stages ==
  \A c \in Attempts :
    /\ stage[c] # "resolved" => session_id[c] = 0 /\ widget[c] = "none"
    /\ stage[c] = "starting" => c \in Tunnelled

(* While the app runs, a session's entry and its widget's number name each *)
(* other.                                                                  *)
Entries ==
  app = "running" =>
    /\ \A i \in Ids :
         session_tab_widgets[i] # None =>
           /\ session_id[session_tab_widgets[i]] = i
           /\ widget[session_tab_widgets[i]] = "open"
    /\ \A c \in Attempts :
         widget[c] = "open" /\ session_id[c] # 0 => session_tab_widgets[session_id[c]] = c

Ends ==
  \A c \in Attempts : In(inbox, Job("finished", c)) => session_id[c] # 0 /\ c \in asked

Tables == Numbers /\ Stages /\ Entries /\ Ends /\ TablesAgree /\ OnlyAskedSessionsClose

(* A start is in one place: the queue, the pool or the inbox, answered.    *)
Answered(c) == In(inbox, Job("result", c)) \/ In(inbox, Job("error", c))
Starts ==
  \A c \in Attempts :
    /\ In(queue, Job("start", c)) \/ Job("start", c) \in running \/ Answered(c)
         => stage[c] = "starting"
    /\ In(queue, Job("start", c)) => Job("start", c) \notin running
    /\ In(inbox, Job("result", c)) => ~In(inbox, Job("error", c))
    /\ In(queue, Job("start", c)) \/ Job("start", c) \in running => ~Answered(c)

(* A stop is in one place as well, and its session is closed.              *)
StopQueued(c) == In(queue, Job("stop", c))
StopRuns(c) == Job("stop", c) \in running
StopJoins(c) == Job("join", c) \in running
StopOwed(c) ==
  StopQueued(c) \/ StopRuns(c) \/ StopJoins(c) \/ c \in to_stop \/ c = joining \/ c \in stopped
StopsOnce ==
  \A c \in Attempts :
    /\ StopOwed(c) => c \in Tunnelled /\ widget[c] = "closed"
    /\ StopQueued(c) => ~StopRuns(c) /\ ~StopJoins(c)
    /\ StopRuns(c) => ~StopJoins(c)
    /\ StopQueued(c) \/ StopRuns(c) \/ StopJoins(c)
         => c \notin to_stop /\ c # joining /\ c \notin stopped
    /\ c \in to_stop => c # joining /\ c \notin stopped
    /\ c = joining => c \notin stopped

JobsOnce ==
  /\ Once(queue) /\ Once(inbox) /\ Starts /\ StopsOnce
  /\ \A c \in Attempts : ~In(queue, Job("join", c))

IInv == TypeOK /\ Tables /\ JobsOnce

-----------------------------------------------------------------------------
(* Sequences and jobs.                                                     *)

LEMMA Push ==
  ASSUME NEW S, NEW s \in Seq(S), NEW e \in S
  PROVE  /\ Append(s, e) \in Seq(S)
         /\ \A x : In(Append(s, e), x) <=> In(s, x) \/ x = e
         /\ Once(s) /\ ~In(s, e) => Once(Append(s, e))
<1>1. /\ Append(s, e) \in Seq(S) /\ Len(s) \in Nat
      /\ Len(Append(s, e)) = Len(s) + 1
      /\ \A k \in 1..Len(s) : Append(s, e)[k] = s[k]
      /\ Append(s, e)[Len(s) + 1] = e
  OBVIOUS
<1>2. \A x : In(Append(s, e), x) <=> In(s, x) \/ x = e
  BY <1>1 DEF In
<1>3. ASSUME Once(s), ~In(s, e), NEW k \in 1..(Len(s) + 1), NEW l \in 1..(Len(s) + 1),
             Append(s, e)[k] = Append(s, e)[l]
      PROVE  k = l
  BY <1>1, <1>3 DEF Once, In
<1> QED
  BY <1>1, <1>2, <1>3 DEF Once

LEMMA Pop ==
  ASSUME NEW S, NEW s \in Seq(S), s # <<>>
  PROVE  /\ Tail(s) \in Seq(S) /\ Head(s) \in S /\ In(s, Head(s))
         /\ \A x : In(s, x) <=> In(Tail(s), x) \/ x = Head(s)
         /\ Once(s) => Once(Tail(s)) /\ ~In(Tail(s), Head(s))
<1>1. /\ Tail(s) \in Seq(S) /\ Head(s) = s[1] /\ s[1] \in S /\ Len(s) \in Nat \ {0}
      /\ Len(Tail(s)) = Len(s) - 1
      /\ \A k \in 1..Len(Tail(s)) : Tail(s)[k] = s[k + 1]
  OBVIOUS
<1>2. 1 \in 1..Len(s) /\ \A k \in 1..Len(Tail(s)) : k + 1 \in 1..Len(s) /\ k + 1 # 1
  BY <1>1
<1>3. \A k \in 1..Len(s) : k = 1 \/ (k - 1 \in 1..Len(Tail(s)) /\ Tail(s)[k - 1] = s[k])
  BY <1>1
<1>4. \A x : In(s, x) <=> In(Tail(s), x) \/ x = Head(s)
  BY <1>1, <1>2, <1>3 DEF In
<1>5. ASSUME Once(s) PROVE ~In(Tail(s), Head(s))
  BY <1>1, <1>2, <1>5 DEF In, Once
<1>6. ASSUME Once(s), NEW k \in 1..Len(Tail(s)), NEW l \in 1..Len(Tail(s)),
             Tail(s)[k] = Tail(s)[l]
      PROVE  k = l
  <2>1. k + 1 = l + 1
    BY <1>1, <1>2, <1>6 DEF Once
  <2> QED
    BY <1>1, <2>1
<1> QED
  BY <1>1, <1>2, <1>4, <1>5, <1>6 DEF Once, In

LEMMA JobsDiffer ==
  \A what1, what2, c1, c2 : Job(what1, c1) = Job(what2, c2) <=> what1 = what2 /\ c1 = c2
  BY DEF Job

LEMMA JobParts ==
  /\ \A j \in Jobs : /\ j.what \in {"start", "stop", "join"} /\ j.of \in Attempts
                     /\ j = Job(j.what, j.of)
  /\ \A s \in Signals : /\ s.what \in {"result", "error", "finished"} /\ s.of \in Attempts
                        /\ s = Job(s.what, s.of)
  /\ \A c \in Attempts :
       /\ \A what \in {"start", "stop", "join"} : Job(what, c) \in Jobs
       /\ \A what \in {"result", "error", "finished"} : Job(what, c) \in Signals
  BY DEF Jobs, Signals, Job

LEMMA NoneIsNoAttempt == None \notin Attempts /\ None \notin Tunnelled
  BY AttemptsAssumption DEF Attempts

LEMMA TypeFacts ==
  ASSUME TypeOK
  PROVE  /\ queue \in Seq(Jobs) /\ inbox \in Seq(Signals) /\ running \subseteq Jobs
         /\ DOMAIN stage = Attempts /\ DOMAIN widget = Attempts /\ DOMAIN session_id = Attempts
         /\ DOMAIN active_sessions = Ids /\ DOMAIN session_tab_widgets = Ids
  BY DEF TypeOK

LEMMA IdsAreNat == Ids \subseteq Nat \ {0}
  BY AttemptsAssumption, FS_CardinalityType DEF Ids

LEMMA NumbersAreNat ==
  ASSUME TypeOK
  PROVE  \A c \in Attempts : session_id[c] \in Nat
<1> SUFFICES ASSUME NEW c \in Attempts PROVE session_id[c] \in Nat
  OBVIOUS
<1>1. session_id[c] \in Ids \/ session_id[c] = 0
  BY DEF TypeOK
<1>2. CASE session_id[c] \in Ids
  BY <1>2, IdsAreNat
<1>3. CASE session_id[c] = 0
  BY <1>3
<1> QED
  BY <1>1, <1>2, <1>3

-----------------------------------------------------------------------------
(* Handing out the next number.                                            *)

LEMMA NextIsId ==
  ASSUME TypeOK, Numbers, NEW c \in Attempts, session_id[c] = 0
  PROVE  next_session_id \in Ids
<1>1. IsFiniteSet(Attempts) /\ Cardinality(Attempts) \in Nat
  BY AttemptsAssumption, FS_CardinalityType
<1>2. Numbered \subseteq Attempts /\ c \notin Numbered /\ Numbered \cup {c} \subseteq Attempts
  BY DEF Numbered
<1>3. IsFiniteSet(Numbered) /\ Cardinality(Numbered) \in Nat
  BY <1>1, <1>2, FS_Subset, FS_CardinalityType
<1>4. Cardinality(Numbered \cup {c}) = Cardinality(Numbered) + 1
  BY <1>2, <1>3, FS_AddElement
<1>5. Cardinality(Numbered \cup {c}) <= Cardinality(Attempts)
  BY <1>1, <1>2, FS_Subset
<1> QED
  BY <1>1, <1>3, <1>4, <1>5 DEF Numbers, Ids

LEMMA NumbersAfterOpen ==
  ASSUME TypeOK, Numbers, NEW c \in Attempts, session_id[c] = 0, OpenSession(c)
  PROVE  Numbers'
<1>1. next_session_id \in Ids /\ next_session_id \in Nat \ {0}
  BY NextIsId, IdsAreNat
<1>2. session_id' = [session_id EXCEPT ![c] = next_session_id]
      /\ next_session_id' = next_session_id + 1
  BY DEF OpenSession, FreshId
<1>3. session_id \in [Attempts -> Ids \cup {0}]
  BY DEF TypeOK
<1>4. Numbered' = Numbered \cup {c} /\ c \notin Numbered
  BY <1>1, <1>2, <1>3 DEF Numbered
<1>5. IsFiniteSet(Numbered) /\ Cardinality(Numbered) \in Nat
  BY AttemptsAssumption, FS_Subset, FS_CardinalityType DEF Numbered
<1>6. Cardinality(Numbered') = Cardinality(Numbered) + 1
  BY <1>4, <1>5, FS_AddElement
<1>7. \A d \in Attempts : session_id[d] \in Nat /\ session_id[d] < next_session_id
  BY NumbersAreNat DEF Numbers
<1>8. \A d \in Attempts : session_id'[d] = IF d = c THEN next_session_id ELSE session_id[d]
  BY <1>2, <1>3
<1>9. \A d \in Attempts : session_id'[d] < next_session_id'
  BY <1>1, <1>2, <1>7, <1>8
<1>10. \A d, e \in Attempts : session_id'[d] # 0 /\ session_id'[d] = session_id'[e] => d = e
  BY <1>1, <1>7, <1>8 DEF Numbers
<1> QED
  BY <1>2, <1>5, <1>6, <1>9, <1>10 DEF Numbers

-----------------------------------------------------------------------------
(* The tables.                                                             *)

\* What a handler must leave of the tables, while the app runs.
Sessions ==
  /\ \A i \in Ids :
       session_tab_widgets[i] # None =>
         /\ session_id[session_tab_widgets[i]] = i
         /\ widget[session_tab_widgets[i]] = "open"
  /\ \A c \in Attempts :
       widget[c] = "open" /\ session_id[c] # 0 => session_tab_widgets[session_id[c]] = c
  /\ dialog = {i \in Ids : session_tab_widgets[i] # None}
  /\ tabs = {c \in Attempts : widget[c] = "open"}
  /\ \A i \in Ids :
       active_sessions[i] = IF session_tab_widgets[i] \in Tunnelled
                            THEN session_tab_widgets[i] ELSE None
  /\ \A c \in Attempts : widget[c] = "closed" => c \in asked

LEMMA TablesParts ==
  Tables <=> Numbers /\ Stages /\ Ends /\ (app = "running" => Sessions)
  BY DEF Tables, Entries, TablesAgree, OnlyAskedSessionsClose, Sessions

LEMMA TablesPartsNext ==
  Tables' <=> Numbers' /\ Stages' /\ Ends' /\ (app' = "running" => Sessions')
  BY DEF Tables, Entries, TablesAgree, OnlyAskedSessionsClose, Sessions

\* Opening a session fills its row in every table.
LEMMA OpenKeepsSessions ==
  ASSUME TypeOK, Numbers, Sessions, NEW c \in Attempts, session_id[c] = 0, widget[c] = "none",
         OpenSession(c), asked' = asked
  PROVE  Sessions'
<1> DEFINE n == next_session_id
<1>1. n \in Ids /\ n \in Nat \ {0}
  BY NextIsId, IdsAreNat
<1>2. /\ session_id \in [Attempts -> Ids \cup {0}] /\ widget \in [Attempts -> {"none", "open", "closed"}]
      /\ session_tab_widgets \in [Ids -> Attempts \cup {None}]
      /\ active_sessions \in [Ids -> Tunnelled \cup {None}]
      /\ dialog \subseteq Ids
  BY DEF TypeOK
<1>3. /\ \A d \in Attempts : session_id'[d] = IF d = c THEN n ELSE session_id[d]
      /\ \A d \in Attempts : widget'[d] = IF d = c THEN "open" ELSE widget[d]
      /\ \A i \in Ids : session_tab_widgets'[i] = IF i = n THEN c ELSE session_tab_widgets[i]
      /\ \A i \in Ids : active_sessions'[i] = IF i = n /\ c \in Tunnelled THEN c ELSE active_sessions[i]
      /\ tabs' = tabs \cup {c} /\ dialog' = dialog \cup {n}
  BY <1>1, <1>2 DEF OpenSession, FreshId
<1>4. \A d \in Attempts : session_id[d] # n
  BY <1>1, NumbersAreNat DEF Numbers
<1>5. session_tab_widgets[n] = None /\ c # None /\ None \notin Tunnelled
  BY <1>1, <1>2, <1>4, NoneIsNoAttempt DEF Sessions
<1>6. active_sessions[n] = None
  BY <1>1, <1>5 DEF Sessions
<1>7. \A i \in Ids : session_tab_widgets[i] # c
  BY <1>5 DEF Sessions
<1> HIDE DEF n
<1>8. \A i \in Ids :
        session_tab_widgets'[i] # None =>
          /\ session_id'[session_tab_widgets'[i]] = i
          /\ widget'[session_tab_widgets'[i]] = "open"
  <2> SUFFICES ASSUME NEW i \in Ids, session_tab_widgets'[i] # None
               PROVE  /\ session_id'[session_tab_widgets'[i]] = i
                      /\ widget'[session_tab_widgets'[i]] = "open"
    OBVIOUS
  <2>1. CASE i = n
    BY <1>3, <2>1
  <2>2. CASE i # n
    <3>1. session_tab_widgets'[i] = session_tab_widgets[i] /\ session_tab_widgets[i] \in Attempts
          /\ session_tab_widgets[i] # c
      BY <1>2, <1>3, <1>7, <2>2
    <3> QED
      BY <1>3, <3>1 DEF Sessions
  <2> QED
    BY <2>1, <2>2
<1>9. \A d \in Attempts :
        widget'[d] = "open" /\ session_id'[d] # 0 => session_tab_widgets'[session_id'[d]] = d
  <2> SUFFICES ASSUME NEW d \in Attempts, widget'[d] = "open", session_id'[d] # 0
               PROVE  session_tab_widgets'[session_id'[d]] = d
    OBVIOUS
  <2>1. CASE d = c
    BY <1>1, <1>3, <2>1
  <2>2. CASE d # c
    <3>1. session_id'[d] = session_id[d] /\ session_id[d] \in Ids /\ session_id[d] # n
          /\ widget[d] = "open"
      BY <1>2, <1>3, <1>4, <2>2
    <3> QED
      BY <1>3, <3>1 DEF Sessions
  <2> QED
    BY <2>1, <2>2
<1>10. dialog' = {i \in Ids : session_tab_widgets'[i] # None}
  <2>1. \A i \in Ids : i \in dialog <=> session_tab_widgets[i] # None
    BY DEF Sessions
  <2>2. \A i \in Ids : i \in dialog' <=> session_tab_widgets'[i] # None
    BY <1>1, <1>3, <1>5, <2>1
  <2>3. dialog' \subseteq Ids
    BY <1>1, <1>2, <1>3
  <2> QED
    BY <2>2, <2>3
<1>11. tabs' = {d \in Attempts : widget'[d] = "open"}
  BY <1>3 DEF Sessions
<1>12. \A i \in Ids :
         active_sessions'[i] = IF session_tab_widgets'[i] \in Tunnelled
                               THEN session_tab_widgets'[i] ELSE None
  BY <1>1, <1>3, <1>5, <1>6 DEF Sessions
<1>13. \A d \in Attempts : widget'[d] = "closed" => d \in asked'
  BY <1>3 DEF Sessions
<1> QED
  BY <1>8, <1>9, <1>10, <1>11, <1>12, <1>13 DEF Sessions

\* Closing one clears them, if it is still there; its end was asked for.
LEMMA DisconnectKeepsSessions ==
  ASSUME TypeOK, Sessions, NEW i \in Ids, DisconnectRequested(i),
         asked \subseteq asked', session_tab_widgets[i] # None => session_tab_widgets[i] \in asked'
  PROVE  Sessions'
<1> DEFINE w == session_tab_widgets[i]
<1>1. /\ session_tab_widgets \in [Ids -> Attempts \cup {None}]
      /\ active_sessions \in [Ids -> Tunnelled \cup {None}]
      /\ None \notin Attempts /\ None \notin Tunnelled
  BY NoneIsNoAttempt DEF TypeOK
<1>2. /\ session_id' = session_id
      /\ \A c \in Attempts : widget'[c] = IF c = w THEN "closed" ELSE widget[c]
      /\ \A j \in Ids : session_tab_widgets'[j] = IF j = i THEN None ELSE session_tab_widgets[j]
      /\ \A j \in Ids : active_sessions'[j] = IF j = i THEN None ELSE active_sessions[j]
      /\ tabs' = tabs \ {w} /\ dialog' = dialog \ {i}
  BY <1>1 DEF DisconnectRequested, TunnelPopped
<1>3. \A j \in Ids : j # i /\ session_tab_widgets[j] # None => session_tab_widgets[j] # w
  BY DEF Sessions
<1>4. \A j \in Ids :
        session_tab_widgets'[j] # None =>
          /\ session_id'[session_tab_widgets'[j]] = j
          /\ widget'[session_tab_widgets'[j]] = "open"
  <2> SUFFICES ASSUME NEW j \in Ids, session_tab_widgets'[j] # None
               PROVE  /\ session_id'[session_tab_widgets'[j]] = j
                      /\ widget'[session_tab_widgets'[j]] = "open"
    OBVIOUS
  <2>1. j # i /\ session_tab_widgets'[j] = session_tab_widgets[j]
    BY <1>2
  <2>2. session_tab_widgets[j] \in Attempts /\ session_tab_widgets[j] # w
    BY <1>1, <1>3, <2>1
  <2> QED
    BY <1>2, <2>1, <2>2 DEF Sessions
<1>5. \A c \in Attempts :
        widget'[c] = "open" /\ session_id'[c] # 0 => session_tab_widgets'[session_id'[c]] = c
  <2> SUFFICES ASSUME NEW c \in Attempts, widget'[c] = "open", session_id'[c] # 0
               PROVE  session_tab_widgets'[session_id'[c]] = c
    OBVIOUS
  <2>1. c # w /\ widget[c] = "open" /\ session_tab_widgets[session_id[c]] = c
    BY <1>2 DEF Sessions
  <2>2. session_id[c] \in Ids
    BY <1>2 DEF TypeOK
  <2>3. session_id[c] # i
    BY <2>1
  <2> QED
    BY <1>2, <2>1, <2>2, <2>3
<1>6. dialog' = {j \in Ids : session_tab_widgets'[j] # None}
  BY <1>2 DEF Sessions
<1>7. tabs' = {c \in Attempts : widget'[c] = "open"}
  BY <1>2 DEF Sessions
<1>8. \A j \in Ids :
        active_sessions'[j] = IF session_tab_widgets'[j] \in Tunnelled
                              THEN session_tab_widgets'[j] ELSE None
  BY <1>1, <1>2 DEF Sessions
<1>9. \A c \in Attempts : widget'[c] = "closed" => c \in asked'
  BY <1>1, <1>2 DEF Sessions
<1> QED
  BY <1>4, <1>5, <1>6, <1>7, <1>8, <1>9 DEF Sessions

LEMMA DisconnectKeepsStages ==
  ASSUME TypeOK, Sessions, Stages, NEW i \in Ids, DisconnectRequested(i), stage' = stage
  PROVE  Stages'
<1> DEFINE w == session_tab_widgets[i]
<1>1. /\ session_id' = session_id
      /\ \A c \in Attempts : widget'[c] = IF c = w THEN "closed" ELSE widget[c]
  BY DEF DisconnectRequested
<1>2. \A c \in Attempts : c = w => widget[c] = "open"
  BY NoneIsNoAttempt DEF Sessions
<1> QED
  BY <1>1, <1>2 DEF Stages

(* What the four ways to start a connection come to, with a tunnel and      *)
(* without one (_start_session_from_instance and its siblings).             *)
LEMMA ConnectParts ==
  ASSUME NEW c \in Attempts, Connect(c)
  PROVE  /\ app = "running" /\ stage[c] = "idle"
         /\ UNCHANGED <<thread, running, inbox, asked, stopped, quitVars>>
         /\ c \in Tunnelled => StartTunnel(c)
         /\ c \notin Tunnelled => OpenAtOnce(c)
  BY AttemptsAssumption
     DEF Connect, ConnectInstance, ConnectManual, ConnectQemu, ConnectFiles, Tunnelled

LEMMA NextTables ==
  ASSUME TypeOK, Tables, JobsOnce, [Next]_vars
  PROVE  Tables'
<1>0. Numbers /\ Stages /\ Ends /\ (app = "running" => Sessions) /\ Starts
      /\ queue \in Seq(Jobs) /\ inbox \in Seq(Signals)
  BY TablesParts, TypeFacts DEF JobsOnce
<1>a. ASSUME UNCHANGED <<stage, tableVars, asked, inbox>>, app' = app \/ app' # "running"
      PROVE  Tables'
  <2>1. Numbers' /\ Stages' /\ Ends'
    BY <1>0, <1>a DEF tableVars, Numbers, Numbered, Stages, Ends
  <2>2. app' = "running" => Sessions'
    BY <1>0, <1>a DEF tableVars, Sessions
  <2> QED
    BY <2>1, <2>2, TablesPartsNext
<1>b. ASSUME UNCHANGED <<stage, tableVars, asked, app>>,
             \A c \in Attempts : In(inbox', Job("finished", c)) => In(inbox, Job("finished", c))
      PROVE  Tables'
  <2>1. Numbers' /\ Stages' /\ Ends'
    BY <1>0, <1>b DEF tableVars, Numbers, Numbered, Stages, Ends
  <2>2. app' = "running" => Sessions'
    BY <1>0, <1>b DEF tableVars, Sessions
  <2> QED
    BY <2>1, <2>2, TablesPartsNext
\* c's answer, or its click, opens a session.
<1>c. ASSUME NEW c \in Attempts, stage[c] # "resolved", OpenSession(c), asked' = asked, app' = app,
             app = "running", stage' = [stage EXCEPT ![c] = "resolved"],
             \A d \in Attempts : In(inbox', Job("finished", d)) => In(inbox, Job("finished", d))
      PROVE  Tables'
  <2>1. session_id[c] = 0 /\ widget[c] = "none"
    BY <1>0, <1>c DEF Stages
  <2>2. Numbers' /\ Sessions'
    BY <1>0, <1>c, <2>1, NumbersAfterOpen, OpenKeepsSessions
  <2>3. /\ \A d \in Attempts : d # c => session_id'[d] = session_id[d] /\ widget'[d] = widget[d]
                                        /\ stage'[d] = stage[d]
        /\ stage'[c] = "resolved"
    BY <1>c DEF OpenSession, TypeOK
  <2>4. Stages'
    BY <1>0, <2>3 DEF Stages
  <2>5. Ends'
    BY <1>0, <1>c, <2>1, <2>3 DEF Ends
  <2> QED
    BY <2>2, <2>4, <2>5, TablesPartsNext
<1>d. ASSUME NEW i \in Ids, DisconnectRequested(i), stage' = stage, app = "running", app' = app,
             asked \subseteq asked',
             session_tab_widgets[i] # None => session_tab_widgets[i] \in asked',
             \A c \in Attempts : In(inbox', Job("finished", c)) => In(inbox, Job("finished", c))
      PROVE  Tables'
  <2>1. Sessions' /\ Stages'
    BY <1>0, <1>d, DisconnectKeepsSessions, DisconnectKeepsStages
  <2>2. session_id' = session_id /\ next_session_id' = next_session_id
    BY <1>d DEF DisconnectRequested
  <2>3. Numbers' /\ Ends'
    BY <1>0, <1>d, <2>2 DEF Numbers, Numbered, Ends
  <2> QED
    BY <2>1, <2>3, TablesPartsNext
<1>1. CASE UNCHANGED vars
  BY <1>1, <1>a DEF vars, quitVars
<1>2. CASE PoolTakes \/ QuitJoins \/ Exit
           \/ \E c \in Attempts : TunnelStep(c) \/ StopBegins(c) \/ StopReturns(c) \/ QuitStops(c)
  BY <1>2, <1>a DEF PoolTakes, QuitJoins, Exit, TunnelStep, Unseen, StopBegins, StopReturns,
                    QuitStops, quitVars
<1>3. ASSUME NEW c \in Attempts, StartReturns(c)
      PROVE  Tables'
  <2>1. PICK what \in {"result", "error"} : inbox' = Append(inbox, Job(what, c))
    BY <1>3 DEF StartReturns, Posted
  <2>2. \A d \in Attempts : In(inbox', Job("finished", d)) => In(inbox, Job("finished", d))
    BY <1>0, <2>1, Push, JobParts, JobsDiffer
  <2> QED
    BY <1>3, <1>b, <2>2 DEF StartReturns, quitVars
<1>4. ASSUME NEW c \in Attempts, Connect(c)
      PROVE  Tables'
  <2>1. CASE c \in Tunnelled
    <3>1. /\ stage[c] = "idle" /\ stage' = [stage EXCEPT ![c] = "starting"]
          /\ UNCHANGED <<tableVars, asked, inbox, app>>
      BY ConnectParts, <1>4, <2>1 DEF StartTunnel, OpenAtOnce, quitVars
    <3>2. \A d \in Attempts : stage'[d] = IF d = c THEN "starting" ELSE stage[d]
      BY <3>1 DEF TypeOK
    <3>3. Stages'
      BY <1>0, <2>1, <3>1, <3>2 DEF Stages, tableVars
    <3>4. Numbers' /\ Ends'
      BY <1>0, <3>1 DEF tableVars, Numbers, Numbered, Ends
    <3>5. app' = "running" => Sessions'
      BY <1>0, <3>1 DEF tableVars, Sessions
    <3> QED
      BY <3>3, <3>4, <3>5, TablesPartsNext
  <2>2. CASE c \notin Tunnelled
    BY ConnectParts, <1>4, <1>c, <2>2 DEF StartTunnel, OpenAtOnce, quitVars
  <2> QED
    BY <2>1, <2>2
<1>5. ASSUME NEW c \in Attempts, OpenPlain(c)
      PROVE  Tables'
  <2>1. /\ app = "running" /\ stage[c] = "idle"
        /\ stage' = [stage EXCEPT ![c] = "resolved"] /\ widget' = [widget EXCEPT ![c] = "open"]
        /\ tabs' = tabs \cup {c}
        /\ UNCHANGED <<inbox, session_id, next_session_id, active_sessions, session_tab_widgets,
                       dialog, asked, app>>
    BY <1>5 DEF OpenPlain, quitVars
  <2>2. session_id[c] = 0 /\ widget[c] = "none"
    BY <1>0, <2>1 DEF Stages
  <2>3. \A d \in Attempts : /\ stage'[d] = IF d = c THEN "resolved" ELSE stage[d]
                            /\ widget'[d] = IF d = c THEN "open" ELSE widget[d]
    BY <2>1 DEF TypeOK
  <2>4. Numbers' /\ Ends' /\ Stages'
    BY <1>0, <2>1, <2>3 DEF Numbers, Numbered, Ends, Stages
  <2>5. \A i \in Ids : session_tab_widgets[i] # None =>
                         /\ session_tab_widgets[i] \in Attempts /\ session_tab_widgets[i] # c
    BY <1>0, <2>1, <2>2 DEF Sessions, TypeOK
  <2>6. \A i \in Ids : session_tab_widgets[i] # None =>
                         /\ session_id[session_tab_widgets[i]] = i
                         /\ widget'[session_tab_widgets[i]] = "open"
    BY <1>0, <2>1, <2>3, <2>5 DEF Sessions
  <2>7. tabs' = {d \in Attempts : widget'[d] = "open"}
    BY <1>0, <2>1, <2>3 DEF Sessions
  <2>8. Sessions'
    BY <1>0, <2>1, <2>2, <2>3, <2>6, <2>7 DEF Sessions
  <2> QED
    BY <2>4, <2>8, TablesPartsNext
<1>6. CASE Deliver
  <2> DEFINE s == Head(inbox)
  <2>1. app = "running" /\ inbox # <<>> /\ inbox' = Tail(inbox) /\ UNCHANGED <<asked, app>>
    BY <1>6 DEF Deliver, quitVars
  <2>2. /\ s \in Signals /\ In(inbox, s)
        /\ \A d \in Attempts : In(inbox', Job("finished", d)) => In(inbox, Job("finished", d))
    BY <1>0, <2>1, Pop
  <2>3. s = Job(s.what, s.of) /\ s.of \in Attempts
    BY <2>2, JobParts
  <2>4. CASE s.what = "result"
    <3>1. stage[s.of] = "starting"
      BY <1>0, <2>2, <2>3, <2>4 DEF Starts, Answered
    <3>2. OpenSession(s.of) /\ stage' = [stage EXCEPT ![s.of] = "resolved"]
      BY <1>6, <2>4 DEF Deliver
    <3> HIDE DEF s
    <3> QED
      BY <1>c, <2>1, <2>2, <2>3, <3>1, <3>2
  <2>5. CASE s.what = "error"
    <3>1. stage' = [stage EXCEPT ![s.of] = "resolved"] /\ UNCHANGED tableVars
      BY <1>6, <2>5 DEF Deliver
    <3>2. \A d \in Attempts : stage'[d] = IF d = s.of THEN "resolved" ELSE stage[d]
      BY <3>1 DEF TypeOK
    <3>3. Stages'
      BY <1>0, <3>1, <3>2 DEF Stages, tableVars
    <3>4. Numbers' /\ Ends'
      BY <1>0, <2>1, <2>2, <3>1 DEF tableVars, Numbers, Numbered, Ends
    <3>5. Sessions'
      BY <1>0, <2>1, <3>1 DEF tableVars, Sessions
    <3> QED
      BY <3>3, <3>4, <3>5, TablesPartsNext
  <2>6. CASE s.what = "finished"
    <3>1. stage' = stage /\ (UNCHANGED tableVars \/ DisconnectRequested(session_id[s.of]))
      BY <1>6, <2>6 DEF Deliver
    <3>2. session_id[s.of] \in Ids /\ s.of \in asked
      BY <1>0, <2>2, <2>3, <2>6 DEF Ends, TypeOK
    <3>3. ASSUME session_tab_widgets[session_id[s.of]] # None
          PROVE  session_tab_widgets[session_id[s.of]] = s.of
      <4>1. session_tab_widgets[session_id[s.of]] \in Attempts
        BY <3>2, <3>3 DEF TypeOK
      <4>2. session_id[session_tab_widgets[session_id[s.of]]] = session_id[s.of]
        BY <1>0, <2>1, <3>2, <3>3 DEF Sessions
      <4>3. session_id[s.of] # 0
        BY <1>0, <2>2, <2>3, <2>6 DEF Ends
      <4> HIDE DEF s
      <4> QED
        BY <1>0, <2>3, <4>1, <4>2, <4>3 DEF Numbers
    <3> HIDE DEF s
    <3>4. CASE UNCHANGED tableVars
      BY <1>b, <2>1, <2>2, <3>1, <3>4
    <3>5. CASE DisconnectRequested(session_id[s.of])
      BY <1>d, <2>1, <2>2, <3>1, <3>2, <3>3, <3>5
    <3> QED
      BY <3>1, <3>4, <3>5
  <2> QED
    BY <2>2, <2>4, <2>5, <2>6, JobParts
<1>7. ASSUME NEW c \in Attempts, WidgetFinishes(c)
      PROVE  Tables'
  <2>1. /\ app = "running" /\ session_id[c] # 0
        /\ asked' = asked \cup {c} /\ inbox' = Append(inbox, Job("finished", c))
        /\ UNCHANGED <<stage, tableVars, app>>
    BY <1>7 DEF WidgetFinishes, Posted, quitVars
  <2>2. \A d \in Attempts : In(inbox', Job("finished", d)) => In(inbox, Job("finished", d)) \/ d = c
    BY <1>0, <2>1, Push, JobParts, JobsDiffer
  <2>3. Numbers' /\ Stages' /\ Ends'
    BY <1>0, <2>1, <2>2 DEF tableVars, Numbers, Numbered, Stages, Ends
  <2>4. Sessions'
    BY <1>0, <2>1 DEF tableVars, Sessions
  <2> QED
    BY <2>3, <2>4, TablesPartsNext
<1>8. ASSUME NEW c \in Attempts, UserCloses(c)
      PROVE  Tables'
  <2>1. app = "running" /\ asked' = asked \cup {c} /\ UNCHANGED <<stage, inbox, app>> /\ c \in tabs
    BY <1>8 DEF UserCloses, quitVars
  <2>2. ASSUME NEW i \in Ids, session_tab_widgets[i] = c, DisconnectRequested(i)
        PROVE  Tables'
    BY <1>d, <2>1, <2>2
  <2>3. ASSUME \A i \in Ids : session_tab_widgets[i] # c,
               tabs' = tabs \ {c}, widget' = [widget EXCEPT ![c] = "closed"],
               UNCHANGED <<session_id, next_session_id, active_sessions, session_tab_widgets, dialog>>
        PROVE  Tables'
    <3>1. \A d \in Attempts : widget'[d] = IF d = c THEN "closed" ELSE widget[d]
      BY <2>3 DEF TypeOK
    <3>2. widget[c] = "open"
      BY <1>0, <2>1 DEF Sessions
    <3>3. Numbers' /\ Ends' /\ Stages'
      BY <1>0, <2>1, <2>3, <3>1, <3>2 DEF Numbers, Numbered, Ends, Stages
    <3>4. tabs' = {d \in Attempts : widget'[d] = "open"}
      BY <1>0, <2>1, <2>3, <3>1 DEF Sessions
    <3>5. \A i \in Ids : session_tab_widgets[i] # None =>
                           /\ session_id[session_tab_widgets[i]] = i
                           /\ widget'[session_tab_widgets[i]] = "open"
      BY <1>0, <2>1, <2>3, <3>1 DEF Sessions, TypeOK
    <3>6. Sessions'
      BY <1>0, <2>1, <2>3, <3>1, <3>4, <3>5 DEF Sessions
    <3> QED
      BY <3>3, <3>6, TablesPartsNext
  <2> QED
    BY <1>8, <2>2, <2>3 DEF UserCloses
<1>9. CASE Quit
  <2>1. /\ app = "running" /\ app' = "stopping"
        /\ UNCHANGED <<stage, inbox, session_id, next_session_id, asked>>
        /\ \A c \in Attempts :
             widget'[c] = IF \E i \in Ids : session_tab_widgets[i] = c THEN "closed" ELSE widget[c]
    BY <1>9 DEF Quit
  <2>2. \A c \in Attempts : widget[c] = "none" => \A i \in Ids : session_tab_widgets[i] # c
    BY <1>0, <2>1, NoneIsNoAttempt DEF Sessions
  <2>3. Numbers' /\ Ends' /\ Stages'
    BY <1>0, <2>1, <2>2 DEF Numbers, Numbered, Ends, Stages
  <2> QED
    BY <2>1, <2>3, TablesPartsNext
<1> QED
  BY <1>1, <1>2, <1>3, <1>4, <1>5, <1>6, <1>7, <1>8, <1>9 DEF Next, PoolStep, UserStep

-----------------------------------------------------------------------------
(* The jobs.                                                               *)

LEMMA NextJobs ==
  ASSUME TypeOK, Tables, JobsOnce, [Next]_vars
  PROVE  JobsOnce'
<1>0. /\ Once(queue) /\ Once(inbox) /\ Starts /\ StopsOnce
      /\ \A c \in Attempts : ~In(queue, Job("join", c))
      /\ queue \in Seq(Jobs) /\ inbox \in Seq(Signals) /\ running \subseteq Jobs
      /\ Stages /\ Ends /\ (app = "running" => Sessions)
  BY TypeFacts, TablesParts DEF JobsOnce
<1>a. ASSUME UNCHANGED <<stage, poolVars, inbox, to_stop, joining, stopped>>,
             \A c \in Attempts : widget[c] = "closed" => widget'[c] = "closed"
      PROVE  JobsOnce'
  BY <1>0, <1>a DEF poolVars, JobsOnce, Starts, StopsOnce, Answered, StopOwed, StopQueued, StopRuns,
                    StopJoins
\* Every step that takes a signal off the inbox or adds one that is no answer.
<1>b. ASSUME UNCHANGED <<stage, poolVars, to_stop, joining, stopped>>, Once(inbox'),
             \A c \in Attempts : widget[c] = "closed" => widget'[c] = "closed",
             \A c \in Attempts :
               \A what \in {"result", "error"} :
                 In(inbox', Job(what, c)) => In(inbox, Job(what, c))
      PROVE  JobsOnce'
  <2>1. Starts'
    BY <1>0, <1>b DEF poolVars, Starts, Answered
  <2>2. StopsOnce'
    BY <1>0, <1>b DEF poolVars, StopsOnce, StopOwed, StopQueued, StopRuns, StopJoins
  <2> QED
    BY <1>0, <1>b, <2>1, <2>2 DEF poolVars, JobsOnce
\* A session is closed, and the stop of its tunnel queued.
<1>d. ASSUME NEW i \in Ids, DisconnectRequested(i), app = "running", Once(inbox'),
             UNCHANGED <<stage, running, to_stop, joining, stopped>>,
             \A c \in Attempts :
               \A what \in {"result", "error"} :
                 In(inbox', Job(what, c)) => In(inbox, Job(what, c))
      PROVE  JobsOnce'
  <2> DEFINE t == active_sessions[i]
  <2>1. \A c \in Attempts : widget'[c] = IF c = session_tab_widgets[i] THEN "closed" ELSE widget[c]
    BY <1>d DEF DisconnectRequested
  <2>2. CASE t = None
    <3>1. queue' = queue
      BY <1>d, <2>2 DEF DisconnectRequested
    <3> QED
      BY <1>b, <1>d, <2>1, <3>1 DEF poolVars
  <2>3. CASE t # None
    <3>1. t \in Tunnelled /\ t = session_tab_widgets[i] /\ widget[t] = "open" /\ t \in Attempts
      BY <1>0, <1>d, <2>3, NoneIsNoAttempt DEF Sessions, Attempts
    <3>2. ~StopOwed(t) /\ widget'[t] = "closed"
      BY <1>0, <2>1, <3>1 DEF StopsOnce
    <3>3. queue' = Append(queue, Job("stop", t)) /\ Job("stop", t) \in Jobs
      BY <1>d, <2>3, <3>1, JobParts DEF DisconnectRequested
    <3> HIDE DEF t
    <3>4. Once(queue') /\ \A x : In(queue', x) <=> In(queue, x) \/ x = Job("stop", t)
      BY <1>0, <3>2, <3>3, Push DEF StopOwed, StopQueued
    <3>5. \A c \in Attempts : /\ In(queue', Job("start", c)) <=> In(queue, Job("start", c))
                              /\ In(queue', Job("stop", c)) <=> In(queue, Job("stop", c)) \/ c = t
                              /\ In(queue', Job("join", c)) <=> In(queue, Job("join", c))
      BY <3>4, JobsDiffer
    <3>6. Starts'
      BY <1>0, <1>d, <3>5 DEF Starts, Answered
    <3>7. StopsOnce'
      BY <1>0, <1>d, <2>1, <3>1, <3>2, <3>5 DEF StopsOnce, StopOwed, StopQueued, StopRuns, StopJoins
    <3> QED
      BY <1>0, <1>d, <3>4, <3>5, <3>6, <3>7 DEF JobsOnce
  <2> QED
    BY <2>2, <2>3
\* c's answer, or its click, opens a session or a plain tab, or fails.
<1>c. ASSUME NEW c \in Attempts, stage[c] # "resolved",
             stage' = [stage EXCEPT ![c] = "resolved"],
             widget' = widget \/ widget' = [widget EXCEPT ![c] = "open"],
             UNCHANGED <<poolVars, to_stop, joining, stopped>>, Once(inbox'),
             \A d \in Attempts : Answered(d)' => Answered(d) /\ d # c,
             \A d \in Attempts : In(inbox', Job("result", d)) => ~In(inbox', Job("error", d)),
             ~In(queue, Job("start", c)), Job("start", c) \notin running
      PROVE  JobsOnce'
  <2>1. widget[c] = "none" /\ ~StopOwed(c)
    BY <1>0, <1>c DEF Stages, StopsOnce
  <2>2. \A d \in Attempts : d # c => stage'[d] = stage[d] /\ widget'[d] = widget[d]
    BY <1>c DEF TypeOK
  <2>3. Starts'
    BY <1>0, <1>c, <2>2 DEF poolVars, Starts
  <2>4. \A d \in Attempts : StopOwed(d)' => d # c /\ StopOwed(d)
    BY <1>c, <2>1 DEF poolVars, StopOwed, StopQueued, StopRuns, StopJoins
  <2>5. StopsOnce'
    BY <1>0, <1>c, <2>2, <2>4 DEF poolVars, StopsOnce, StopQueued, StopRuns, StopJoins
  <2> QED
    BY <1>0, <1>c, <2>3, <2>5 DEF poolVars, JobsOnce
<1>1. CASE UNCHANGED vars
  BY <1>1, <1>a DEF vars, tableVars, quitVars
<1>2. CASE Exit \/ \E c \in Attempts : TunnelStep(c)
  BY <1>2, <1>a DEF Exit, TunnelStep, Unseen, tableVars, quitVars
<1>3. CASE PoolTakes
  <2> DEFINE h == Head(queue)
  <2>1. /\ queue # <<>> /\ queue' = Tail(queue) /\ running' = running \cup {h}
        /\ UNCHANGED <<stage, inbox, widget, to_stop, joining, stopped>>
    BY <1>3 DEF PoolTakes, tableVars, quitVars
  <2>2. /\ h \in Jobs /\ In(queue, h) /\ Once(queue')
        /\ \A x : In(queue', x) <=> In(queue, x) /\ x # h
    BY <1>0, <2>1, Pop
  <2>3. PICK what \in {"start", "stop", "join"}, d \in Attempts : h = Job(what, d)
    BY <2>2, JobParts
  <2> HIDE DEF h
  <2>4. CASE what = "start"
    <3>1. \A c \in Attempts :
            /\ In(queue', Job("start", c)) <=> In(queue, Job("start", c)) /\ c # d
            /\ In(queue', Job("stop", c)) <=> In(queue, Job("stop", c))
            /\ In(queue', Job("join", c)) <=> In(queue, Job("join", c))
            /\ Job("start", c) \in running' <=> Job("start", c) \in running \/ c = d
            /\ Job("stop", c) \in running' <=> Job("stop", c) \in running
            /\ Job("join", c) \in running' <=> Job("join", c) \in running
      BY <2>1, <2>2, <2>3, <2>4, JobsDiffer
    <3>2. Starts'
      BY <1>0, <2>1, <2>2, <2>3, <2>4, <3>1 DEF Starts, Answered
    <3>3. StopsOnce'
      BY <1>0, <2>1, <3>1 DEF StopsOnce, StopOwed, StopQueued, StopRuns, StopJoins
    <3> QED
      BY <1>0, <2>1, <2>2, <3>1, <3>2, <3>3 DEF JobsOnce
  <2>5. CASE what = "stop"
    <3>1. \A c \in Attempts :
            /\ In(queue', Job("start", c)) <=> In(queue, Job("start", c))
            /\ In(queue', Job("stop", c)) <=> In(queue, Job("stop", c)) /\ c # d
            /\ In(queue', Job("join", c)) <=> In(queue, Job("join", c))
            /\ Job("start", c) \in running' <=> Job("start", c) \in running
            /\ Job("stop", c) \in running' <=> Job("stop", c) \in running \/ c = d
            /\ Job("join", c) \in running' <=> Job("join", c) \in running
      BY <2>1, <2>2, <2>3, <2>5, JobsDiffer
    <3>2. Starts'
      BY <1>0, <2>1, <3>1 DEF Starts, Answered
    <3>3. StopsOnce'
      BY <1>0, <2>1, <2>2, <2>3, <2>5, <3>1
         DEF StopsOnce, StopOwed, StopQueued, StopRuns, StopJoins
    <3> QED
      BY <1>0, <2>1, <2>2, <3>1, <3>2, <3>3 DEF JobsOnce
  <2>6. what # "join"
    BY <1>0, <2>2, <2>3
  <2> QED
    BY <2>4, <2>5, <2>6
<1>4. ASSUME NEW c \in Attempts, StartReturns(c)
      PROVE  JobsOnce'
  <2>1. /\ Job("start", c) \in running /\ running' = running \ {Job("start", c)}
        /\ UNCHANGED <<stage, queue, widget, to_stop, joining, stopped>>
    BY <1>4 DEF StartReturns, tableVars, quitVars
  <2>2. PICK what \in {"result", "error"} : inbox' = Append(inbox, Job(what, c))
    BY <1>4 DEF StartReturns, Posted
  <2>3. ~Answered(c) /\ ~In(inbox, Job(what, c)) /\ Job(what, c) \in Signals
    BY <1>0, <2>1, JobParts DEF Starts, Answered
  <2>4. Once(inbox') /\ \A x : In(inbox', x) <=> In(inbox, x) \/ x = Job(what, c)
    BY <1>0, <2>2, <2>3, Push
  <2>5. \A d \in Attempts :
          /\ In(inbox', Job("result", d)) <=>
               In(inbox, Job("result", d)) \/ (what = "result" /\ c = d)
          /\ In(inbox', Job("error", d)) <=>
               In(inbox, Job("error", d)) \/ (what = "error" /\ c = d)
          /\ Job("start", d) \in running' <=> Job("start", d) \in running /\ d # c
          /\ Job("stop", d) \in running' <=> Job("stop", d) \in running
          /\ Job("join", d) \in running' <=> Job("join", d) \in running
    BY <2>1, <2>4, JobsDiffer
  <2>6. Starts'
    BY <1>0, <2>1, <2>3, <2>5 DEF Starts, Answered
  <2>7. StopsOnce'
    BY <1>0, <2>1, <2>5 DEF StopsOnce, StopOwed, StopQueued, StopRuns, StopJoins
  <2> QED
    BY <1>0, <2>1, <2>4, <2>6, <2>7 DEF JobsOnce
<1>5. ASSUME NEW c \in Attempts, StopBegins(c)
      PROVE  JobsOnce'
  <2>1. /\ Job("stop", c) \in running
        /\ running' = (running \ {Job("stop", c)}) \cup {Job("join", c)}
        /\ UNCHANGED <<stage, queue, inbox, widget, to_stop, joining, stopped>>
    BY <1>5 DEF StopBegins, tableVars, quitVars
  <2>2. \A d \in Attempts :
          /\ Job("start", d) \in running' <=> Job("start", d) \in running
          /\ Job("stop", d) \in running' <=> Job("stop", d) \in running /\ d # c
          /\ Job("join", d) \in running' <=> Job("join", d) \in running \/ d = c
    BY <2>1, JobsDiffer
  <2>3. Starts'
    BY <1>0, <2>1, <2>2 DEF Starts, Answered
  <2>4. StopsOnce'
    BY <1>0, <2>1, <2>2 DEF StopsOnce, StopOwed, StopQueued, StopRuns, StopJoins
  <2> QED
    BY <1>0, <2>1, <2>3, <2>4 DEF JobsOnce
<1>6. ASSUME NEW c \in Attempts, StopReturns(c)
      PROVE  JobsOnce'
  <2>1. /\ Job("join", c) \in running /\ running' = running \ {Job("join", c)}
        /\ stopped' = stopped \cup {c}
        /\ UNCHANGED <<stage, queue, inbox, widget, to_stop, joining>>
    BY <1>6 DEF StopReturns, tableVars, quitVars
  <2>2. \A d \in Attempts :
          /\ Job("start", d) \in running' <=> Job("start", d) \in running
          /\ Job("stop", d) \in running' <=> Job("stop", d) \in running
          /\ Job("join", d) \in running' <=> Job("join", d) \in running /\ d # c
    BY <2>1, JobsDiffer
  <2>3. Starts'
    BY <1>0, <2>1, <2>2 DEF Starts, Answered
  <2>4. StopsOnce'
    BY <1>0, <2>1, <2>2 DEF StopsOnce, StopOwed, StopQueued, StopRuns, StopJoins
  <2> QED
    BY <1>0, <2>1, <2>3, <2>4 DEF JobsOnce
<1>7. ASSUME NEW c \in Attempts, Connect(c) \/ OpenPlain(c)
      PROVE  JobsOnce'
  <2>1. /\ stage[c] = "idle" /\ UNCHANGED <<running, inbox, to_stop, joining, stopped>>
        /\ ~In(queue, Job("start", c)) /\ Job("start", c) \notin running /\ ~Answered(c)
    BY ConnectParts, <1>0, <1>7 DEF StartTunnel, OpenAtOnce, OpenPlain, quitVars, poolVars, Starts
  <2>2. CASE Connect(c) /\ c \in Tunnelled
    <3>1. /\ stage' = [stage EXCEPT ![c] = "starting"] /\ queue' = Append(queue, Job("start", c))
          /\ widget' = widget /\ Job("start", c) \in Jobs
      BY ConnectParts, <2>2, JobParts DEF StartTunnel, OpenAtOnce, tableVars
    <3>2. Once(queue') /\ \A x : In(queue', x) <=> In(queue, x) \/ x = Job("start", c)
      BY <1>0, <2>1, <3>1, Push
    <3>3. \A d \in Attempts : /\ In(queue', Job("start", d)) <=> In(queue, Job("start", d)) \/ d = c
                              /\ In(queue', Job("stop", d)) <=> In(queue, Job("stop", d))
                              /\ In(queue', Job("join", d)) <=> In(queue, Job("join", d))
                              /\ stage'[d] = IF d = c THEN "starting" ELSE stage[d]
      BY <3>1, <3>2, JobsDiffer DEF TypeOK
    <3>4. Starts'
      BY <1>0, <2>1, <3>3 DEF Starts, Answered
    <3>5. StopsOnce'
      BY <1>0, <2>1, <3>1, <3>3 DEF StopsOnce, StopOwed, StopQueued, StopRuns, StopJoins
    <3> QED
      BY <1>0, <2>1, <3>2, <3>3, <3>4, <3>5 DEF JobsOnce
  <2>3. CASE (Connect(c) /\ c \notin Tunnelled) \/ OpenPlain(c)
    <3>1. /\ stage' = [stage EXCEPT ![c] = "resolved"] /\ queue' = queue
          /\ widget' = [widget EXCEPT ![c] = "open"]
      BY ConnectParts, <2>3 DEF StartTunnel, OpenAtOnce, OpenPlain, OpenSession, poolVars
    <3>2. \A d \in Attempts : Answered(d)' => Answered(d) /\ d # c
      BY <2>1 DEF Answered
    <3>3. \A d \in Attempts : In(inbox', Job("result", d)) => ~In(inbox', Job("error", d))
      BY <1>0, <2>1 DEF Starts
    <3>4. Once(inbox')
      BY <1>0, <2>1
    <3> QED
      BY <1>c, <2>1, <3>1, <3>2, <3>3, <3>4 DEF poolVars
  <2> QED
    BY <1>7, <2>2, <2>3
<1>8. CASE Deliver
  <2> DEFINE s == Head(inbox)
  <2>1. /\ app = "running" /\ inbox # <<>> /\ inbox' = Tail(inbox)
        /\ UNCHANGED <<running, to_stop, joining, stopped>>
    BY <1>8 DEF Deliver, quitVars
  <2>2. /\ s \in Signals /\ In(inbox, s) /\ Once(inbox')
        /\ \A x : In(inbox', x) <=> In(inbox, x) /\ x # s
    BY <1>0, <2>1, Pop
  <2>3. PICK what \in {"result", "error", "finished"}, c \in Attempts : s = Job(what, c)
    BY <2>2, JobParts
  <2>4. s.what = what /\ s.of = c
    BY <2>3 DEF Job
  <2>5. CASE what \in {"result", "error"}
    <3>1. /\ stage' = [stage EXCEPT ![c] = "resolved"] /\ queue' = queue
          /\ widget' = widget \/ widget' = [widget EXCEPT ![c] = "open"]
      BY <1>8, <2>4, <2>5 DEF Deliver, OpenSession, tableVars
    <3> HIDE DEF s
    <3>2. Answered(c) /\ stage[c] = "starting"
      BY <1>0, <2>2, <2>3, <2>5 DEF Starts, Answered
    <3>3. ~In(queue, Job("start", c)) /\ Job("start", c) \notin running
      BY <1>0, <3>2 DEF Starts
    <3>4. ~In(inbox', Job("result", c)) /\ ~In(inbox', Job("error", c))
      BY <1>0, <2>2, <2>3, <2>5 DEF Starts
    <3>5. \A d \in Attempts : Answered(d)' => Answered(d) /\ d # c
      BY <2>2, <3>4 DEF Answered
    <3>6. \A d \in Attempts : In(inbox', Job("result", d)) => ~In(inbox', Job("error", d))
      BY <1>0, <2>2 DEF Starts
    <3> QED
      BY <1>c, <2>1, <2>2, <3>1, <3>2, <3>3, <3>5, <3>6 DEF poolVars
  <2>6. CASE what = "finished"
    <3>1. /\ stage' = stage
          /\ (UNCHANGED <<tableVars, queue>>) \/ DisconnectRequested(session_id[c])
      BY <1>8, <2>4, <2>6 DEF Deliver
    <3>2. session_id[c] \in Ids
      BY <1>0, <2>2, <2>3, <2>6 DEF Ends, TypeOK
    <3> HIDE DEF s
    <3>3. CASE UNCHANGED <<tableVars, queue>>
      BY <1>b, <2>1, <2>2, <3>1, <3>3 DEF tableVars, poolVars
    <3>4. CASE DisconnectRequested(session_id[c])
      BY <1>d, <2>1, <2>2, <3>1, <3>2, <3>4
    <3> QED
      BY <3>1, <3>3, <3>4
  <2> QED
    BY <2>5, <2>6
<1>9. ASSUME NEW c \in Attempts, WidgetFinishes(c)
      PROVE  JobsOnce'
  <2>1. /\ c \notin asked /\ inbox' = Append(inbox, Job("finished", c))
        /\ UNCHANGED <<stage, poolVars, widget, to_stop, joining, stopped>>
    BY <1>9 DEF WidgetFinishes, Posted, tableVars, quitVars
  <2>2. ~In(inbox, Job("finished", c)) /\ Job("finished", c) \in Signals
    BY <1>0, <2>1, JobParts DEF Ends
  <2>3. Once(inbox') /\ \A x : In(inbox', x) <=> In(inbox, x) \/ x = Job("finished", c)
    BY <1>0, <2>1, <2>2, Push
  <2>4. \A d \in Attempts : \A what \in {"result", "error"} :
          In(inbox', Job(what, d)) => In(inbox, Job(what, d))
    BY <2>3, JobsDiffer
  <2> QED
    BY <1>b, <2>1, <2>3, <2>4
<1>10. ASSUME NEW c \in Attempts, UserCloses(c)
       PROVE  JobsOnce'
  <2>1. app = "running" /\ UNCHANGED <<stage, running, inbox, to_stop, joining, stopped>>
    BY <1>10 DEF UserCloses, quitVars
  <2>2. ASSUME NEW i \in Ids, DisconnectRequested(i)
        PROVE  JobsOnce'
    BY <1>0, <1>d, <2>1, <2>2
  <2>3. ASSUME widget' = [widget EXCEPT ![c] = "closed"], queue' = queue
        PROVE  JobsOnce'
    <3>1. \A d \in Attempts : widget[d] = "closed" => widget'[d] = "closed"
      BY <2>3 DEF TypeOK
    <3> QED
      BY <1>a, <2>1, <2>3, <3>1 DEF poolVars
  <2> QED
    BY <1>10, <2>2, <2>3 DEF UserCloses
<1>11. CASE Quit
  <2>1. /\ app = "running" /\ to_stop' = {active_sessions[i] : i \in Ids} \ {None}
        /\ UNCHANGED <<stage, poolVars, inbox, joining, stopped>>
        /\ \A c \in Attempts :
             widget'[c] = IF \E i \in Ids : session_tab_widgets[i] = c THEN "closed" ELSE widget[c]
    BY <1>11 DEF Quit
  <2>2. \A c \in to_stop' : c \in Tunnelled /\ widget[c] = "open" /\ widget'[c] = "closed"
    <3> SUFFICES ASSUME NEW c \in to_stop'
                 PROVE  c \in Tunnelled /\ widget[c] = "open" /\ widget'[c] = "closed"
      OBVIOUS
    <3>1. PICK i \in Ids : active_sessions[i] = c /\ c # None
      BY <2>1
    <3>2. c \in Tunnelled /\ session_tab_widgets[i] = c /\ widget[c] = "open"
      BY <1>0, <2>1, <3>1 DEF Sessions
    <3> QED
      BY <2>1, <3>2 DEF Attempts
  <2>3. \A c \in to_stop' : ~StopOwed(c)
    BY <1>0, <2>2 DEF StopsOnce, Attempts
  <2>4. Starts'
    BY <1>0, <2>1 DEF poolVars, Starts, Answered
  <2>5. \A c \in Attempts : widget[c] = "closed" => widget'[c] = "closed"
    BY <2>1
  <2>6. StopsOnce'
    BY <1>0, <2>1, <2>2, <2>3, <2>5 DEF poolVars, StopsOnce, StopOwed, StopQueued, StopRuns, StopJoins
  <2> QED
    BY <1>0, <2>1, <2>4, <2>6 DEF poolVars, JobsOnce
<1>12. ASSUME NEW c \in Attempts, QuitStops(c)
       PROVE  JobsOnce'
  <2>1. /\ joining = None /\ c \in to_stop /\ joining' = c /\ to_stop' = to_stop \ {c}
        /\ UNCHANGED <<stage, poolVars, inbox, widget, stopped>>
    BY <1>12 DEF QuitStops, tableVars
  <2>2. Starts'
    BY <1>0, <2>1 DEF poolVars, Starts, Answered
  <2>3. StopsOnce'
    BY <1>0, <2>1 DEF poolVars, StopsOnce, StopOwed, StopQueued, StopRuns, StopJoins
  <2> QED
    BY <1>0, <2>1, <2>2, <2>3 DEF poolVars, JobsOnce
<1>13. CASE QuitJoins
  <2>1. /\ joining # None /\ joining' = None /\ stopped' = stopped \cup {joining}
        /\ UNCHANGED <<stage, poolVars, inbox, widget, to_stop>>
    BY <1>13 DEF QuitJoins, tableVars
  <2>2. Starts'
    BY <1>0, <2>1 DEF poolVars, Starts, Answered
  <2>3. StopsOnce'
    BY <1>0, <2>1, NoneIsNoAttempt
       DEF poolVars, StopsOnce, StopOwed, StopQueued, StopRuns, StopJoins
  <2> QED
    BY <1>0, <2>1, <2>2, <2>3 DEF poolVars, JobsOnce
<1> QED
  BY <1>1, <1>2, <1>3, <1>4, <1>5, <1>6, <1>7, <1>8, <1>9, <1>10, <1>11, <1>12, <1>13
     DEF Next, PoolStep, UserStep

-----------------------------------------------------------------------------
(* Types.                                                                  *)

LEMMA OpenType ==
  ASSUME TypeOK, Numbers, NEW c \in Attempts, session_id[c] = 0, OpenSession(c)
  PROVE  /\ next_session_id' \in Nat /\ session_id' \in [Attempts -> Ids \cup {0}]
         /\ active_sessions' \in [Ids -> Tunnelled \cup {None}]
         /\ session_tab_widgets' \in [Ids -> Attempts \cup {None}]
         /\ tabs' \subseteq Attempts /\ dialog' \subseteq Ids
         /\ widget' \in [Attempts -> {"none", "open", "closed"}]
  BY NextIsId DEF TypeOK, OpenSession, FreshId

LEMMA DisconnectType ==
  ASSUME TypeOK, NEW i \in Ids, DisconnectRequested(i)
  PROVE  /\ next_session_id' \in Nat /\ session_id' \in [Attempts -> Ids \cup {0}]
         /\ active_sessions' \in [Ids -> Tunnelled \cup {None}]
         /\ session_tab_widgets' \in [Ids -> Attempts \cup {None}]
         /\ tabs' \subseteq Attempts /\ dialog' \subseteq Ids
         /\ widget' \in [Attempts -> {"none", "open", "closed"}]
         /\ queue' \in Seq(Jobs)
<1>1. /\ next_session_id' \in Nat /\ session_id' \in [Attempts -> Ids \cup {0}]
      /\ active_sessions' \in [Ids -> Tunnelled \cup {None}]
      /\ session_tab_widgets' \in [Ids -> Attempts \cup {None}]
      /\ tabs' \subseteq Attempts /\ dialog' \subseteq Ids
      /\ widget' \in [Attempts -> {"none", "open", "closed"}]
  BY DEF TypeOK, DisconnectRequested, TunnelPopped
<1>2. queue' \in Seq(Jobs)
  <2>1. CASE active_sessions[i] = None
    BY <2>1 DEF TypeOK, DisconnectRequested
  <2>2. CASE active_sessions[i] # None
    <3>1. active_sessions[i] \in Attempts /\ queue' = Append(queue, Job("stop", active_sessions[i]))
      BY <2>2 DEF TypeOK, DisconnectRequested, Attempts
    <3>2. Job("stop", active_sessions[i]) \in Jobs /\ queue \in Seq(Jobs)
      BY <3>1, JobParts, TypeFacts
    <3> QED
      BY <3>1, <3>2, Push
  <2> QED
    BY <2>1, <2>2
<1> QED
  BY <1>1, <1>2

LEMMA CancelType ==
  ASSUME TypeOK, NEW c \in Attempts
  PROVE  Cancelled(c) \in [Attempts -> {"none", "binding", "bound", "serving", "failed",
                                        "cancelled", "ended"}]
  BY DEF TypeOK, Cancelled

LEMMA NextType ==
  ASSUME TypeOK, Tables, JobsOnce, [Next]_vars
  PROVE  TypeOK'
<1>0. /\ Numbers /\ Stages /\ Ends /\ Starts /\ StopsOnce
      /\ queue \in Seq(Jobs) /\ inbox \in Seq(Signals) /\ running \subseteq Jobs
      /\ None \notin Attempts /\ Tunnelled \subseteq Attempts
  BY TypeFacts, TablesParts, NoneIsNoAttempt DEF JobsOnce, Attempts
<1>1. CASE UNCHANGED vars
  BY <1>1 DEF vars, poolVars, tableVars, quitVars, TypeOK
<1>2. ASSUME NEW c \in Attempts, TunnelStep(c)
      PROVE  TypeOK'
  <2>1. thread' \in [Attempts -> {"none", "binding", "bound", "serving", "failed",
                                  "cancelled", "ended"}]
    BY <1>2 DEF TunnelStep, ThreadBinds, ThreadFails, ThreadServes, ThreadEnds, SshForwards, SshDies,
                TypeOK
  <2> QED
    BY <1>2, <2>1 DEF TunnelStep, Unseen, poolVars, tableVars, quitVars, TypeOK
<1>3. CASE PoolTakes
  <2>1. Tail(queue) \in Seq(Jobs) /\ Head(queue) \in Jobs
    BY <1>0, <1>3, Pop DEF PoolTakes
  <2>2. queue' \in Seq(Jobs) /\ running' \subseteq Jobs
    BY <1>0, <1>3, <2>1 DEF PoolTakes
  <2>3. thread' \in [Attempts -> {"none", "binding", "bound", "serving", "failed",
                                  "cancelled", "ended"}]
    BY <1>3 DEF PoolTakes, TypeOK
  <2> QED
    BY <1>3, <2>2, <2>3 DEF PoolTakes, tableVars, quitVars, TypeOK
<1>4. ASSUME NEW c \in Attempts, StartReturns(c)
      PROVE  TypeOK'
  <2>1. PICK what \in {"result", "error"} : inbox' = Append(inbox, Job(what, c))
    BY <1>4 DEF StartReturns, Posted
  <2>2. inbox' \in Seq(Signals)
    BY <1>0, <2>1, Push, JobParts
  <2>3. thread' \in [Attempts -> {"none", "binding", "bound", "serving", "failed",
                                  "cancelled", "ended"}]
    BY <1>4, CancelType DEF StartReturns, TypeOK
  <2> QED
    BY <1>0, <1>4, <2>2, <2>3 DEF StartReturns, tableVars, quitVars, TypeOK
<1>5. ASSUME NEW c \in Attempts, StopBegins(c)
      PROVE  TypeOK'
  <2>1. running' \subseteq Jobs
    BY <1>0, <1>5, JobParts DEF StopBegins
  <2> QED
    BY <1>5, <2>1, CancelType DEF StopBegins, tableVars, quitVars, TypeOK
<1>6. ASSUME NEW c \in Attempts, StopReturns(c)
      PROVE  TypeOK'
  <2>1. c \in Tunnelled /\ running' \subseteq Jobs
    BY <1>0, <1>6 DEF StopReturns, StopsOnce, StopOwed, StopJoins
  <2> QED
    BY <1>6, <2>1 DEF StopReturns, tableVars, quitVars, TypeOK
<1>7. ASSUME NEW c \in Attempts, Connect(c)
      PROVE  TypeOK'
  <2>1. stage' \in [Attempts -> {"idle", "starting", "resolved"}] /\ session_id[c] = 0
    BY ConnectParts, <1>0, <1>7 DEF StartTunnel, OpenAtOnce, TypeOK, Stages
  <2>2. CASE c \in Tunnelled
    <3>1. queue' = Append(queue, Job("start", c)) /\ Job("start", c) \in Jobs
      BY ConnectParts, <1>7, <2>2, JobParts DEF StartTunnel, OpenAtOnce
    <3>2. queue' \in Seq(Jobs)
      BY <1>0, <3>1, Push
    <3> QED
      BY ConnectParts, <1>7, <2>1, <2>2, <3>2 DEF StartTunnel, OpenAtOnce, tableVars, quitVars, TypeOK
  <2>3. CASE c \notin Tunnelled
    <3>1. OpenSession(c)
      BY ConnectParts, <1>7, <2>3 DEF StartTunnel, OpenAtOnce
    <3> QED
      BY ConnectParts, <1>0, <1>7, <2>1, <2>3, <3>1, OpenType DEF StartTunnel, OpenAtOnce, quitVars, TypeOK
  <2> QED
    BY <2>2, <2>3
<1>8. ASSUME NEW c \in Attempts, OpenPlain(c)
      PROVE  TypeOK'
  BY <1>8 DEF OpenPlain, poolVars, quitVars, TypeOK
<1>9. CASE Deliver
  <2> DEFINE s == Head(inbox)
  <2>1. s \in Signals /\ In(inbox, s) /\ inbox' \in Seq(Signals)
    BY <1>0, <1>9, Pop DEF Deliver
  <2>2. /\ s.what \in {"result", "error", "finished"} /\ s.of \in Attempts
        /\ s = Job(s.what, s.of)
    BY <2>1, JobParts
  <2>3. UNCHANGED <<thread, running, asked, stopped, quitVars>>
    BY <1>9 DEF Deliver
  <2>4. CASE s.what = "result"
    <3>1. session_id[s.of] = 0
      BY <1>0, <2>1, <2>2, <2>4 DEF Starts, Answered, Stages
    <3>2. OpenSession(s.of) /\ stage' = [stage EXCEPT ![s.of] = "resolved"] /\ queue' = queue
      BY <1>9, <2>4 DEF Deliver
    <3>3. stage' \in [Attempts -> {"idle", "starting", "resolved"}]
      BY <3>2 DEF TypeOK
    <3> HIDE DEF s
    <3> QED
      BY <1>0, <2>1, <2>2, <2>3, <3>1, <3>2, <3>3, OpenType DEF quitVars, TypeOK
  <2>5. CASE s.what = "error"
    <3>1. stage' = [stage EXCEPT ![s.of] = "resolved"] /\ UNCHANGED <<tableVars, queue>>
      BY <1>9, <2>5 DEF Deliver
    <3>2. stage' \in [Attempts -> {"idle", "starting", "resolved"}]
      BY <3>1 DEF TypeOK
    <3> QED
      BY <2>1, <2>3, <3>1, <3>2 DEF tableVars, quitVars, TypeOK
  <2>6. CASE s.what = "finished"
    <3>1. stage' = stage
          /\ ((UNCHANGED <<tableVars, queue>>) \/ DisconnectRequested(session_id[s.of]))
      BY <1>9, <2>6 DEF Deliver
    <3>2. session_id[s.of] \in Ids
      BY <1>0, <2>1, <2>2, <2>6 DEF Ends, TypeOK
    <3> HIDE DEF s
    <3>3. CASE UNCHANGED <<tableVars, queue>>
      BY <2>1, <2>3, <3>1, <3>3 DEF tableVars, quitVars, TypeOK
    <3>4. CASE DisconnectRequested(session_id[s.of])
      BY <2>1, <2>3, <3>1, <3>2, <3>4, DisconnectType DEF quitVars, TypeOK
    <3> QED
      BY <3>1, <3>3, <3>4
  <2> QED
    BY <2>2, <2>4, <2>5, <2>6
<1>10. ASSUME NEW c \in Attempts, WidgetFinishes(c)
       PROVE  TypeOK'
  <2>1. inbox' \in Seq(Signals)
    BY <1>0, <1>10, Push, JobParts DEF WidgetFinishes, Posted
  <2> QED
    BY <1>10, <2>1 DEF WidgetFinishes, poolVars, tableVars, quitVars, TypeOK
<1>11. ASSUME NEW c \in Attempts, UserCloses(c)
       PROVE  TypeOK'
  <2>1. /\ asked' \subseteq Attempts
        /\ UNCHANGED <<stage, thread, running, inbox, stopped, quitVars>>
    BY <1>11 DEF UserCloses, TypeOK
  <2>2. ASSUME NEW i \in Ids, DisconnectRequested(i)
        PROVE  TypeOK'
    BY <2>1, <2>2, DisconnectType DEF quitVars, TypeOK
  <2>3. ASSUME tabs' = tabs \ {c}, widget' = [widget EXCEPT ![c] = "closed"],
               UNCHANGED <<queue, session_id, next_session_id, active_sessions,
                           session_tab_widgets, dialog>>
        PROVE  TypeOK'
    BY <2>1, <2>3 DEF quitVars, TypeOK
  <2> QED
    BY <1>11, <2>2, <2>3 DEF UserCloses
<1>12. CASE Quit
  BY <1>12 DEF Quit, poolVars, TypeOK
<1>13. ASSUME NEW c \in Attempts, QuitStops(c)
       PROVE  TypeOK'
  BY <1>13, CancelType DEF QuitStops, poolVars, tableVars, TypeOK
<1>14. CASE QuitJoins
  BY <1>14 DEF QuitJoins, poolVars, tableVars, TypeOK
<1>15. CASE Exit
  BY <1>15 DEF Exit, poolVars, tableVars, TypeOK
<1> QED
  BY <1>1, <1>2, <1>3, <1>4, <1>5, <1>6, <1>7, <1>8, <1>9, <1>10, <1>11, <1>12, <1>13, <1>14, <1>15
     DEF Next, PoolStep, UserStep

-----------------------------------------------------------------------------
(* One place for a stop is one stop.                                       *)

LEMMA OnePlaceIsOneStop ==
  ASSUME TypeOK, JobsOnce
  PROVE  TunnelStoppedOnce
<1> SUFFICES ASSUME NEW c \in Tunnelled
             PROVE  Stops(c) <= 1 /\ (Stops(c) = 1 => widget[c] = "closed")
  BY DEF TunnelStoppedOnce
<1> DEFINE K == {k \in 1..Len(queue) : queue[k] = Job("stop", c)}
           R == running \cap {Job("stop", c), Job("join", c)}
<1>0. c \in Attempts /\ Once(queue) /\ StopsOnce
  BY DEF JobsOnce, Attempts
<1>1. Cardinality(K) = IF StopQueued(c) THEN 1 ELSE 0
  <2>1. CASE StopQueued(c)
    <3>1. PICK k \in 1..Len(queue) : queue[k] = Job("stop", c)
      BY <2>1 DEF StopQueued, In
    <3>2. K = {k}
      BY <1>0, <3>1 DEF Once
    <3> QED
      BY <2>1, <3>2, FS_Singleton
  <2>2. CASE ~StopQueued(c)
    <3>1. K = {}
      BY <2>2 DEF StopQueued, In
    <3> QED
      BY <2>2, <3>1, FS_EmptySet
  <2> QED
    BY <2>1, <2>2
<1>2. Cardinality(R) = IF StopRuns(c) \/ StopJoins(c) THEN 1 ELSE 0
  <2>1. CASE StopRuns(c)
    <3>1. R = {Job("stop", c)}
      BY <1>0, <2>1 DEF StopsOnce, StopRuns, StopJoins
    <3> QED
      BY <2>1, <3>1, FS_Singleton
  <2>2. CASE StopJoins(c)
    <3>1. R = {Job("join", c)}
      BY <1>0, <2>2 DEF StopsOnce, StopRuns, StopJoins
    <3> QED
      BY <2>2, <3>1, FS_Singleton
  <2>3. CASE ~StopRuns(c) /\ ~StopJoins(c)
    <3>1. R = {}
      BY <2>3 DEF StopRuns, StopJoins
    <3> QED
      BY <2>3, <3>1, FS_EmptySet
  <2> QED
    BY <2>1, <2>2, <2>3
<1>3. \A S : Cardinality({c} \cap S) = IF c \in S THEN 1 ELSE 0
  <2> SUFFICES ASSUME NEW S PROVE Cardinality({c} \cap S) = IF c \in S THEN 1 ELSE 0
    OBVIOUS
  <2>1. CASE c \in S
    <3>1. {c} \cap S = {c}
      BY <2>1
    <3> QED
      BY <2>1, <3>1, FS_Singleton
  <2>2. CASE c \notin S
    <3>1. {c} \cap S = {}
      BY <2>2
    <3> QED
      BY <2>2, <3>1, FS_EmptySet
  <2> QED
    BY <2>1, <2>2
<1>4. /\ Cardinality({c} \cap to_stop) = IF c \in to_stop THEN 1 ELSE 0
      /\ Cardinality({c} \cap {joining}) = IF c = joining THEN 1 ELSE 0
      /\ Cardinality({c} \cap stopped) = IF c \in stopped THEN 1 ELSE 0
  BY <1>3
<1>5. Stops(c) = (IF StopQueued(c) THEN 1 ELSE 0) + (IF StopRuns(c) \/ StopJoins(c) THEN 1 ELSE 0)
                 + (IF c \in to_stop THEN 1 ELSE 0) + (IF c = joining THEN 1 ELSE 0)
                 + (IF c \in stopped THEN 1 ELSE 0)
  BY <1>1, <1>2, <1>4 DEF Stops
<1>6. Stops(c) = IF StopOwed(c) THEN 1 ELSE 0
  BY <1>0, <1>5 DEF StopsOnce, StopOwed
<1> QED
  BY <1>0, <1>6 DEF StopsOnce

-----------------------------------------------------------------------------
(* The theorems.                                                           *)

LEMMA InitInv == Init => IInv
<1> SUFFICES ASSUME Init PROVE IInv
  OBVIOUS
<1>1. None \notin Attempts /\ IsFiniteSet(Attempts)
  BY AttemptsAssumption
<1>2. Len(queue) = 0 /\ Len(inbox) = 0 /\ Numbered = {} /\ Cardinality({}) = 0
  BY FS_EmptySet DEF Init, Numbered
<1>3. TypeOK
  BY <1>1 DEF Init, TypeOK
<1>4. Numbers
  BY <1>2 DEF Init, Numbers
<1>5. Stages /\ Ends /\ Sessions
  BY <1>1, <1>2, NoneIsNoAttempt DEF Init, Stages, Ends, Sessions, In
<1>6. JobsOnce
  BY <1>1, <1>2 DEF Init, JobsOnce, Once, In, Starts, StopsOnce, Answered, StopOwed, StopQueued,
                    StopRuns, StopJoins
<1> QED
  BY <1>3, <1>4, <1>5, <1>6, TablesParts DEF IInv

LEMMA NextInv == IInv /\ [Next]_vars => IInv'
  BY NextType, NextTables, NextJobs DEF IInv

LEMMA InvHolds == Spec => []IInv
  BY InitInv, NextInv, PTL DEF Spec

(* Every variable of the view, the pool and the tunnels keeps its type, for *)
(* any attempts; in particular the numbers never run out, which counts the *)
(* sessions opened.                                                        *)
THEOREM TypeCorrect == Spec => []TypeOK
<1>1. IInv => TypeOK
  BY DEF IInv
<1> QED
  BY InvHolds, <1>1, PTL

(* _session_tab_widgets, _active_sessions, the tab bar and the window of   *)
(* active sessions agree whenever no handler runs.                         *)
THEOREM TablesAlwaysAgree == Spec => []TablesAgree
<1>1. IInv => TablesAgree
  BY DEF IInv, Tables
<1> QED
  BY InvHolds, <1>1, PTL

(* A late `finished` never closes another session than its own: a number   *)
(* is given to one attempt, ever.                                          *)
THEOREM NoOtherSessionCloses == Spec => []OnlyAskedSessionsClose
<1>1. IInv => OnlyAskedSessionsClose
  BY DEF IInv, Tables
<1> QED
  BY InvHolds, <1>1, PTL

(* However tab, session, list and quitting race to close a session, its    *)
(* tunnel's stop() is called once.                                         *)
THEOREM StoppedOnce == Spec => []TunnelStoppedOnce
<1>1. IInv => TunnelStoppedOnce
  BY OnePlaceIsOneStop DEF IInv
<1> QED
  BY InvHolds, <1>1, PTL

=============================================================================

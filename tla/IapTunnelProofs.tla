---------------------------- MODULE IapTunnelProofs ----------------------------
(***************************************************************************)
(* Proofs about IapTunnel, for every value of its constants: the type       *)
(* invariant, the exactness of the resend buffer, the bound on the time     *)
(* spent connecting, the bound on what the client may owe the relay in      *)
(* acknowledgements, and that the tunnel is a pipe in both directions.      *)
(***************************************************************************)
EXTENDS IapTunnel, SequenceTheorems, TLAPS

USE SizesAssumption, TimesAssumption DEF sessionVars

-------------------------------------------------------------------------------
(* Facts about the operators. *)

\* A unit made of a known kind and a number, and messages of such units.
LEMMA UnitType ==
    /\ \A k \in Tags \cup {"BYTES", "COUNT", "BAD"}, v \in Nat : U(k, v) \in Unit
    /\ \A a \in Unit : <<a>> \in Seq(Unit)
    /\ \A a, b \in Unit : <<a, b>> \in Seq(Unit)
  BY DEF U, Unit

\* Every proper or improper answer is a message of one or two units.
LEMMA AnswersType ==
    ASSUME relayGot \in Seq(Nat), NEW m \in Answers
    PROVE  m \in Seq(Unit) /\ m # <<>>
<1>1. Len(relayGot) \in Nat /\ 0 \in Nat /\ 0..1 \subseteq Nat
  OBVIOUS
<1>2. \/ m = <<U("RACK", 0), U("COUNT", Len(relayGot))>>
      \/ m = <<U("SID", 0)>> \/ m = <<U("RACK", 0)>> \/ m = <<U("BAD", 0)>>
      \/ \E c \in 0..1 : m = <<U("RACK", 0), U("COUNT", c)>>
  BY Zenon DEF Answers
<1>3. /\ U("RACK", 0) \in Unit /\ U("SID", 0) \in Unit /\ U("BAD", 0) \in Unit
      /\ \A c \in Nat : U("COUNT", c) \in Unit
  BY <1>1, UnitType DEF Tags
<1>4. \A a, b : <<a>> # <<>> /\ <<a, b>> # <<>>
  OBVIOUS
<1>5. m # <<>>
  BY <1>2, <1>4, Zenon
<1> QED
  BY <1>1, <1>2, <1>3, <1>5, UnitType

\* Trimming keeps the length, the type and the upper ends.
LEMMA TrimType ==
    ASSUME NEW c \in Seq(Chunk), NEW n \in Nat
    PROVE  /\ Trim(c, n) \in Seq(Chunk) /\ Len(Trim(c, n)) = Len(c)
           /\ \A i \in 1..Len(c) : Trim(c, n)[i].to = c[i].to
           /\ \A i \in 1..Len(c) : Trim(c, n)[i].from =
                IF i = 1 /\ c[i].from < n THEN n ELSE c[i].from
<1> DEFINE e(i) == [from |-> IF i = 1 /\ c[i].from < n THEN n ELSE c[i].from,
                    to |-> c[i].to]
<1>1. \A i \in 1..Len(c) : e(i) \in Chunk
  <2>1. \A i \in 1..Len(c) : c[i] \in Chunk
    OBVIOUS
  <2> QED
    BY <2>1 DEF Chunk
<1>2. Len(c) \in Nat
  OBVIOUS
<1>3. Trim(c, n) = [i \in 1..Len(c) |-> e(i)]
  BY DEF Trim
<1>6. \A i : /\ e(i).to = c[i].to
             /\ e(i).from = IF i = 1 /\ c[i].from < n THEN n ELSE c[i].from
  OBVIOUS
<1> HIDE DEF e
<1>4. Trim(c, n) \in Seq(Chunk) /\ Len(Trim(c, n)) = Len(c)
  BY <1>1, <1>2, <1>3
<1>5. \A i \in 1..Len(c) : Trim(c, n)[i] = e(i)
  BY <1>3
<1> QED
  BY <1>4, <1>5, <1>6

\* What _confirm_bytes leaves has the right types.
LEMMA ConfirmType ==
    ASSUME unconfirmed \in Seq(Chunk), total_confirmed \in Nat,
           NEW n \in Nat, ConfirmBytes(n)
    PROVE  unconfirmed' \in Seq(Chunk) /\ total_confirmed' \in Nat
<1>1. SentTo \in Nat
  <2>1. unconfirmed # <<>> => unconfirmed[Len(unconfirmed)] \in Chunk
    OBVIOUS
  <2> QED
    BY <2>1 DEF SentTo, Chunk
<1>2. CASE OutOfOrder(n)
  BY <1>2 DEF ConfirmBytes, sendVars
<1>3. CASE ~OutOfOrder(n)
  <2>1. PICK k \in 0..Len(unconfirmed) :
          /\ unconfirmed' = Trim(SubSeq(unconfirmed, k + 1, Len(unconfirmed)), n)
          /\ total_confirmed' = IF n > SentTo THEN SentTo ELSE n
    BY <1>3 DEF ConfirmBytes
  <2>2. SubSeq(unconfirmed, k + 1, Len(unconfirmed)) \in Seq(Chunk)
    OBVIOUS
  <2> QED
    BY <1>1, <2>1, <2>2, TrimType
<1> QED
  BY <1>2, <1>3

\* The buffer still holds exactly what was read and not confirmed after any
\* acknowledgement, rejected ones included.
LEMMA ConfirmExact ==
    ASSUME unconfirmed \in Seq(Chunk), total_confirmed \in Nat,
           clientRead \in Nat, ResendBufferExact, NEW n \in Nat, ConfirmBytes(n),
           clientRead' = clientRead
    PROVE  ResendBufferExact'
<1>1. CASE OutOfOrder(n)
  BY <1>1 DEF ConfirmBytes, sendVars, ResendBufferExact, SentTo
<1>2. CASE ~OutOfOrder(n)
  <2> DEFINE L == Len(unconfirmed)
  <2>1. PICK k \in 0..L :
          /\ Fully(k, n)
          /\ unconfirmed' = Trim(SubSeq(unconfirmed, k + 1, L), n)
          /\ total_confirmed' = IF n > SentTo THEN SentTo ELSE n
    BY <1>2 DEF ConfirmBytes
  <2> DEFINE rest == SubSeq(unconfirmed, k + 1, L)
  <2>2. /\ rest \in Seq(Chunk) /\ Len(rest) = L - k
        /\ \A i \in 1..L - k : rest[i] = unconfirmed[k + i]
    OBVIOUS
  <2>3. unconfirmed' = Trim(rest, n)
    BY <2>1
  <2>4. /\ Len(unconfirmed') = L - k /\ unconfirmed' \in Seq(Chunk)
        /\ \A i \in 1..L - k : unconfirmed'[i].to = rest[i].to
        /\ \A i \in 1..L - k : unconfirmed'[i].from =
             IF i = 1 /\ rest[i].from < n THEN n ELSE rest[i].from
    <3> HIDE DEF rest
    <3>1. /\ Trim(rest, n) \in Seq(Chunk) /\ Len(Trim(rest, n)) = Len(rest)
          /\ \A i \in 1..Len(rest) : Trim(rest, n)[i].to = rest[i].to
          /\ \A i \in 1..Len(rest) : Trim(rest, n)[i].from =
               IF i = 1 /\ rest[i].from < n THEN n ELSE rest[i].from
      BY <2>2, TrimType, Zenon
    <3> QED
      BY <2>2, <2>3, <3>1
  <2> HIDE DEF rest
  <2>5. /\ SentTo = clientRead /\ total_confirmed <= n
        /\ \A i \in 1..L :
             /\ unconfirmed[i] \in Chunk
             /\ unconfirmed[i].from < unconfirmed[i].to
             /\ unconfirmed[i].to <= clientRead
             /\ unconfirmed[i].from =
                  IF i = 1 THEN total_confirmed ELSE unconfirmed[i - 1].to
    BY <1>2 DEF ResendBufferExact, OutOfOrder
  <2>6. L \in Nat /\ (unconfirmed = <<>> <=> L = 0)
    OBVIOUS
  <2>7. CASE k = L
    <3>1. L > 0 => unconfirmed[L].to <= n
      BY <2>1, <2>6, <2>7 DEF Fully
    <3>2. clientRead <= n
      BY <2>5, <2>6, <3>1 DEF SentTo
    <3>3. unconfirmed' = <<>> /\ Len(unconfirmed') = 0
      BY <2>4, <2>7
    <3>4. total_confirmed' = clientRead
      BY <2>1, <2>5, <3>2
    <3> QED
      BY <3>3, <3>4 DEF ResendBufferExact, SentTo
  <2>8. CASE k < L
    <3>1. k + 1 \in 1..L /\ L - k \in 1..L
      BY <2>6, <2>8
    <3>2. unconfirmed[k + 1].to > n
      BY <2>1, <2>8 DEF Fully
    <3>3. unconfirmed[k + 1].from <= n
      <4>1. CASE k = 0
        BY <2>5, <3>1, <4>1
      <4>2. CASE k > 0
        <5>1. k \in 1..k
          BY <4>2
        <5>2. unconfirmed[k].to <= n
          BY <2>1, <5>1 DEF Fully
        <5> QED
          BY <2>5, <3>1, <4>2, <5>2
      <4> QED BY <4>1, <4>2
    <3>4. n <= clientRead
      BY <2>5, <3>1, <3>2 DEF Chunk
    <3>5. total_confirmed' = n
      BY <2>1, <2>5, <3>4
    <3>6. SentTo' = clientRead
      <4>1. unconfirmed' # <<>> /\ unconfirmed'[L - k].to = unconfirmed[L].to
        BY <2>2, <2>4, <2>6, <2>8
      <4>2. unconfirmed[L].to = clientRead
        BY <2>5, <2>6, <2>8 DEF SentTo
      <4> QED
        BY <2>4, <4>1, <4>2 DEF SentTo
    <3>7. ASSUME NEW i \in 1..L - k
          PROVE  /\ unconfirmed'[i].from < unconfirmed'[i].to
                 /\ unconfirmed'[i].to <= clientRead
                 /\ unconfirmed'[i].from =
                      IF i = 1 THEN n ELSE unconfirmed'[i - 1].to
      <4>1. k + i \in 1..L /\ rest[i] = unconfirmed[k + i]
        BY <2>2, <2>6
      <4>2. CASE i = 1
        <5>1. unconfirmed'[1].from = n
          <6>1. rest[1] = unconfirmed[k + 1] /\ unconfirmed[k + 1].from \in Nat
            BY <2>5, <3>1, <4>1, <4>2 DEF Chunk
          <6>2. rest[1].from <= n /\ rest[1].from \in Nat
            BY <3>3, <6>1
          <6>3. unconfirmed'[1].from = IF rest[1].from < n THEN n ELSE rest[1].from
            BY <2>4, <4>2
          <6> QED
            BY <6>2, <6>3
        <5>2. unconfirmed'[1].to = unconfirmed[k + 1].to
          BY <2>4, <4>1, <4>2
        <5> QED
          BY <2>5, <3>1, <3>2, <4>2, <5>1, <5>2 DEF Chunk
      <4>3. CASE i # 1
        <5>1. /\ unconfirmed'[i].from = unconfirmed[k + i].from
              /\ unconfirmed'[i].to = unconfirmed[k + i].to
          BY <2>4, <4>1, <4>3
        <5>2. i - 1 \in 1..L - k /\ k + (i - 1) = (k + i) - 1 /\ k + i # 1
          BY <2>6, <4>3
        <5>3. unconfirmed'[i - 1].to = unconfirmed[(k + i) - 1].to
          BY <2>2, <2>4, <5>2
        <5> QED
          BY <2>5, <4>1, <4>3, <5>1, <5>2, <5>3
      <4> QED BY <4>2, <4>3
    <3> QED
      BY <2>4, <3>4, <3>5, <3>6, <3>7 DEF ResendBufferExact
  <2> QED
    BY <2>1, <2>6, <2>7, <2>8
<1> QED
  BY <1>1, <1>2

-------------------------------------------------------------------------------
(* The inductive invariant: the types, the resend buffer, and two facts the *)
(* code relies on without saying so.                                       *)

\* Nothing has been read from the client before the relay has accepted, so the
\* confirmation inside _await_connect_ack has nothing to confirm.
NothingSentYet ==
    phase \in {"opening", "awaiting", "backoff"} =>
        /\ unconfirmed = <<>> /\ clientRead = 0 /\ total_confirmed = 0
        /\ l2r = "idle" /\ r2l = "idle"

\* While drain() is awaited, the frame it belongs to heads the buffer.
DrainingData ==
    r2l = "draining" => HasFrame(buf) /\ Head(buf).kind = "DATA"

IInv == TypeOK /\ NothingSentYet /\ DrainingData /\ ResendBufferExact

\* The initial states satisfy it.
LEMMA InitIInv == Init => IInv
<1> SUFFICES ASSUME Init PROVE IInv
  OBVIOUS
<1>1. /\ <<>> \in Seq(Chunk) /\ <<>> \in Seq(Unit) /\ <<>> \in Seq(Frame)
      /\ <<>> \in Seq(Nat) /\ Len(<<>>) = 0
  OBVIOUS
<1>2. TypeOK
  BY <1>1 DEF Init, TypeOK, Phases
<1>3. ResendBufferExact
  BY <1>1 DEF Init, ResendBufferExact, SentTo
<1> QED
  BY <1>2, <1>3 DEF Init, IInv, NothingSentYet, DrainingData

\* What the codec operators return.
LEMMA CodecType ==
    ASSUME NEW b \in Seq(Unit), HasFrame(b)
    PROVE  /\ Remaining(b) \in Seq(Unit) /\ Head(b) \in Unit /\ b[1] = Head(b)
           /\ Head(b).val \in Nat
           /\ FrameLen(Head(b)) = 2 => b[2] \in Unit /\ b[2].val \in Nat
<1>1. Head(b) \in Unit /\ b[1] = Head(b) /\ Len(b) \in Nat
  BY DEF HasFrame
<1>2. FrameLen(Head(b)) \in {1, 2} /\ Len(b) >= FrameLen(Head(b))
  BY DEF HasFrame, FrameLen
<1>3. Remaining(b) \in Seq(Unit)
  BY <1>1, <1>2 DEF Remaining
<1>4. FrameLen(Head(b)) = 2 => b[2] \in Unit
  BY <1>1, <1>2
<1> QED
  BY <1>1, <1>3, <1>4 DEF Unit

\* With nothing to confirm, _confirm_bytes changes nothing.
LEMMA ConfirmNothing ==
    ASSUME unconfirmed = <<>>, total_confirmed = 0, NEW n \in Nat, ConfirmBytes(n)
    PROVE  unconfirmed' = <<>> /\ total_confirmed' = 0
<1>1. PICK k \in 0..Len(unconfirmed) :
        /\ unconfirmed' = Trim(SubSeq(unconfirmed, k + 1, Len(unconfirmed)), n)
        /\ total_confirmed' = IF n > SentTo THEN SentTo ELSE n
  BY DEF ConfirmBytes, OutOfOrder
<1>2. k = 0 /\ SubSeq(unconfirmed, k + 1, Len(unconfirmed)) = <<>>
  OBVIOUS
<1>3. Trim(<<>>, n) = <<>>
  <2>1. <<>> \in Seq(Chunk) /\ Len(<<>>) = 0
    OBVIOUS
  <2>2. Trim(<<>>, n) \in Seq(Chunk) /\ Len(Trim(<<>>, n)) = 0
    BY <2>1, TrimType
  <2> QED
    BY <2>2, EmptySeq
<1>4. SentTo = 0
  BY DEF SentTo
<1>5. unconfirmed' = <<>>
  BY <1>1, <1>2, <1>3, Zenon
<1>6. total_confirmed' = 0
  BY <1>1, <1>4
<1> QED
  BY <1>5, <1>6

\* What a failed attempt leaves.
LEMMA FailedAttempt ==
    ASSUME TypeOK, NEW t \in Nat, NEW why, AttemptFailed(t, why)
    PROVE  /\ phase' \in {"backoff", "done"} /\ error' = why /\ waited' = t
           /\ sleep_sec' = sleep_sec /\ first_attempt' \in BOOLEAN
           /\ localClosed' \in BOOLEAN
  BY DEF AttemptFailed, ConnectRaises, TypeOK

\* Before the relay has accepted there is nothing to send again.
LEMMA NothingResent ==
    ASSUME IInv, AckAccepted
    PROVE  /\ unconfirmed' = <<>> /\ total_confirmed' = 0 /\ toRelay' = toRelay
           /\ sid' \in BOOLEAN
<1> USE DEF IInv, sendVars
<1>0. unconfirmed = <<>> /\ total_confirmed = 0
  BY DEF AckAccepted, NothingSentYet
<1>1. PICK m \in Answers :
        /\ AckError(m) = "none"
        /\ IF Expected = "SID"
           THEN sid' = TRUE /\ UNCHANGED <<sendVars, toRelay>>
           ELSE \E k \in 0..Len(unconfirmed) :
                  /\ Fully(k, m[2].val)
                  /\ total_confirmed' = m[2].val
                  /\ toRelay' = toRelay \o DataFrames(Trim(
                       SubSeq(unconfirmed, k + 1, Len(unconfirmed)), m[2].val))
                  /\ unconfirmed' = <<>>
                  /\ UNCHANGED sid
  BY DEF AckAccepted
<1>2. m \in Seq(Unit) /\ m # <<>>
  BY AnswersType DEF TypeOK
<1>3. /\ unconfirmed' = <<>> /\ total_confirmed' = 0 /\ toRelay' = toRelay
      /\ sid' \in BOOLEAN
  <2>1. CASE Expected = "SID"
    BY <1>0, <1>1, <2>1
  <2>2. CASE Expected # "SID"
    <3>1. /\ HasFrame(m) /\ Head(m).kind = "RACK" /\ ~ConfirmFails(m[2].val)
      BY <1>1, <2>2 DEF AckError, Expected
    <3>2. m[2].val \in Nat
      BY <1>2, <3>1, CodecType DEF FrameLen
    <3>3. m[2].val = 0
      BY <1>0, <3>1, <3>2 DEF ConfirmFails, SentTo
    <3>4. DataFrames(Trim(SubSeq(<<>>, 1, 0), 0)) = <<>>
      <4>1. SubSeq(<<>>, 1, 0) = <<>> /\ <<>> \in Seq(Chunk) /\ Len(<<>>) = 0
        OBVIOUS
      <4>2. Trim(<<>>, 0) \in Seq(Chunk) /\ Len(Trim(<<>>, 0)) = 0
        BY <4>1, TrimType
      <4>3. Trim(<<>>, 0) = <<>>
        BY <4>2, EmptySeq
      <4>4. DataFrames(<<>>) = <<>>
        BY <4>1 DEF DataFrames
      <4> QED
        BY <4>1, <4>3, <4>4
    <3>5. toRelay \in Seq(Frame)
      BY DEF TypeOK
    <3> HIDE DEF IInv
    <3>6. PICK k \in 0..Len(unconfirmed) :
            toRelay' = toRelay \o DataFrames(Trim(
               SubSeq(unconfirmed, k + 1, Len(unconfirmed)), m[2].val))
      BY <1>1, <2>2
    <3>7. k = 0 /\ Len(unconfirmed) = 0
      BY <1>0
    <3>8. toRelay' = toRelay \o <<>>
      <4>1. k + 1 = 1 /\ Len(unconfirmed) = 0
        BY <3>7
      <4> QED
        BY <1>0, <3>3, <3>4, <3>6, <4>1, Zenon
    <3>9. toRelay' = toRelay
      BY <3>5, <3>8
    <3> QED
      BY <1>1, <2>2, <3>3, <3>9 DEF IInv, TypeOK
  <2> QED
    BY <2>1, <2>2
<1> QED
  BY <1>3

\* The steps of _connect keep the invariant.
LEMMA ConnectStep == IInv /\ Connect => IInv'
<1> SUFFICES ASSUME IInv, Connect PROVE IInv'
  OBVIOUS
<1> USE DEF IInv, connectVars, sendVars, ackVars, clientVars, relayVars
<1>1. phase \in {"opening", "awaiting", "backoff"}
  BY DEF Connect, Open, AckRejected, AckLost, AckRefused, AckAccepted, BackOff
<1>2. /\ unconfirmed = <<>> /\ clientRead = 0 /\ total_confirmed = 0
      /\ l2r = "idle" /\ r2l = "idle"
  BY <1>1 DEF NothingSentYet
<1>3. CASE Open
  <2>1. PICK t \in waited..waited + OpenTimeout :
          \/ /\ waited' = t /\ phase' = "awaiting" /\ ws' = "open"
             /\ UNCHANGED <<first_attempt, sleep_sec, error, localClosed>>
          \/ AttemptFailed(t, "network") /\ UNCHANGED ws
    BY <1>3 DEF Open
  <2>2. t \in Nat
    BY DEF TypeOK
  <2>3. /\ phase' \in {"awaiting", "backoff", "done"} /\ waited' = t
        /\ sleep_sec' = sleep_sec /\ first_attempt' \in BOOLEAN
        /\ localClosed' \in BOOLEAN /\ error' \in {error, "network"}
        /\ ws' \in {ws, "open"}
    BY <2>1, <2>2, FailedAttempt DEF TypeOK
  <2>4. request' \in {"connect", "reconnect"}
    BY <1>3 DEF Open
  <2>5. TypeOK'
    BY <1>3, <2>2, <2>3, <2>4 DEF Open, TypeOK, Phases
  <2> QED
    BY <1>2, <1>3, <2>5 DEF Open, NothingSentYet, DrainingData,
       ResendBufferExact, SentTo
<1>4. CASE AckLost
  <2>1. PICK t \in waited..waited + OpenTimeout : AttemptFailed(t, "network")
    BY <1>4 DEF AckLost
  <2>2. t \in Nat
    BY DEF TypeOK
  <2>3. /\ phase' \in {"backoff", "done"} /\ waited' = t /\ error' = "network"
        /\ sleep_sec' = sleep_sec /\ first_attempt' \in BOOLEAN
        /\ localClosed' \in BOOLEAN
    BY <2>1, <2>2, FailedAttempt
  <2>4. TypeOK'
    BY <1>4, <2>2, <2>3 DEF AckLost, TypeOK, Phases
  <2> QED
    BY <1>2, <1>4, <2>4 DEF AckLost, NothingSentYet, DrainingData,
       ResendBufferExact, SentTo
<1>5. CASE AckRefused
  BY <1>2, <1>5 DEF AckRefused, ConnectRaises, TypeOK, NothingSentYet,
     DrainingData, ResendBufferExact, SentTo, Phases
<1>6. CASE BackOff
  BY <1>2, <1>6 DEF BackOff, TypeOK, NothingSentYet, DrainingData,
     ResendBufferExact, SentTo, Phases
<1>7. CASE AckRejected
  <2>1. PICK t \in waited..waited + OpenTimeout, m \in Answers :
          /\ AckError(m) # "none"
          /\ AttemptFailed(t, AckError(m))
          /\ IF HasFrame(m) /\ Head(m).kind = "RACK" /\ Expected = "RACK"
             THEN ConfirmBytes(m[2].val) ELSE UNCHANGED sendVars
    BY <1>7 DEF AckRejected
  <2>2. m \in Seq(Unit) /\ m # <<>>
    BY AnswersType DEF TypeOK
  <2>3. unconfirmed' = <<>> /\ total_confirmed' = 0
    <3>1. CASE HasFrame(m) /\ Head(m).kind = "RACK" /\ Expected = "RACK"
      <4>1. m[2].val \in Nat
        BY <2>2, <3>1, CodecType DEF FrameLen
      <4> QED
        BY <1>2, <2>1, <3>1, <4>1, ConfirmNothing
    <3> QED
      BY <1>2, <2>1, <3>1
  <2>4. AckError(m) \in {"incomplete", "protocol"}
    BY <2>1 DEF AckError
  <2>5. t \in Nat
    BY DEF TypeOK
  <2>6. /\ phase' \in {"backoff", "done"} /\ waited' = t
        /\ error' \in {"incomplete", "protocol"}
        /\ sleep_sec' = sleep_sec /\ first_attempt' \in BOOLEAN
        /\ localClosed' \in BOOLEAN
    BY <2>1, <2>4, <2>5, FailedAttempt
  <2>7. TypeOK'
    BY <1>2, <1>7, <2>3, <2>5, <2>6 DEF AckRejected, TypeOK, Phases
  <2> QED
    BY <1>2, <1>7, <2>3, <2>7 DEF AckRejected, NothingSentYet, DrainingData,
       ResendBufferExact, SentTo
<1>8. CASE AckAccepted
  <2>1. /\ unconfirmed' = <<>> /\ total_confirmed' = 0 /\ toRelay' = toRelay
        /\ sid' \in BOOLEAN
    BY <1>8, NothingResent
  <2>2. discarded' \in Nat /\ relaySent' \in Nat
    BY <1>8 DEF AckAccepted, DataBehind
  <2> HIDE DEF IInv
  <2> QED
    BY <1>2, <1>8, <2>1, <2>2 DEF AckAccepted, TypeOK, NothingSentYet, DrainingData,
       ResendBufferExact, SentTo, Phases, IInv
<1> QED
  BY <1>3, <1>4, <1>5, <1>6, <1>7, <1>8 DEF Connect

\* A chunk read from the client joins the resend buffer at its end.
LEMMA AppendExact ==
    ASSUME unconfirmed \in Seq(Chunk), total_confirmed \in Nat, clientRead \in Nat,
           ResendBufferExact, NEW n \in Nat \ {0},
           clientRead' = clientRead + n, total_confirmed' = total_confirmed,
           unconfirmed' = Append(unconfirmed,
                                 [from |-> clientRead, to |-> clientRead + n])
    PROVE  ResendBufferExact' /\ unconfirmed' \in Seq(Chunk)
<1> DEFINE L == Len(unconfirmed)
           chunk == [from |-> clientRead, to |-> clientRead + n]
<1>1. chunk \in Chunk /\ chunk.from = clientRead /\ chunk.to = clientRead + n
  BY DEF Chunk
<1> HIDE DEF chunk
<1>2. /\ unconfirmed' \in Seq(Chunk) /\ Len(unconfirmed') = L + 1
      /\ unconfirmed'[L + 1] = chunk /\ unconfirmed' # <<>>
      /\ \A i \in 1..L : unconfirmed'[i] = unconfirmed[i]
  BY <1>1 DEF chunk
<1>3. SentTo' = clientRead'
  BY <1>1, <1>2 DEF SentTo
<1>4. L \in Nat /\ (unconfirmed = <<>> <=> L = 0)
  OBVIOUS
<1>5. L > 0 => unconfirmed[L].to = clientRead
  BY <1>4 DEF ResendBufferExact, SentTo
<1>6. L = 0 => total_confirmed = clientRead
  BY <1>4 DEF ResendBufferExact, SentTo
<1>7. ASSUME NEW i \in 1..L + 1
      PROVE  /\ unconfirmed'[i].from < unconfirmed'[i].to
             /\ unconfirmed'[i].to <= clientRead'
             /\ unconfirmed'[i].from =
                  IF i = 1 THEN total_confirmed' ELSE unconfirmed'[i - 1].to
  <2>1. CASE i = L + 1
    BY <1>1, <1>2, <1>4, <1>5, <1>6, <2>1
  <2>2. CASE i \in 1..L
    <3>1. unconfirmed[i] \in Chunk
      BY <2>2
    <3>2. i # 1 => i - 1 \in 1..L
      BY <2>2
    <3>3. /\ unconfirmed[i].from < unconfirmed[i].to
          /\ unconfirmed[i].to <= clientRead
          /\ unconfirmed[i].from =
               IF i = 1 THEN total_confirmed ELSE unconfirmed[i - 1].to
      BY <2>2 DEF ResendBufferExact
    <3>4. unconfirmed[i].to <= clientRead + n
      BY <3>1, <3>3 DEF Chunk
    <3>5. unconfirmed'[i] = unconfirmed[i]
      BY <1>2, <2>2
    <3>6. i # 1 => unconfirmed'[i - 1] = unconfirmed[i - 1]
      BY <1>2, <3>2
    <3> QED
      BY <3>3, <3>4, <3>5, <3>6
  <2> QED
    BY <1>4, <2>1, <2>2
<1>8. total_confirmed' <= clientRead'
  BY DEF ResendBufferExact
<1> QED
  BY <1>2, <1>3, <1>7, <1>8 DEF ResendBufferExact

\* The frames of _pump_local_to_remote keep their type.
LEMMA DataFramesType ==
    ASSUME NEW c \in Chunk
    PROVE  DataFrames(<<c>>) \in Seq(Frame)
  BY DEF DataFrames, Chunk, Frame

\* The steps of _pump_local_to_remote keep the invariant.
LEMMA LocalToRemoteStep == IInv /\ LocalToRemote => IInv'
<1> SUFFICES ASSUME IInv, LocalToRemote PROVE IInv'
  OBVIOUS
<1> USE DEF IInv, connectVars, sendVars, ackVars, relayVars, L2RFrame
<1>1. CASE ReadLocal
  <2>1. PICK n \in 1..MaxFrame :
          /\ clientRead' = clientRead + n
          /\ unconfirmed' = Append(unconfirmed,
                                   [from |-> clientRead, to |-> clientRead + n])
          /\ \/ /\ toRelay' = toRelay \o
                     DataFrames(<<[from |-> clientRead, to |-> clientRead + n]>>)
                /\ l2r' = "sending"
             \/ l2r' = "raised" /\ toRelay' = toRelay
    BY <1>1 DEF ReadLocal
  <2>2. n \in Nat \ {0} /\ clientRead' \in Nat
    BY <2>1 DEF TypeOK
  <2>3. ResendBufferExact' /\ unconfirmed' \in Seq(Chunk)
    BY <1>1, <2>1, <2>2, AppendExact DEF ReadLocal, TypeOK
  <2>4. [from |-> clientRead, to |-> clientRead + n] \in Chunk
    BY <2>2 DEF Chunk, TypeOK
  <2>5. toRelay' \in Seq(Frame) /\ l2r' \in {"sending", "raised"}
    <3>1. DataFrames(<<[from |-> clientRead, to |-> clientRead + n]>>) \in Seq(Frame)
      BY <2>4, DataFramesType
    <3>2. toRelay \in Seq(Frame)
      BY DEF TypeOK
    <3>3. toRelay \o
             DataFrames(<<[from |-> clientRead, to |-> clientRead + n]>>)
               \in Seq(Frame)
      BY <3>1, <3>2
    <3> HIDE DEF IInv
    <3> QED
      BY <2>1, <3>2, <3>3, Zenon
  <2>6. TypeOK'
    BY <1>1, <2>2, <2>3, <2>5 DEF ReadLocal, TypeOK, Ended
  <2> QED
    BY <1>1, <2>3, <2>6 DEF ReadLocal, NothingSentYet, DrainingData, HasFrame
<1>2. CASE ReadEof
  BY <1>2 DEF ReadEof, TypeOK, Ended, NothingSentYet, DrainingData, HasFrame,
     ResendBufferExact, SentTo
<1>3. CASE ReadReset
  BY <1>3 DEF ReadReset, TypeOK, Ended, NothingSentYet, DrainingData, HasFrame,
     ResendBufferExact, SentTo
<1>4. CASE Sent
  BY <1>4 DEF Sent, TypeOK, Ended, NothingSentYet, DrainingData, HasFrame,
     ResendBufferExact, SentTo
<1> QED
  BY <1>1, <1>2, <1>3, <1>4 DEF LocalToRemote

\* A step that leaves the resend buffer alone keeps it exact.
LEMMA BufferKept ==
    ASSUME ResendBufferExact, UNCHANGED <<sendVars, clientRead>>
    PROVE  ResendBufferExact'
  BY DEF ResendBufferExact, SentTo, sendVars

\* The steps of _pump_remote_to_local keep the invariant.
LEMMA RemoteToLocalStep == IInv /\ RemoteToLocal => IInv'
<1> SUFFICES ASSUME IInv, RemoteToLocal PROVE IInv'
  OBVIOUS
<1> USE DEF IInv, connectVars, ackVars, clientVars, relayVars, R2LFrame
<1>0. phase' = phase /\ phase \notin {"opening", "awaiting", "backoff"}
  BY DEF RemoteToLocal, Receive, ReceiveEnds, DecodeIncomplete, DecodeUnknown,
     DecodeData, Drained, AckSent, DecodeAck, DecodeUnexpected, NothingSentYet
<1>1. NothingSentYet'
  BY <1>0 DEF NothingSentYet
<1>2. CASE Receive
  <2>1. PICK k \in 1..Len(fromRelay) :
          /\ buf' = buf \o SubSeq(fromRelay, 1, k)
          /\ fromRelay' = SubSeq(fromRelay, k + 1, Len(fromRelay))
    BY <1>2 DEF Receive
  <2>2. fromRelay' \in Seq(Unit) /\ SubSeq(fromRelay, 1, k) \in Seq(Unit)
    BY <2>1 DEF TypeOK
  <2>3. buf' \in Seq(Unit)
    BY <2>1, <2>2 DEF TypeOK
  <2>4. TypeOK'
    BY <1>2, <2>2, <2>3 DEF Receive, TypeOK, sendVars
  <2> QED
    BY <1>1, <1>2, <2>4, BufferKept DEF Receive, DrainingData
<1>3. CASE ReceiveEnds
  <2>1. TypeOK'
    BY <1>3 DEF ReceiveEnds, TypeOK, sendVars, Ended
  <2> QED
    BY <1>1, <1>3, <2>1, BufferKept DEF ReceiveEnds, DrainingData
<1>4. CASE DecodeIncomplete
  <2>1. TypeOK'
    BY <1>4 DEF DecodeIncomplete, TypeOK, sendVars, Ended
  <2> QED
    BY <1>1, <1>4, <2>1, BufferKept DEF DecodeIncomplete, DrainingData
<1>5. CASE DecodeUnknown
  <2>1. TypeOK'
    BY <1>5 DEF DecodeUnknown, TypeOK, sendVars, Ended
  <2> QED
    BY <1>1, <1>5, <2>1, BufferKept DEF DecodeUnknown, DrainingData
<1>6. CASE DecodeData
  <2>1. buf \in Seq(Unit) /\ HasFrame(buf) /\ Head(buf).kind = "DATA"
    BY <1>6 DEF DecodeData, TypeOK
  <2>2. buf[1].val \in Nat /\ buf[2].val \in Nat
    BY <2>1, CodecType DEF FrameLen
  <2>3. Positions(buf[2].val, buf[1].val) \in Seq(Nat)
    BY <2>2 DEF Positions
  <2>4. clientGot' \in Seq(Nat)
    BY <1>6, <2>3 DEF DecodeData, TypeOK
  <2>5. TypeOK'
    BY <1>6, <2>4 DEF DecodeData, TypeOK, sendVars
  <2> QED
    BY <1>1, <1>6, <2>1, <2>5, BufferKept DEF DecodeData, DrainingData, HasFrame
<1>7. CASE Drained
  <2>1. buf \in Seq(Unit) /\ HasFrame(buf) /\ r2l = "draining"
    BY <1>7 DEF Drained, TypeOK, DrainingData
  <2>2. Head(buf).val \in Nat /\ Remaining(buf) \in Seq(Unit)
    BY <2>1, CodecType
  <2>3. total_received + Head(buf).val \in Nat
    BY <2>2 DEF TypeOK
  <2>4. [tag |-> "ACK", from |-> 0, to |-> total_received + Head(buf).val] \in Frame
    BY <2>3 DEF Frame
  <2>5. toRelay' \in Seq(Frame)
    <3>1. \/ toRelay' = toRelay
          \/ toRelay' = Append(toRelay,
               [tag |-> "ACK", from |-> 0, to |-> total_received + Head(buf).val])
      BY <1>7 DEF Drained
    <3>2. toRelay \in Seq(Frame)
      BY DEF TypeOK
    <3> HIDE DEF IInv
    <3> QED
      BY <2>4, <3>1, <3>2
  <2>6. /\ r2l' \in {"raised", "decoding", "acking"}
        /\ buf' \in Seq(Unit) /\ total_received' \in Nat
    BY <1>7, <2>1, <2>2, <2>3 DEF Drained, TypeOK
  <2>7. TypeOK'
    BY <1>7, <2>5, <2>6 DEF Drained, TypeOK, sendVars, Ended
  <2> QED
    BY <1>1, <1>7, <2>6, <2>7, BufferKept DEF Drained, DrainingData
<1>8. CASE AckSent
  <2>1. TypeOK' /\ r2l' \in {"decoding", "raised"}
    BY <1>8 DEF AckSent, TypeOK, sendVars, Ended
  <2> QED
    BY <1>1, <1>8, <2>1, BufferKept DEF AckSent, DrainingData
<1>9. CASE DecodeAck
  <2>1. buf \in Seq(Unit) /\ HasFrame(buf) /\ Head(buf).kind = "ACK"
    BY <1>9 DEF DecodeAck, TypeOK
  <2>2. buf[2].val \in Nat /\ Remaining(buf) \in Seq(Unit)
    BY <2>1, CodecType DEF FrameLen
  <2>3. ConfirmBytes(buf[2].val)
    BY <1>9 DEF DecodeAck
  <2>4. ResendBufferExact'
    BY <1>9, <2>2, <2>3, ConfirmExact DEF DecodeAck, TypeOK
  <2>5. unconfirmed' \in Seq(Chunk) /\ total_confirmed' \in Nat
    BY <2>2, <2>3, ConfirmType DEF TypeOK
  <2>6. r2l' \in {"raised", "decoding"} /\ buf' \in Seq(Unit)
    BY <1>9, <2>2 DEF DecodeAck
  <2>7. TypeOK'
    BY <1>9, <2>5, <2>6 DEF DecodeAck, TypeOK, Ended
  <2> QED
    BY <1>1, <2>4, <2>6, <2>7 DEF DrainingData
<1>10. CASE DecodeUnexpected
  <2>1. buf \in Seq(Unit) /\ HasFrame(buf) /\ r2l = "decoding"
    BY <1>10 DEF DecodeUnexpected, TypeOK
  <2>2. buf' \in Seq(Unit)
    BY <1>10, <2>1, CodecType DEF DecodeUnexpected
  <2>3. TypeOK'
    BY <1>10, <2>2 DEF DecodeUnexpected, TypeOK, sendVars
  <2> QED
    BY <1>1, <1>10, <2>1, <2>3, BufferKept DEF DecodeUnexpected, DrainingData
<1> QED
  BY <1>2, <1>3, <1>4, <1>5, <1>6, <1>7, <1>8, <1>9, <1>10 DEF RemoteToLocal

\* The rest of pump() keeps the invariant.
LEMMA PumpStep == IInv /\ Pump => IInv'
<1> SUFFICES ASSUME IInv, Pump PROVE IInv'
  OBVIOUS
<1>1. TypeOK'
  <2>1. CASE GatherEnds
    BY <2>1 DEF IInv, GatherEnds, PumpFrame, TypeOK, Phases, sendVars, ackVars,
       clientVars, relayVars
  <2>2. CASE CloseBoth
    BY <2>2 DEF IInv, CloseBoth, PumpFrame, TypeOK, Phases, sendVars, ackVars,
       clientVars, relayVars
  <2> QED
    BY <2>1, <2>2 DEF Pump
<1> QED
  BY <1>1, BufferKept DEF IInv, Pump, GatherEnds, CloseBoth, PumpFrame,
     NothingSentYet, DrainingData, clientVars

\* The environment's steps keep the invariant.
LEMMA EnvironmentStep == IInv /\ Environment => IInv'
<1> SUFFICES ASSUME IInv, Environment PROVE IInv'
  OBVIOUS
<1> USE DEF TunnelFrame, connectVars, sendVars, ackVars, clientVars, relayVars
<1>1. UNCHANGED <<phase, unconfirmed, clientRead, total_confirmed, l2r, r2l, buf>>
  BY DEF Environment, ClientWrites, ClientEnds, RelayReceives, RelaySends,
     RelayConfirms, RelayMisbehaves, RelayCloses
<1>2. NothingSentYet' /\ DrainingData' /\ ResendBufferExact'
  BY <1>1, BufferKept DEF IInv, NothingSentYet, DrainingData, HasFrame
<1>3. TypeOK
  BY DEF IInv
<1>4. \A s, m \in Seq(Unit) : s \o m \in Seq(Unit)
  OBVIOUS
<1>5. TypeOK'
  <2>1. CASE ClientWrites
    BY <1>3, <2>1 DEF ClientWrites, TypeOK
  <2>2. CASE ClientEnds
    BY <1>3, <2>2 DEF ClientEnds, TypeOK
  <2>3. CASE RelayReceives
    <3>1. toRelay' \in Seq(Frame) /\ Head(toRelay) \in Frame
      BY <1>3, <2>3 DEF RelayReceives, TypeOK
    <3>2. ASSUME NEW f \in Frame
          PROVE  Positions(f.from, f.to - f.from) \in Seq(Nat)
      <4>1. f.from \in Nat /\ f.to \in Nat
        BY DEF Frame
      <4>2. CASE f.from <= f.to
        BY <4>1, <4>2 DEF Positions
      <4>3. CASE f.to < f.from
        <5>1. 1..f.to - f.from = 1..0
          BY <4>1, <4>3
        <5> QED
          BY <5>1, <4>1 DEF Positions
      <4> QED
        BY <4>1, <4>2, <4>3
    <3>3. relayGot' \in Seq(Nat) /\ relayAcked' \in Nat
      <4> DEFINE f == Head(toRelay)
      <4>1. f \in Frame /\ f.to \in Nat
        BY <3>1 DEF Frame
      <4>2. /\ relayGot' \in {relayGot, relayGot \o Positions(f.from, f.to - f.from)}
            /\ relayAcked' \in {relayAcked, f.to}
        BY <2>3 DEF RelayReceives
      <4> HIDE DEF f
      <4>3. relayGot \in Seq(Nat) /\ relayAcked \in Nat
        BY <1>3 DEF TypeOK
      <4>4. Positions(f.from, f.to - f.from) \in Seq(Nat)
        BY <3>2, <4>1
      <4>5. relayGot \o Positions(f.from, f.to - f.from) \in Seq(Nat)
        BY <4>3, <4>4
      <4> QED
        BY <4>1, <4>2, <4>3, <4>5, Zenon
    <3> QED
      BY <1>3, <2>3, <3>1, <3>3 DEF RelayReceives, TypeOK
  <2>4. CASE RelaySends
    <3>1. PICK n \in RelaySizes :
            /\ fromRelay' = fromRelay \o EncodeData(relaySent, n)
            /\ relaySent' = relaySent + n
      BY <2>4 DEF RelaySends
    <3>2. EncodeData(relaySent, n) \in Seq(Unit)
      BY <1>3, UnitType DEF EncodeData, TypeOK, Tags
    <3>3. fromRelay' \in Seq(Unit) /\ relaySent' \in Nat
      BY <1>3, <3>1, <3>2 DEF TypeOK
    <3> QED
      BY <1>3, <2>4, <3>3 DEF RelaySends, TypeOK
  <2>5. CASE RelayConfirms
    <3>1. PICK c \in relayConf + 1..Len(relayGot) :
            fromRelay' = fromRelay \o EncodeAck(c) /\ relayConf' = c
      BY <2>5 DEF RelayConfirms
    <3>2. c \in Nat
      BY <1>3 DEF TypeOK
    <3>3. EncodeAck(c) \in Seq(Unit)
      BY <3>2, UnitType DEF EncodeAck, Tags
    <3>4. fromRelay' \in Seq(Unit)
      BY <1>3, <3>1, <3>3 DEF TypeOK
    <3> QED
      BY <1>3, <2>5, <3>1, <3>2, <3>4 DEF RelayConfirms, TypeOK
  <2>6. CASE RelayMisbehaves
    <3>1. PICK m \in {<<U("SID", 0)>>, <<U("BAD", 0)>>,
                      EncodeAck(0), EncodeAck(LocalTotal + 1)} :
            fromRelay' = fromRelay \o m
      BY <2>6 DEF RelayMisbehaves
    <3>2. m \in Seq(Unit)
      <4>1. 0 \in Nat /\ LocalTotal + 1 \in Nat
        OBVIOUS
      <4>2. /\ U("SID", 0) \in Unit /\ U("BAD", 0) \in Unit
            /\ U("ACK", 0) \in Unit /\ U("COUNT", 0) \in Unit
            /\ U("COUNT", LocalTotal + 1) \in Unit
        BY <4>1, UnitType DEF Tags
      <4>3. /\ <<U("SID", 0)>> \in Seq(Unit) /\ <<U("BAD", 0)>> \in Seq(Unit)
            /\ EncodeAck(0) \in Seq(Unit) /\ EncodeAck(LocalTotal + 1) \in Seq(Unit)
        BY <4>2, UnitType DEF EncodeAck
      <4> QED
        BY <4>3
    <3>3. fromRelay' \in Seq(Unit)
      BY <1>3, <3>1, <3>2 DEF TypeOK
    <3> QED
      BY <1>3, <2>6, <3>3 DEF RelayMisbehaves, TypeOK
  <2>7. CASE RelayCloses
    <3>1. fromRelay' \in Seq(Unit) /\ toRelay' \in Seq(Frame)
      <4>1. fromRelay \in Seq(Unit)
        BY <1>3 DEF TypeOK
      <4>2. toRelay' = <<>>
        BY <2>7 DEF RelayCloses
      <4>3. \/ fromRelay' = fromRelay
            \/ \E k \in 0..Len(fromRelay) : fromRelay' = SubSeq(fromRelay, 1, k)
        BY <2>7 DEF RelayCloses
      <4>4. \A k \in 0..Len(fromRelay) : SubSeq(fromRelay, 1, k) \in Seq(Unit)
        BY <4>1
      <4>5. <<>> \in Seq(Frame)
        OBVIOUS
      <4> QED
        BY <4>1, <4>2, <4>3, <4>4, <4>5, Zenon
    <3> QED
      BY <1>3, <2>7, <3>1 DEF RelayCloses, TypeOK
  <2> QED
    BY <2>1, <2>2, <2>3, <2>4, <2>5, <2>6, <2>7 DEF Environment
<1> QED
  BY <1>2, <1>5 DEF IInv

-------------------------------------------------------------------------------
(* The theorems. *)

\* Every step, stuttering included, keeps the invariant.
LEMMA IInvStep == IInv /\ [Next]_vars => IInv'
<1> SUFFICES ASSUME IInv, [Next]_vars PROVE IInv'
  OBVIOUS
<1>1. CASE UNCHANGED vars
  BY <1>1 DEF IInv, TypeOK, NothingSentYet, DrainingData, HasFrame,
     ResendBufferExact, SentTo, vars, connectVars, sendVars, ackVars, clientVars,
     relayVars
<1> QED
  BY <1>1, ConnectStep, LocalToRemoteStep, RemoteToLocalStep, PumpStep,
     EnvironmentStep DEF Next

\* Every variable keeps its type, whatever the relay, the client and the
\* network do (all of IapTunnelConnection).
THEOREM TypeCorrect == Spec => []TypeOK
<1>1. IInv => TypeOK
  BY DEF IInv
<1> QED
  BY <1>1, InitIInv, IInvStep, PTL DEF Spec

\* The resend buffer of IapTunnelConnection is exact at all times: no sequence
\* of chunk sizes and acknowledgements, proper or not, makes _confirm_bytes lose
\* an unconfirmed byte or keep a confirmed one.
THEOREM ResendBufferAlwaysExact == Spec => []ResendBufferExact
<1>1. IInv => ResendBufferExact
  BY DEF IInv
<1> QED
  BY <1>1, InitIInv, IInvStep, PTL DEF Spec
-------------------------------------------------------------------------------
(* The time spent connecting.                                              *)

\* Where _connect stands when it has waited how long: it backs off only before
\* the deadline, and one sleep and one attempt of two waits may follow that.
ConnectClock ==
    /\ phase \in Phases /\ waited \in Nat
    /\ sleep_sec \in Nat /\ sleep_sec <= MaxSleep
    /\ phase = "backoff" => waited <= Budget
    /\ phase = "opening" => waited <= Budget + MaxSleep
    /\ phase = "awaiting" => waited <= Budget + MaxSleep + OpenTimeout
    /\ ConnectBounded

\* A failed attempt keeps it, if the attempt ended in time.
LEMMA FailedAttemptClock ==
    ASSUME ConnectClock, NEW t \in Nat, NEW why, AttemptFailed(t, why),
           t <= Budget + MaxSleep + 2 * OpenTimeout
    PROVE  ConnectClock'
  BY DEF ConnectClock, ConnectBounded, AttemptFailed, ConnectRaises, Phases

\* The steps of _connect keep it.
LEMMA ConnectClockStep == ConnectClock /\ Connect => ConnectClock'
<1> SUFFICES ASSUME ConnectClock, Connect PROVE ConnectClock'
  OBVIOUS
<1>1. CASE Open
  <2>1. PICK t \in waited..waited + OpenTimeout :
          \/ /\ waited' = t /\ phase' = "awaiting"
             /\ UNCHANGED <<first_attempt, sleep_sec, error, localClosed>>
          \/ AttemptFailed(t, "network")
    BY <1>1 DEF Open
  <2>2. t \in Nat /\ t <= Budget + MaxSleep + OpenTimeout
    BY <1>1, <2>1 DEF Open, ConnectClock
  <2>3. CASE waited' = t /\ phase' = "awaiting" /\ UNCHANGED sleep_sec
    BY <2>2, <2>3 DEF ConnectClock, ConnectBounded, Phases
  <2> QED
    BY <2>1, <2>2, <2>3, FailedAttemptClock
<1>2. CASE AckRejected \/ AckLost
  <2>1. PICK t \in waited..waited + OpenTimeout : \E why : AttemptFailed(t, why)
    BY <1>2 DEF AckRejected, AckLost
  <2>2. t \in Nat /\ t <= Budget + MaxSleep + 2 * OpenTimeout
    BY <1>2, <2>1 DEF AckRejected, AckLost, ConnectClock
  <2> QED
    BY <2>1, <2>2, FailedAttemptClock
<1>3. CASE AckRefused
  BY <1>3 DEF AckRefused, ConnectRaises, ConnectClock, ConnectBounded, Phases
<1>4. CASE AckAccepted
  <2>1. phase' = "pumping" /\ waited' = 0 /\ sleep_sec' = InitialSleep
    BY <1>4 DEF AckAccepted
  <2> QED
    BY <2>1 DEF ConnectClock, ConnectBounded, Phases
<1>5. CASE BackOff
  BY <1>5 DEF BackOff, ConnectClock, ConnectBounded, Phases
<1> QED
  BY <1>1, <1>2, <1>3, <1>4, <1>5 DEF Connect

\* Once pump() runs its tasks the clock stands.
LEMMA ClockStands ==
    ASSUME [Next]_vars, ~Connect
    PROVE  /\ waited' = waited /\ sleep_sec' = sleep_sec
           /\ phase' = phase \/ phase' \in {"closing", "done"}
<1>1. CASE UNCHANGED vars
  BY <1>1 DEF vars, connectVars
<1>2. CASE LocalToRemote
  BY <1>2 DEF LocalToRemote, ReadLocal, ReadEof, ReadReset, Sent, L2RFrame,
     connectVars
<1>3. CASE RemoteToLocal
  BY <1>3 DEF RemoteToLocal, Receive, ReceiveEnds, DecodeIncomplete, DecodeUnknown,
     DecodeData, Drained, AckSent, DecodeAck, DecodeUnexpected, R2LFrame, connectVars
<1>4. CASE Pump
  BY <1>4 DEF Pump, GatherEnds, CloseBoth, PumpFrame, connectVars
<1>5. CASE Environment
  BY <1>5 DEF Environment, ClientWrites, ClientEnds, RelayReceives, RelaySends,
     RelayConfirms, RelayMisbehaves, RelayCloses, TunnelFrame, connectVars
<1> QED
  BY <1>1, <1>2, <1>3, <1>4, <1>5 DEF Next

\* Connecting never takes longer than the budget, one sleep and one attempt
\* (_connect), whatever the attempts take within their timeouts.
THEOREM ConnectAlwaysBounded == Spec => []ConnectBounded
<1>1. Init => ConnectClock
  BY DEF Init, ConnectClock, ConnectBounded, Phases
<1>2. ConnectClock /\ [Next]_vars => ConnectClock'
  <2> SUFFICES ASSUME ConnectClock, [Next]_vars PROVE ConnectClock'
    OBVIOUS
  <2>1. CASE Connect
    BY <2>1, ConnectClockStep
  <2>2. CASE ~Connect
    BY <2>2, ClockStands DEF ConnectClock, ConnectBounded, Phases
  <2> QED
    BY <2>1, <2>2
<1>3. ConnectClock => ConnectBounded
  BY DEF ConnectClock
<1> QED
  BY <1>1, <1>2, <1>3, PTL DEF Spec

-------------------------------------------------------------------------------
(* What is in flight.  Upwards and Downwards count, at each place of what is *)
(* on its way, how much of the stream lies before it: from what has arrived  *)
(* to, as long as nothing has been cut off, all that was sent.               *)

\* Frames on their way to the relay carry the client's bytes from `from` on.
Upwards(f, from, sent, whole) ==
    \E at \in [0..Len(f) -> 0..sent] :
      /\ at[0] = from /\ (whole => at[Len(f)] = sent)
      /\ \A i \in 1..Len(f) :
           IF f[i].tag = "DATA"
           THEN f[i].from = at[i - 1] /\ f[i].to = at[i] /\ f[i].from < f[i].to
           ELSE at[i] = at[i - 1]

\* Units on their way from the relay carry its bytes from `from` on; no frame
\* lacks its body but the last one, which a drop may have cut.
Downwards(s, from, sent, whole) ==
    \E at \in [0..Len(s) -> 0..sent] :
      /\ at[0] = from /\ (whole => at[Len(s)] = sent)
      /\ \A i \in 1..Len(s) :
           /\ at[i] = at[i - 1] + (IF s[i].kind = "DATA" THEN s[i].val ELSE 0)
           /\ s[i].kind = "DATA" => s[i].val > 0
           /\ FrameLen(s[i]) = 2 =>
                IF i = Len(s) THEN ~whole
                ELSE /\ s[i + 1].kind \notin Tags
                     /\ s[i].kind = "DATA" => s[i + 1].val = at[i - 1]

\* Positions of a known stream, put behind it, continue it.
LEMMA StreamGrows ==
    ASSUME NEW lost \in Nat, NEW m \in Nat, NEW n \in Nat
    PROVE  /\ Pipe!Stream(lost, m) \in Seq(Nat) /\ Len(Pipe!Stream(lost, m)) = m
           /\ Pipe!Stream(lost, m) \o Positions(lost + m, n)
                = Pipe!Stream(lost, m + n)
<1>1. ASSUME NEW k \in Nat
      PROVE  /\ Pipe!Stream(lost, k) \in Seq(Nat) /\ Len(Pipe!Stream(lost, k)) = k
             /\ \A i \in 1..k : Pipe!Stream(lost, k)[i] = lost + i
  BY DEF Pipe!Stream
<1>2. /\ Positions(lost + m, n) \in Seq(Nat) /\ Len(Positions(lost + m, n)) = n
      /\ \A i \in 1..n : Positions(lost + m, n)[i] = lost + (m + i)
  BY DEF Positions
<1>3. m + n \in Nat
  OBVIOUS
<1>4. ASSUME NEW a \in Seq(Nat), NEW b \in Seq(Nat), NEW c \in Seq(Nat),
             Len(a) = m, Len(b) = n, Len(c) = m + n,
             \A i \in 1..m : a[i] = lost + i, \A i \in 1..n : b[i] = lost + (m + i),
             \A i \in 1..m + n : c[i] = lost + i
      PROVE  a \o b = c
  <2>1. /\ a \o b \in Seq(Nat) /\ Len(a \o b) = m + n
        /\ \A i \in 1..m + n : (a \o b)[i] = IF i <= m THEN a[i] ELSE b[i - m]
    BY <1>4, ConcatProperties
  <2>2. \A i \in 1..m + n : (a \o b)[i] = c[i]
    <3>1. ASSUME NEW i \in 1..m + n PROVE (a \o b)[i] = lost + i
      <4>1. CASE i <= m
        BY <1>4, <2>1, <4>1
      <4>2. CASE ~(i <= m)
        <5>1. i - m \in 1..n /\ m + (i - m) = i
          BY <4>2
        <5>2. b[i - m] = lost + (m + (i - m))
          BY <1>4, <5>1
        <5> QED
          BY <2>1, <4>2, <5>1, <5>2
      <4> QED
        BY <4>1, <4>2
    <3> QED
      BY <1>4, <3>1
  <2> QED
    BY <1>4, <2>1, <2>2, SeqEqual
<1> QED
  BY <1>1, <1>2, <1>3, <1>4

\* The same for a stream of which nothing was lost.
LEMMA WholeStreamGrows ==
    ASSUME NEW m \in Nat, NEW n \in Nat
    PROVE  /\ Pipe!Stream(0, m) \in Seq(Nat) /\ Len(Pipe!Stream(0, m)) = m
           /\ Pipe!Stream(0, m) \o Positions(m, n) = Pipe!Stream(0, m + n)
<1>1. 0 \in Nat /\ 0 + m = m
  OBVIOUS
<1>2. /\ Pipe!Stream(0, m) \in Seq(Nat) /\ Len(Pipe!Stream(0, m)) = m
      /\ Pipe!Stream(0, m) \o Positions(0 + m, n) = Pipe!Stream(0, m + n)
  BY <1>1, StreamGrows
<1> QED
  BY <1>1, <1>2, Zenon

\* Nothing in flight.
LEMMA UpwardsEmpty ==
    ASSUME NEW sent \in Nat, NEW from \in 0..sent, NEW whole,
           whole => from = sent
    PROVE  Upwards(<<>>, from, sent, whole)
<1> DEFINE at == [i \in 0..0 |-> from]
<1>1. at \in [0..0 -> 0..sent] /\ at[0] = from
  OBVIOUS
<1>2. Len(<<>>) = 0
  OBVIOUS
<1> HIDE DEF at
<1>3. \A i \in 1..Len(<<>>) : FALSE
  BY <1>2
<1> QED
  BY <1>1, <1>2, <1>3 DEF Upwards

\* More may be read behind what is in flight.
LEMMA UpwardsLoosened ==
    ASSUME NEW f \in Seq(Frame), NEW from \in Nat, NEW sent \in Nat, NEW whole,
           Upwards(f, from, sent, whole),
           NEW more \in Nat, sent <= more, NEW whole2,
           whole2 => whole /\ more = sent
    PROVE  Upwards(f, from, more, whole2)
<1>1. PICK at \in [0..Len(f) -> 0..sent] : Upwards(f, from, sent, whole)!(at)
  BY DEF Upwards
<1>2. at \in [0..Len(f) -> 0..more]
  OBVIOUS
<1> QED
  BY <1>1, <1>2 DEF Upwards

\* A frame joins at the end.
LEMMA UpwardsAppend ==
    ASSUME NEW f \in Seq(Frame), NEW from \in Nat, NEW sent \in Nat,
           Upwards(f, from, sent, TRUE),
           NEW g \in Frame, NEW more \in Nat,
           IF g.tag = "DATA" THEN g.from = sent /\ g.to = more /\ sent < more
                             ELSE more = sent
    PROVE  Upwards(Append(f, g), from, more, TRUE)
<1> DEFINE L == Len(f)
           h == Append(f, g)
<1>1. PICK at \in [0..L -> 0..sent] :
        /\ at[0] = from /\ at[L] = sent
        /\ \A i \in 1..L :
             IF f[i].tag = "DATA"
             THEN f[i].from = at[i - 1] /\ f[i].to = at[i] /\ f[i].from < f[i].to
             ELSE at[i] = at[i - 1]
  BY DEF Upwards
<1>2. L \in Nat /\ Len(h) = L + 1 /\ h[L + 1] = g /\ \A i \in 1..L : h[i] = f[i]
  OBVIOUS
<1> DEFINE bt == [i \in 0..L + 1 |-> IF i = L + 1 THEN more ELSE at[i]]
<1>3. bt \in [0..L + 1 -> 0..more]
  <2>1. \A i \in 0..L + 1 : i # L + 1 => at[i] \in 0..more
    BY <1>2
  <2> QED
    BY <2>1, <1>2
<1>4. bt[L + 1] = more /\ \A i \in 0..L : bt[i] = at[i]
  BY <1>2
<1> HIDE DEF bt, h
<1>5. ASSUME NEW i \in 1..L + 1
      PROVE  IF h[i].tag = "DATA"
             THEN h[i].from = bt[i - 1] /\ h[i].to = bt[i] /\ h[i].from < h[i].to
             ELSE bt[i] = bt[i - 1]
  <2>1. CASE i = L + 1
    <3>1. h[i] = g /\ bt[i] = more /\ bt[i - 1] = sent
      BY <1>1, <1>2, <1>4, <2>1
    <3> QED
      BY <3>1
  <2>2. CASE i \in 1..L
    <3>1. h[i] = f[i] /\ bt[i] = at[i] /\ bt[i - 1] = at[i - 1]
      BY <1>2, <1>4, <2>2
    <3> QED
      BY <1>1, <2>2, <3>1
  <2> QED
    BY <1>2, <2>1, <2>2
<1>6. bt[0] = from
  BY <1>1, <1>2, <1>4
<1> QED
  BY <1>2, <1>3, <1>4, <1>5, <1>6 DEF Upwards, h

\* The first frame arrives, and continues what had arrived.
LEMMA UpwardsTail ==
    ASSUME NEW f \in Seq(Frame), f # <<>>, NEW from \in Nat, NEW sent \in Nat,
           NEW whole, Upwards(f, from, sent, whole)
    PROVE  IF Head(f).tag = "DATA"
           THEN /\ Head(f).from = from /\ Head(f).to \in from + 1..sent
                /\ Upwards(Tail(f), Head(f).to, sent, whole)
           ELSE Upwards(Tail(f), from, sent, whole)
<1> DEFINE L == Len(f)
           h == Tail(f)
<1>1. PICK at \in [0..L -> 0..sent] :
        /\ at[0] = from /\ (whole => at[L] = sent)
        /\ \A i \in 1..L :
             IF f[i].tag = "DATA"
             THEN f[i].from = at[i - 1] /\ f[i].to = at[i] /\ f[i].from < f[i].to
             ELSE at[i] = at[i - 1]
  BY DEF Upwards
<1>2. /\ L \in Nat \ {0} /\ h \in Seq(Frame) /\ Len(h) = L - 1
      /\ \A i \in 1..L - 1 : h[i] = f[i + 1]
      /\ Head(f) = f[1] /\ f[1] \in Frame
  OBVIOUS
<1> DEFINE bt == [i \in 0..L - 1 |-> at[i + 1]]
<1>3. bt \in [0..L - 1 -> 0..sent] /\ \A i \in 0..L - 1 : bt[i] = at[i + 1]
  <2>1. \A i \in 0..L - 1 : at[i + 1] \in 0..sent
    BY <1>2
  <2> QED
    BY <2>1
<1> HIDE DEF bt, h
<1>4. ASSUME NEW i \in 1..L - 1
      PROVE  IF h[i].tag = "DATA"
             THEN h[i].from = bt[i - 1] /\ h[i].to = bt[i] /\ h[i].from < h[i].to
             ELSE bt[i] = bt[i - 1]
  <2>1. i + 1 \in 1..L /\ i - 1 \in 0..L - 1 /\ i \in 0..L - 1
    BY <1>2
  <2>2. h[i] = f[i + 1] /\ bt[i] = at[i + 1] /\ bt[i - 1] = at[(i + 1) - 1]
    BY <1>2, <1>3, <2>1
  <2> QED
    BY <1>1, <2>1, <2>2
<1>5. whole => bt[L - 1] = sent
  BY <1>1, <1>2, <1>3
<1>6. Upwards(h, bt[0], sent, whole)
  BY <1>2, <1>3, <1>4, <1>5 DEF Upwards
<1>7. bt[0] = at[1] /\ 1 \in 1..L /\ at[1] \in 0..sent /\ 1 - 1 = 0
  BY <1>2, <1>3
<1>8. IF f[1].tag = "DATA"
      THEN f[1].from = from /\ f[1].to = at[1] /\ f[1].from < f[1].to
      ELSE at[1] = from
  BY <1>1, <1>7
<1> QED
  BY <1>2, <1>6, <1>7, <1>8 DEF h

\* Nothing in flight.
LEMMA DownwardsEmpty ==
    ASSUME NEW sent \in Nat, NEW whole
    PROVE  Downwards(<<>>, sent, sent, whole)
<1> DEFINE at == [i \in 0..0 |-> sent]
<1>1. at \in [0..0 -> 0..sent] /\ at[0] = sent
  OBVIOUS
<1>2. Len(<<>>) = 0
  OBVIOUS
<1> HIDE DEF at
<1>3. \A i \in 1..Len(<<>>) : FALSE
  BY <1>2
<1> QED
  BY <1>1, <1>2, <1>3 DEF Downwards

\* What is in flight may turn out not to be whole.
LEMMA DownwardsLoosened ==
    ASSUME NEW s, NEW from, NEW sent, NEW whole, Downwards(s, from, sent, whole),
           NEW whole2, whole2 => whole
    PROVE  Downwards(s, from, sent, whole2)
  BY DEF Downwards

\* The relay sends a frame: a header of one unit, or a header and its body, which
\* for DATA is where the bytes begin.
LEMMA DownwardsAppend ==
    ASSUME NEW s \in Seq(Unit), NEW from \in Nat, NEW sent \in Nat,
           Downwards(s, from, sent, TRUE),
           NEW m \in Seq(Unit), NEW more \in Nat,
           Len(m) \in {1, 2}, FrameLen(m[1]) = Len(m),
           Len(m) = 2 => m[2].kind \notin Tags,
           IF m[1].kind = "DATA"
           THEN m[1].val > 0 /\ m[2].val = sent /\ more = sent + m[1].val
                                 ELSE more = sent
    PROVE  Downwards(s \o m, from, more, TRUE)
<1> DEFINE L == Len(s)
           K == Len(m)
           h == s \o m
<1>1. PICK at \in [0..L -> 0..sent] :
        /\ at[0] = from /\ at[L] = sent
        /\ \A i \in 1..L :
             /\ at[i] = at[i - 1] + (IF s[i].kind = "DATA" THEN s[i].val ELSE 0)
             /\ s[i].kind = "DATA" => s[i].val > 0
             /\ FrameLen(s[i]) = 2 =>
                  /\ i # L /\ s[i + 1].kind \notin Tags
                  /\ s[i].kind = "DATA" => s[i + 1].val = at[i - 1]
  BY DEF Downwards
<1>2. /\ L \in Nat /\ K \in {1, 2} /\ Len(h) = L + K /\ h \in Seq(Unit)
      /\ \A i \in 1..L : h[i] = s[i]
      /\ h[L + 1] = m[1] /\ (K = 2 => h[L + 2] = m[2])
  <2>1. /\ Len(h) = L + K /\ h \in Seq(Unit)
        /\ \A i \in 1..L + K : h[i] = IF i <= L THEN s[i] ELSE m[i - L]
    BY ConcatProperties
  <2>2. L \in Nat /\ (L + 1) - L = 1 /\ (L + 2) - L = 2 /\ K \in {1, 2}
    OBVIOUS
  <2> HIDE DEF h, L, K
  <2>3. L + 1 \in 1..L + K /\ (K = 2 => L + 2 \in 1..L + K) /\ 1..L \subseteq 1..L + K
    BY <2>2
  <2> QED
    BY <2>1, <2>2, <2>3
<1>3. /\ m[1] \in Unit /\ (K = 2 => m[2] \in Unit) /\ sent <= more
      /\ m[1].kind = "DATA" => more = sent + m[1].val /\ m[1].val > 0 /\ K = 2
      /\ m[1].kind # "DATA" => more = sent
      /\ K = 2 => m[2].kind # "DATA" /\ FrameLen(m[2]) # 2
  <2>1. m[1] \in Unit /\ (K = 2 => m[2] \in Unit)
    BY <1>2
  <2>2. m[1].kind = "DATA" => K = 2
    BY DEF FrameLen
  <2>3. K = 2 => m[2].kind # "DATA" /\ FrameLen(m[2]) # 2
    BY DEF FrameLen, Tags
  <2>4. m[1].val \in Nat
    BY <2>1 DEF Unit
  <2> QED
    BY <2>1, <2>2, <2>3, <2>4
<1> DEFINE bt == [i \in 0..L + K |-> IF i > L THEN more ELSE at[i]]
<1>4. bt \in [0..L + K -> 0..more]
  <2>1. \A i \in 0..L + K : i <= L => at[i] \in 0..more
    BY <1>2, <1>3
  <2> QED
    BY <2>1, <1>2
<1>5. /\ \A i \in 0..L : bt[i] = at[i]
      /\ bt[L + 1] = more /\ (K = 2 => bt[L + 2] = more) /\ bt[L + K] = more
  BY <1>2
<1> HIDE DEF bt, h, L, K
<1>6. ASSUME NEW i \in 1..L + K
      PROVE  /\ bt[i] = bt[i - 1] + (IF h[i].kind = "DATA" THEN h[i].val ELSE 0)
             /\ h[i].kind = "DATA" => h[i].val > 0
             /\ FrameLen(h[i]) = 2 =>
                  IF i = L + K THEN ~TRUE
                  ELSE /\ h[i + 1].kind \notin Tags
                       /\ h[i].kind = "DATA" => h[i + 1].val = bt[i - 1]
  <2>1. CASE i = L + 2
    <3>1. K = 2 /\ i = L + K /\ i - 1 = L + 1
      BY <1>2, <2>1
    <3>2. h[i] = m[2] /\ bt[i] = more /\ bt[i - 1] = more
      BY <1>2, <1>5, <2>1, <3>1
    <3> QED
      BY <1>3, <3>1, <3>2
  <2>2. CASE i = L + 1
    <3>0. i - 1 = L /\ i + 1 = L + 2 /\ L \in 0..L
      <4>1. L \in Nat
        BY <1>2
      <4> QED
        BY <2>2, <4>1
    <3>1. h[i] = m[1] /\ bt[i] = more /\ bt[i - 1] = sent /\ i + 1 = L + 2
      BY <1>1, <1>2, <1>5, <2>2, <3>0
    <3>2. i = L + K <=> K = 1
      BY <1>2, <2>2
    <3>3. K = 2 => h[i + 1] = m[2]
      BY <1>2, <3>1
    <3>4. FrameLen(h[i]) = 2 <=> K = 2
      BY <3>1 DEF K
    <3>5. K = 2 => m[2].kind \notin Tags
      BY DEF K
    <3> QED
      BY <1>2, <1>3, <3>1, <3>2, <3>3, <3>4, <3>5
  <2>3. CASE i \in 1..L
    <3>0. /\ i \in 0..L /\ i - 1 \in 0..L /\ i # L + K
          /\ i # L => i + 1 \in 1..L
      BY <1>2, <2>3
    <3>1. h[i] = s[i] /\ bt[i] = at[i] /\ bt[i - 1] = at[i - 1]
      BY <1>2, <1>5, <2>3, <3>0
    <3>2. i # L => h[i + 1] = s[i + 1]
      BY <1>2, <3>0
    <3> QED
      BY <1>1, <2>3, <3>0, <3>1, <3>2
  <2> QED
    BY <1>2, <2>1, <2>2, <2>3
<1>7. bt[0] = from
  BY <1>1, <1>2, <1>5
<1>8. Len(h) = L + K /\ bt[L + K] = more
  BY <1>2, <1>5
<1>9. Downwards(h, from, more, TRUE)
  <2>1. bt \in [0..Len(h) -> 0..more] /\ bt[Len(h)] = more
    BY <1>4, <1>8
  <2>2. \A i \in 1..Len(h) :
          /\ bt[i] = bt[i - 1] + (IF h[i].kind = "DATA" THEN h[i].val ELSE 0)
          /\ h[i].kind = "DATA" => h[i].val > 0
          /\ FrameLen(h[i]) = 2 =>
               IF i = Len(h) THEN ~TRUE
               ELSE /\ h[i + 1].kind \notin Tags
                    /\ h[i].kind = "DATA" => h[i + 1].val = bt[i - 1]
    BY <1>6, <1>8
  <2> QED
    BY <1>7, <2>1, <2>2, Zenon DEF Downwards
<1> QED
  BY <1>9 DEF h

\* A drop cuts off the end.
LEMMA DownwardsCut ==
    ASSUME NEW s \in Seq(Unit), NEW from \in Nat, NEW sent \in Nat, NEW whole,
           Downwards(s, from, sent, whole), NEW k \in 0..Len(s)
    PROVE  Downwards(SubSeq(s, 1, k), from, sent, FALSE)
<1> DEFINE L == Len(s)
           h == SubSeq(s, 1, k)
<1>1. PICK at \in [0..L -> 0..sent] : Downwards(s, from, sent, whole)!(at)
  BY DEF Downwards
<1>2. L \in Nat /\ k \in 0..L /\ Len(h) = k /\ \A i \in 1..k : h[i] = s[i]
  OBVIOUS
<1> DEFINE bt == [i \in 0..k |-> at[i]]
<1>3. bt \in [0..k -> 0..sent] /\ \A i \in 0..k : bt[i] = at[i]
  BY <1>2
<1> HIDE DEF bt, h, L
<1>4. ASSUME NEW i \in 1..k
      PROVE  /\ bt[i] = bt[i - 1] + (IF h[i].kind = "DATA" THEN h[i].val ELSE 0)
             /\ h[i].kind = "DATA" => h[i].val > 0
             /\ FrameLen(h[i]) = 2 =>
                  IF i = k THEN ~FALSE
                  ELSE /\ h[i + 1].kind \notin Tags
                       /\ h[i].kind = "DATA" => h[i + 1].val = bt[i - 1]
  <2>1. i \in 1..L /\ i - 1 \in 0..k /\ (i # k => i # L /\ i + 1 \in 1..k)
    BY <1>2
  <2>2. /\ h[i] = s[i] /\ bt[i] = at[i] /\ bt[i - 1] = at[i - 1]
        /\ i # k => h[i + 1] = s[i + 1]
    BY <1>2, <1>3, <2>1
  <2> QED
    BY <1>1, <2>1, <2>2 DEF L
<1>5. bt[0] = from
  BY <1>1, <1>2, <1>3
<1>6. Downwards(h, from, sent, FALSE)
  BY <1>2, <1>3, <1>4, <1>5 DEF Downwards
<1> QED
  BY <1>6 DEF h

\* The frame at the head is taken off, and was what comes next.
LEMMA DownwardsHead ==
    ASSUME NEW b \in Seq(Unit), HasFrame(b), NEW r \in Seq(Unit),
           NEW from \in Nat, NEW sent \in Nat, NEW whole,
           Downwards(b \o r, from, sent, whole)
    PROVE  IF Head(b).kind = "DATA"
           THEN /\ Head(b).val > 0 /\ b[2].val = from
                /\ from + Head(b).val \in from + 1..sent
                /\ Downwards(Remaining(b) \o r, from + Head(b).val, sent, whole)
           ELSE Downwards(Remaining(b) \o r, from, sent, whole)
<1> DEFINE s == b \o r
           L == Len(s)
           K == FrameLen(Head(b))
           h == Remaining(b) \o r
<1>1. PICK at \in [0..L -> 0..sent] :
        /\ at[0] = from /\ (whole => at[L] = sent)
        /\ \A i \in 1..L :
             /\ at[i] = at[i - 1] + (IF s[i].kind = "DATA" THEN s[i].val ELSE 0)
             /\ s[i].kind = "DATA" => s[i].val > 0
             /\ FrameLen(s[i]) = 2 =>
                  IF i = L THEN ~whole
                  ELSE /\ s[i + 1].kind \notin Tags
                       /\ s[i].kind = "DATA" => s[i + 1].val = at[i - 1]
  BY DEF Downwards
<1>2. /\ Len(b) \in Nat /\ Len(r) \in Nat /\ K \in {1, 2} /\ K <= Len(b)
      /\ Head(b) = b[1] /\ b[1] \in Unit /\ (K = 2 => b[2] \in Unit)
      /\ Remaining(b) = SubSeq(b, K + 1, Len(b))
  BY CodecType DEF HasFrame, FrameLen, Remaining
<1>3. /\ s \in Seq(Unit) /\ L = Len(b) + Len(r)
      /\ \A i \in 1..L : s[i] = IF i <= Len(b) THEN b[i] ELSE r[i - Len(b)]
  BY ConcatProperties
<1>4. /\ Remaining(b) \in Seq(Unit) /\ Len(Remaining(b)) = Len(b) - K
      /\ \A i \in 1..Len(b) - K : Remaining(b)[i] = b[i + K]
  <2> HIDE DEF K
  <2>1. K \in Nat /\ K + 1 \in Nat /\ (Len(b) - (K + 1)) + 1 = Len(b) - K
    BY <1>2
  <2>2. \A i \in K + 1..Len(b) : b[i] \in Unit
    BY <1>2
  <2>3. /\ SubSeq(b, K + 1, Len(b)) \in Seq(Unit)
        /\ Len(SubSeq(b, K + 1, Len(b))) =
             IF K + 1 <= Len(b) THEN (Len(b) - (K + 1)) + 1 ELSE 0
        /\ \A i \in 1..(Len(b) - (K + 1)) + 1 :
             SubSeq(b, K + 1, Len(b))[i] = b[((K + 1) + i) - 1]
    BY <1>2, <2>1, <2>2, SubSeqProperties
  <2>4. \A i \in 1..Len(b) - K : ((K + 1) + i) - 1 = i + K
    BY <1>2
  <2>5. Len(b) - K = IF K + 1 <= Len(b) THEN (Len(b) - (K + 1)) + 1 ELSE 0
    BY <1>2
  <2> QED
    BY <1>2, <2>1, <2>3, <2>4, <2>5
<1>5. h \in Seq(Unit) /\ Len(h) = L - K /\ \A i \in 1..L - K : h[i] = s[i + K]
  <2>1. /\ h \in Seq(Unit) /\ Len(h) = (Len(b) - K) + Len(r)
        /\ \A i \in 1..(Len(b) - K) + Len(r) :
             h[i] = IF i <= Len(b) - K THEN Remaining(b)[i] ELSE r[i - (Len(b) - K)]
    <3> HIDE DEF K
    <3>1. \A q \in Seq(Unit) :
            /\ q \o r \in Seq(Unit) /\ Len(q \o r) = Len(q) + Len(r)
            /\ \A i \in 1..Len(q) + Len(r) :
                 (q \o r)[i] = IF i <= Len(q) THEN q[i] ELSE r[i - Len(q)]
      BY ConcatProperties
    <3> QED
      BY <1>4, <3>1
  <2> HIDE DEF s, L, K, h
  <2>2. (Len(b) - K) + Len(r) = L - K
    BY <1>2, <1>3
  <2>3. ASSUME NEW i \in 1..L - K PROVE h[i] = s[i + K]
    <3>1. i + K \in 1..L /\ i - (Len(b) - K) = (i + K) - Len(b)
      BY <1>2, <1>3
    <3>2. CASE i <= Len(b) - K
      <4>1. i \in 1..Len(b) - K /\ i + K <= Len(b)
        BY <1>2, <3>2
      <4> QED
        BY <1>3, <1>4, <2>1, <2>2, <3>1, <4>1
    <3>3. CASE ~(i <= Len(b) - K)
      <4>1. ~(i + K <= Len(b))
        BY <1>2, <3>3
      <4> QED
        BY <1>3, <2>1, <2>2, <3>1, <3>3, <4>1
    <3> QED
      BY <3>2, <3>3
  <2> QED
    BY <2>1, <2>2, <2>3
<1>6. /\ 1 \in 1..L /\ s[1] = b[1] /\ L \in Nat
      /\ K = 2 => L # 1 /\ 2 \in 1..L /\ s[2] = b[2]
  <2> HIDE DEF s, L, K
  <2> QED
    BY <1>2, <1>3
<1>7. K = 2 => s[2].kind \notin Tags /\ (b[1].kind = "DATA" => b[2].val = from)
  <2>1. 1 + 1 = 2 /\ 1 - 1 = 0
    OBVIOUS
  <2>2. K = 2 => FrameLen(s[1]) = 2
    BY <1>2, <1>6
  <2> HIDE DEF s, L, K
  <2> QED
    BY <1>1, <1>6, <2>1, <2>2
<1>8. /\ b[1].kind = "DATA" => K = 2 /\ b[1].val > 0 /\ at[K] = from + b[1].val
      /\ b[1].kind # "DATA" => at[K] = from
  <2>1. 2 - 1 = 1 /\ 1 - 1 = 0 /\ at[0] = from /\ at[0] \in Nat
    BY <1>1
  <2>2. b[1].kind = "DATA" => K = 2
    BY <1>2 DEF FrameLen
  <2>3. K = 2 => s[2].kind # "DATA"
    BY <1>7 DEF Tags
  <2> HIDE DEF s, L, K
  <2>4. at[1] = from + (IF b[1].kind = "DATA" THEN b[1].val ELSE 0)
    BY <1>1, <1>6, <2>1
  <2>5. b[1].kind = "DATA" => b[1].val > 0
    BY <1>1, <1>6
  <2>6. K = 2 => at[2] = at[1] + 0 /\ at[1] \in Nat
    BY <1>1, <1>6, <2>1, <2>3
  <2>7. at[K] = at[1]
    BY <1>2, <2>6
  <2> QED
    BY <1>1, <2>1, <2>2, <2>4, <2>5, <2>7
<1> DEFINE bt == [i \in 0..L - K |-> at[i + K]]
<1> HIDE DEF s, L, K, h
<1>9. K \in {1, 2} /\ L \in Nat /\ K \in 0..L /\ L - K \in Nat
  BY <1>2, <1>6
<1>10. bt \in [0..L - K -> 0..sent] /\ \A i \in 0..L - K : bt[i] = at[i + K]
  <2>1. \A i \in 0..L - K : i + K \in 0..L
    BY <1>2, <1>6, <1>9
  <2>2. \A i \in 0..L - K : at[i + K] \in 0..sent
    BY <2>1
  <2> QED
    BY <2>2
<1> HIDE DEF bt
<1>11. ASSUME NEW i \in 1..L - K
       PROVE  /\ bt[i] = bt[i - 1] + (IF h[i].kind = "DATA" THEN h[i].val ELSE 0)
              /\ h[i].kind = "DATA" => h[i].val > 0
              /\ FrameLen(h[i]) = 2 =>
                   IF i = L - K THEN ~whole
                   ELSE /\ h[i + 1].kind \notin Tags
                        /\ h[i].kind = "DATA" => h[i + 1].val = bt[i - 1]
  <2>1. /\ i + K \in 1..L /\ i - 1 \in 0..L - K /\ i \in 0..L - K
        /\ (i - 1) + K = (i + K) - 1 /\ (i = L - K <=> i + K = L)
        /\ i # L - K => i + 1 \in 1..L - K /\ (i + 1) + K = (i + K) + 1
    <3>1. i \in Nat /\ 1 <= i /\ i <= L - K
      BY <1>9
    <3> QED
      BY <1>9, <3>1
  <2>2. /\ h[i] = s[i + K] /\ bt[i] = at[i + K] /\ bt[i - 1] = at[(i + K) - 1]
        /\ i # L - K => h[i + 1] = s[(i + K) + 1]
    BY <1>5, <1>10, <2>1
  <2> QED
    BY <1>1, <2>1, <2>2
<1>12. bt[0] = at[K] /\ (whole => bt[L - K] = sent)
  <2>1. 0 + K = K /\ (L - K) + K = L /\ 0 \in 0..L - K /\ L - K \in 0..L - K
    BY <1>2, <1>6, <1>9
  <2> QED
    BY <1>1, <1>10, <2>1
<1>13. Downwards(h, bt[0], sent, whole)
  <2>1. bt \in [0..Len(h) -> 0..sent] /\ (whole => bt[Len(h)] = sent)
    BY <1>5, <1>10, <1>12
  <2>2. \A i \in 1..Len(h) :
          /\ bt[i] = bt[i - 1] + (IF h[i].kind = "DATA" THEN h[i].val ELSE 0)
          /\ h[i].kind = "DATA" => h[i].val > 0
          /\ FrameLen(h[i]) = 2 =>
               IF i = Len(h) THEN ~whole
               ELSE /\ h[i + 1].kind \notin Tags
                    /\ h[i].kind = "DATA" => h[i + 1].val = bt[i - 1]
    BY <1>5, <1>11
  <2> QED
    BY <2>1, <2>2, Zenon DEF Downwards
<1>14. at[K] \in 0..sent
  BY <1>9
<1> QED
  BY <1>2, <1>7, <1>8, <1>12, <1>13, <1>14 DEF h, Unit

-------------------------------------------------------------------------------
(* The invariant of what flows. *)

\* Before the relay has accepted nothing flows either way.
NothingFlowsYet ==
    phase \in {"opening", "awaiting", "backoff"} =>
        /\ toRelay = <<>> /\ relayGot = <<>> /\ buf = <<>> /\ fromRelay = <<>>
        /\ relaySent = 0 /\ discarded = 0

\* The relay has got a beginning of what was read, and what follows is on its way.
UpFlow ==
    /\ clientRead <= clientWrote
    /\ relayGot = Pipe!Stream(0, Len(relayGot))
    /\ Upwards(toRelay, Len(relayGot), clientRead, ws = "open")

\* How far in the relay's stream the frames taken off the buffer have come.
Arrived == discarded + total_received

\* The client has got a beginning of what the relay sent behind its answer's
\* message, and what follows is in the buffer or on its way.  While drain() is awaited the frame it belongs to is
\* both at the head of the buffer and with the client, unless that is gone.
Receiving == {"idle", "receiving", "decoding", "draining", "acking"}
DownFlow ==
    /\ clientGot = Pipe!Stream(discarded, Len(clientGot))
    /\ total_received <= Len(clientGot)
    /\ r2l \in Receiving =>
         /\ Downwards(buf \o fromRelay, Arrived, relaySent, ws = "open")
         /\ r2l # "draining" => Len(clientGot) = total_received
         /\ r2l = "draining" /\ ~ClientGone =>
              Len(clientGot) = total_received + Head(buf).val

\* No ACK frame is ahead of what was handed over, and between two frames the debt
\* is within the threshold.
AckFlow ==
    /\ total_acked <= total_received /\ relayAcked <= total_received
    /\ r2l \in {"receiving", "decoding", "draining"} =>
         total_received <= total_acked + AckThreshold
    /\ \A i \in 1..Len(toRelay) :
         toRelay[i].tag = "ACK" => toRelay[i].to <= total_received

\* What the two ends rely on together.
FlowInv == IInv /\ NothingFlowsYet /\ UpFlow /\ DownFlow /\ AckFlow

\* The initial states satisfy it.
LEMMA InitFlow == Init => FlowInv
<1> SUFFICES ASSUME Init PROVE FlowInv
  OBVIOUS
<1>1. Pipe!Stream(0, 0) = <<>> /\ Len(<<>>) = 0 /\ <<>> \o <<>> = <<>>
  BY DEF Pipe!Stream
<1>2. UpFlow
  BY <1>1, UpwardsEmpty DEF Init, UpFlow
<1>3. DownFlow
  BY <1>1, DownwardsEmpty DEF Init, DownFlow, Arrived
<1>4. AckFlow
  BY <1>1 DEF Init, AckFlow, AckThreshold
<1> QED
  BY <1>2, <1>3, <1>4, InitIInv DEF Init, FlowInv, NothingFlowsYet

\* Steps that leave a flow alone, except for the end of the websocket.
LEMMA UpKept ==
    ASSUME IInv, UpFlow, UNCHANGED <<toRelay, relayGot, clientRead, clientWrote>>,
           ws' = "open" => ws = "open"
    PROVE  UpFlow'
<1>1. toRelay \in Seq(Frame) /\ clientRead \in Nat /\ Len(relayGot) \in Nat
  BY DEF IInv, TypeOK
<1>2. Upwards(toRelay, Len(relayGot), clientRead, ws' = "open")
  BY <1>1, UpwardsLoosened DEF UpFlow
<1> QED
  BY <1>2 DEF UpFlow

\* The relay's stream, when neither its bytes nor the buffer move.
LEMMA DownKept ==
    ASSUME DownFlow, UNCHANGED <<clientGot, total_received, discarded, relaySent>>,
           UNCHANGED <<buf, fromRelay>>,
           r2l' \in Receiving =>
             r2l \in Receiving /\ (r2l' = "draining" <=> r2l = "draining"),
           ClientGone => ClientGone', ws' = "open" => ws = "open"
    PROVE  DownFlow'
<1>1. Downwards(buf \o fromRelay, Arrived, relaySent, ws = "open") =>
        Downwards(buf \o fromRelay, Arrived, relaySent, ws' = "open")
  BY DownwardsLoosened
<1> QED
  BY <1>1 DEF DownFlow, Arrived

\* The acknowledgements, when nothing is received, sent or confirmed.
LEMMA AckKept ==
    ASSUME AckFlow, UNCHANGED <<total_acked, total_received, relayAcked, toRelay>>,
           r2l' \in {"receiving", "decoding", "draining"} =>
             r2l \in {"receiving", "decoding", "draining"}
    PROVE  AckFlow'
  BY DEF AckFlow

\* The steps of _connect keep it: they start from nothing.
LEMMA ConnectFlow ==
    ASSUME FlowInv, Connect
    PROVE  NothingFlowsYet' /\ UpFlow' /\ DownFlow' /\ AckFlow'
<1> USE DEF FlowInv, connectVars, sendVars, ackVars, clientVars, relayVars
<1>1. phase \in {"opening", "awaiting", "backoff"}
  BY DEF Connect, Open, AckRejected, AckLost, AckRefused, AckAccepted, BackOff
<1>2. /\ toRelay = <<>> /\ relayGot = <<>> /\ buf = <<>> /\ fromRelay = <<>>
      /\ relaySent = 0 /\ discarded = 0 /\ clientRead = 0 /\ r2l = "idle"
  BY <1>1 DEF NothingFlowsYet, IInv, NothingSentYet
<1>3. /\ UNCHANGED <<relayGot, buf, fromRelay, clientRead, clientWrote, clientEnd,
                     clientGot, total_received, total_acked, relayAcked>>
      /\ toRelay' = toRelay /\ r2l' \in {"idle", "receiving"}
      /\ discarded' \in Nat /\ relaySent' = discarded'
      /\ phase' \in {"opening", "awaiting", "backoff"} => UNCHANGED <<relaySent, discarded>>
  <2>1. CASE AckAccepted
    <3>1. phase' = "pumping" /\ discarded' \in Nat /\ relaySent' = discarded'
      BY <2>1 DEF AckAccepted, DataBehind
    <3> QED
      BY <1>1, <2>1, <3>1, NothingResent DEF AckAccepted
  <2>2. CASE ~AckAccepted
    BY <1>2, <2>2 DEF Connect, Open, AckRejected, AckLost, AckRefused, BackOff
  <2> QED
    BY <2>1, <2>2
<1>4. Len(<<>>) = 0 /\ <<>> \o <<>> = <<>> /\ clientWrote \in Nat /\ 0 \in 0..0
  BY DEF IInv, TypeOK
<1>5. total_received = 0 /\ Len(clientGot) = 0
  <2>1. Downwards(<<>>, total_received, 0, ws = "open")
    <3>1. Arrived = total_received
      BY <1>2 DEF Arrived, IInv, TypeOK
    <3> QED
      BY <1>2, <1>4, <3>1 DEF DownFlow, Receiving
  <2>2. total_received = 0
    BY <2>1 DEF Downwards
  <2> QED
    BY <1>2, <2>2 DEF DownFlow, Receiving
<1>6. UpFlow'
  <2>1. Upwards(<<>>, 0, 0, ws' = "open")
    BY <1>4, UpwardsEmpty
  <2> QED
    BY <1>2, <1>3, <1>4, <2>1 DEF UpFlow
<1>7. DownFlow'
  <2>1. Downwards(<<>>, discarded', discarded', ws' = "open")
    BY <1>3, DownwardsEmpty
  <2>2. Arrived' = discarded'
    <3>1. total_received' = 0 /\ discarded' \in Nat
      BY <1>3, <1>5
    <3>2. Arrived' = discarded' + total_received'
      BY DEF Arrived
    <3>3. \A d \in Nat : d + 0 = d
      OBVIOUS
    <3> QED
      BY <3>1, <3>2, <3>3, Zenon
  <2>3. buf' \o fromRelay' = <<>> /\ total_received' = 0 /\ Len(clientGot') = 0
    BY <1>2, <1>3, <1>4, <1>5
  <2>4. clientGot' = <<>> /\ Pipe!Stream(discarded', 0) = <<>>
    BY <1>3, <1>5 DEF Pipe!Stream, IInv, TypeOK
  <2> QED
    BY <1>3, <2>1, <2>2, <2>3, <2>4 DEF DownFlow, Receiving
<1>8. AckFlow'
  BY <1>2, <1>3, <1>4, <1>5 DEF AckFlow, AckThreshold, IInv, TypeOK
<1> QED
  BY <1>2, <1>3, <1>6, <1>7, <1>8 DEF NothingFlowsYet

\* The steps of _pump_local_to_remote keep it: what is read is sent behind what is
\* on its way, or not at all once the websocket has closed.
LEMMA LocalToRemoteFlow ==
    ASSUME FlowInv, LocalToRemote
    PROVE  NothingFlowsYet' /\ UpFlow' /\ DownFlow' /\ AckFlow'
<1> USE DEF FlowInv, connectVars, sendVars, ackVars, relayVars, L2RFrame
<1>1. UNCHANGED <<phase, discarded, buf, fromRelay, relaySent, relayGot, r2l, ws,
                  clientWrote, clientEnd, clientGot, localClosed, total_received,
                  total_acked, relayAcked>>
  BY DEF LocalToRemote, ReadLocal, ReadEof, ReadReset, Sent
<1>2. phase \notin {"opening", "awaiting", "backoff"}
  BY DEF LocalToRemote, ReadLocal, ReadEof, ReadReset, Sent, IInv, NothingSentYet
<1>3. DownFlow'
  BY <1>1, DownKept DEF ClientGone
<1>4. CASE UNCHANGED <<toRelay, clientRead>>
  BY <1>1, <1>2, <1>3, <1>4, UpKept, AckKept DEF NothingFlowsYet
<1>5. CASE ReadLocal
  <2>1. PICK n \in 1..MaxFrame :
          /\ clientRead + n <= clientWrote
          /\ clientRead' = clientRead + n
          /\ IF ws = "open"
             THEN toRelay' = toRelay \o
                    DataFrames(<<[from |-> clientRead, to |-> clientRead + n]>>)
             ELSE UNCHANGED toRelay
    BY <1>5 DEF ReadLocal
  <2> DEFINE g == [tag |-> "DATA", from |-> clientRead, to |-> clientRead + n]
  <2>2. /\ toRelay \in Seq(Frame) /\ clientRead \in Nat /\ n \in Nat \ {0}
        /\ Len(relayGot) \in Nat /\ clientRead + n \in Nat
    BY DEF IInv, TypeOK
  <2>3. g \in Frame /\ g.tag = "DATA" /\ g.from = clientRead /\ g.to = clientRead + n
    BY <2>2 DEF Frame
  <2>4. DataFrames(<<[from |-> clientRead, to |-> clientRead + n]>>) = <<g>>
    BY DEF DataFrames
  <2> HIDE DEF g
  <2>5. CASE ws = "open"
    <3>1. toRelay' = Append(toRelay, g)
      <4>1. toRelay' = toRelay \o <<g>>
        BY <2>1, <2>4, <2>5, Zenon
      <4> QED
        BY <2>2, <2>3, <4>1
    <3>2. Upwards(toRelay, Len(relayGot), clientRead, TRUE)
      BY <2>2, <2>5, UpwardsLoosened DEF UpFlow
    <3>3. clientRead < clientRead + n
      BY <2>2
    <3>4. Upwards(toRelay', Len(relayGot), clientRead', TRUE)
      BY <2>1, <2>2, <2>3, <3>1, <3>2, <3>3, UpwardsAppend
    <3>5. Upwards(toRelay', Len(relayGot), clientRead', ws' = "open")
      BY <3>4 DEF Upwards
    <3>6. UpFlow'
      BY <1>1, <2>1, <3>5 DEF UpFlow
    <3>7. AckFlow'
      <4>1. /\ Len(toRelay') = Len(toRelay) + 1 /\ Len(toRelay) \in Nat
            /\ toRelay'[Len(toRelay) + 1] = g
            /\ \A i \in 1..Len(toRelay) : toRelay'[i] = toRelay[i]
        BY <2>2, <3>1
      <4>2. ASSUME NEW i \in 1..Len(toRelay'), toRelay'[i].tag = "ACK"
            PROVE  toRelay'[i].to <= total_received
        <5>1. i # Len(toRelay) + 1
          BY <2>3, <4>1, <4>2
        <5>2. i \in 1..Len(toRelay)
          BY <4>1, <5>1
        <5> QED
          BY <4>1, <4>2, <5>2 DEF AckFlow
      <4> QED
        BY <1>1, <4>2 DEF AckFlow
    <3> QED
      BY <1>1, <1>2, <1>3, <3>6, <3>7 DEF NothingFlowsYet
  <2>6. CASE ws # "open"
    <3>1. Upwards(toRelay, Len(relayGot), clientRead', ws' = "open")
      <4>1. clientRead' \in Nat /\ clientRead <= clientRead'
        BY <2>1, <2>2
      <4> QED
        BY <1>1, <2>2, <2>6, <4>1, UpwardsLoosened DEF UpFlow
    <3>2. UpFlow'
      BY <1>1, <2>1, <2>6, <3>1 DEF UpFlow
    <3> QED
      BY <1>1, <1>2, <1>3, <2>1, <2>6, <3>2, AckKept DEF NothingFlowsYet
  <2> QED
    BY <2>5, <2>6
<1> QED
  BY <1>4, <1>5 DEF LocalToRemote, ReadEof, ReadReset, Sent

\* Taking a message from the websocket changes nothing of what is in flight.
LEMMA MessageTaken ==
    ASSUME NEW b \in Seq(Unit), NEW f \in Seq(Unit), NEW k \in 1..Len(f)
    PROVE  (b \o SubSeq(f, 1, k)) \o SubSeq(f, k + 1, Len(f)) = b \o f
<1>1. SubSeq(f, 1, k) \in Seq(Unit) /\ SubSeq(f, k + 1, Len(f)) \in Seq(Unit)
  OBVIOUS
<1>2. SubSeq(f, 1, k) \o SubSeq(f, k + 1, Len(f)) = f
  <2> DEFINE g == SubSeq(f, 1, k)
             h == SubSeq(f, k + 1, Len(f))
  <2>1. /\ Len(g) = k /\ Len(h) = Len(f) - k /\ Len(f) \in Nat /\ k \in 1..Len(f)
        /\ \A i \in 1..k : g[i] = f[i]
        /\ \A i \in 1..Len(f) - k : h[i] = f[k + i]
    OBVIOUS
  <2> HIDE DEF g, h
  <2>2. g \in Seq(Unit) /\ h \in Seq(Unit)
    BY <1>1 DEF g, h
  <2>3. /\ g \o h \in Seq(Unit) /\ Len(g \o h) = Len(f)
        /\ \A i \in 1..Len(f) : (g \o h)[i] = IF i <= k THEN g[i] ELSE h[i - k]
    <3>1. k + (Len(f) - k) = Len(f)
      BY <2>1
    <3> QED
      <4>1. /\ g \o h \in Seq(Unit) /\ Len(g \o h) = Len(g) + Len(h)
            /\ \A i \in 1..Len(g) + Len(h) :
                 (g \o h)[i] = IF i <= Len(g) THEN g[i] ELSE h[i - Len(g)]
        BY <2>2, ConcatProperties
      <4> QED
        BY <2>1, <3>1, <4>1
  <2>4. ASSUME NEW i \in 1..Len(f) PROVE (g \o h)[i] = f[i]
    <3>1. CASE i <= k
      BY <2>1, <2>3, <3>1
    <3>2. CASE ~(i <= k)
      <4>1. i - k \in 1..Len(f) - k /\ k + (i - k) = i
        BY <2>1, <3>2
      <4> QED
        BY <2>1, <2>3, <3>2, <4>1
    <3> QED
      BY <3>1, <3>2
  <2>5. g \o h = f
    BY <2>3, <2>4, SeqEqual
  <2> QED
    BY <2>5 DEF g, h
<1>3. ASSUME NEW g \in Seq(Unit), NEW h \in Seq(Unit), g \o h = f
      PROVE  (b \o g) \o h = b \o f
  <2>1. (b \o g) \o h = b \o (g \o h)
    BY ConcatAssociative
  <2> QED
    BY <1>3, <2>1
<1> QED
  BY <1>1, <1>2, <1>3

\* Taking the frame at the head of the buffer.
LEMMA HeadTaken ==
    ASSUME FlowInv, HasFrame(buf), r2l \in {"decoding", "draining"}
    PROVE  /\ Head(buf) = buf[1] /\ Head(buf).val \in Nat
           /\ IF Head(buf).kind = "DATA"
              THEN /\ Head(buf).val > 0 /\ buf[2].val = Arrived
                   /\ Arrived + Head(buf).val \in Arrived + 1..relaySent
                   /\ Downwards(Remaining(buf) \o fromRelay,
                                Arrived + Head(buf).val, relaySent, ws = "open")
              ELSE Downwards(Remaining(buf) \o fromRelay, Arrived, relaySent,
                             ws = "open")
<1>1. /\ buf \in Seq(Unit) /\ fromRelay \in Seq(Unit) /\ Arrived \in Nat
      /\ relaySent \in Nat
  BY DEF FlowInv, IInv, TypeOK, Arrived
<1>2. Downwards(buf \o fromRelay, Arrived, relaySent, ws = "open")
  BY DEF FlowInv, DownFlow, Receiving
<1>3. Head(buf) = buf[1] /\ Head(buf).val \in Nat
  BY <1>1, CodecType
<1> QED
  BY <1>1, <1>2, <1>3, DownwardsHead

\* What comes next in the relay's stream continues what has arrived.
LEMMA ArrivedGrows ==
    ASSUME discarded \in Nat, total_received \in Nat, NEW n \in Nat
    PROVE  Pipe!Stream(discarded, total_received) \o Positions(Arrived, n)
             = Pipe!Stream(discarded, total_received + n)
<1>1. Pipe!Stream(discarded, total_received)
        \o Positions(discarded + total_received, n)
          = Pipe!Stream(discarded, total_received + n)
  BY StreamGrows
<1> QED
  BY <1>1, Zenon DEF Arrived

\* The steps of _pump_remote_to_local keep it.
LEMMA RemoteToLocalFlow ==
    ASSUME FlowInv, RemoteToLocal
    PROVE  NothingFlowsYet' /\ UpFlow' /\ DownFlow' /\ AckFlow'
<1> USE DEF connectVars, clientVars, relayVars, R2LFrame
<1>0. /\ IInv /\ NothingFlowsYet /\ UpFlow /\ DownFlow /\ AckFlow /\ TypeOK
  BY DEF FlowInv, IInv
<1>1. /\ UNCHANGED <<phase, discarded, relaySent, relayGot, ws, clientWrote, clientRead,
                     clientEnd, localClosed, relayAcked>>
      /\ ClientGone' = ClientGone
  BY DEF RemoteToLocal, Receive, ReceiveEnds, DecodeIncomplete, DecodeUnknown,
     DecodeData, Drained, AckSent, DecodeAck, DecodeUnexpected, ClientGone
<1>2. phase \notin {"opening", "awaiting", "backoff"}
  BY <1>0 DEF RemoteToLocal, Receive, ReceiveEnds, DecodeIncomplete, DecodeUnknown,
     DecodeData, Drained, AckSent, DecodeAck, DecodeUnexpected, IInv, NothingSentYet
<1>3. NothingFlowsYet'
  BY <1>1, <1>2 DEF NothingFlowsYet
<1>4. toRelay' = toRelay => UpFlow'
  BY <1>0, <1>1, UpKept
<1>6. CASE Receive
  <2>1. PICK k \in 1..Len(fromRelay) :
          /\ buf' = buf \o SubSeq(fromRelay, 1, k)
          /\ fromRelay' = SubSeq(fromRelay, k + 1, Len(fromRelay))
    BY <1>6 DEF Receive
  <2>2. buf' \o fromRelay' = buf \o fromRelay
    BY <1>0, <2>1, MessageTaken DEF TypeOK
  <2>3. DownFlow'
    BY <1>0, <1>1, <1>6, <2>2 DEF Receive, DownFlow, Receiving, ackVars, Arrived
  <2> QED
    BY <1>0, <1>1, <1>3, <1>4, <1>6, <2>3, AckKept DEF Receive, ackVars
<1>7. CASE ReceiveEnds \/ DecodeIncomplete \/ DecodeUnknown
  <2>1. DownFlow'
    BY <1>0, <1>1, <1>7, DownKept DEF ReceiveEnds, DecodeIncomplete, DecodeUnknown,
       Receiving, ackVars
  <2> QED
    BY <1>0, <1>1, <1>3, <1>4, <1>7, <2>1, AckKept DEF ReceiveEnds, DecodeIncomplete,
       DecodeUnknown, ackVars
<1>8. CASE DecodeData
  <2>1. /\ HasFrame(buf) /\ r2l = "decoding" /\ Head(buf).kind = "DATA"
        /\ r2l' = "draining"
        /\ UNCHANGED <<buf, fromRelay, ackVars, toRelay>>
        /\ clientGot' = IF ClientGone THEN clientGot
                        ELSE clientGot \o Positions(buf[2].val, buf[1].val)
    BY <1>8 DEF DecodeData
  <2>2. /\ buf[2].val = Arrived /\ Head(buf) = buf[1]
        /\ Head(buf).val \in Nat /\ total_received \in Nat /\ discarded \in Nat
    BY <1>0, <2>1, HeadTaken DEF TypeOK
  <2>3. /\ Len(clientGot) = total_received
        /\ clientGot = Pipe!Stream(discarded, Len(clientGot))
        /\ Downwards(buf \o fromRelay, Arrived, relaySent, ws = "open")
    BY <1>0, <2>1 DEF DownFlow, Receiving
  <2>4. clientGot' = IF ClientGone THEN clientGot
                     ELSE Pipe!Stream(discarded, total_received + Head(buf).val)
    <3>1. Pipe!Stream(discarded, total_received) \o Positions(Arrived, Head(buf).val) =
            Pipe!Stream(discarded, total_received + Head(buf).val)
      BY <2>2, ArrivedGrows
    <3>2. clientGot = Pipe!Stream(discarded, total_received)
      BY <2>3
    <3>3. clientGot \o Positions(buf[2].val, buf[1].val) =
            Pipe!Stream(discarded, total_received + Head(buf).val)
      BY <2>2, <3>1, <3>2, Zenon
    <3> QED
      BY <2>1, <3>3, Zenon
  <2>5. total_received + Head(buf).val \in Nat
    BY <2>2
  <2>6. Len(Pipe!Stream(discarded, total_received + Head(buf).val))
          = total_received + Head(buf).val
    BY <2>2, <2>5, StreamGrows
  <2>7. /\ clientGot' = Pipe!Stream(discarded, Len(clientGot'))
        /\ total_received <= Len(clientGot')
        /\ ~ClientGone => Len(clientGot') = total_received + Head(buf).val
    <3>1. CASE ClientGone
      BY <2>2, <2>3, <2>4, <3>1
    <3>2. CASE ~ClientGone
      <4>1. clientGot' = Pipe!Stream(discarded, total_received + Head(buf).val)
        BY <2>4, <3>2
      <4>2. Len(clientGot') = total_received + Head(buf).val
        BY <2>6, <4>1
      <4> QED
        BY <2>2, <4>1, <4>2
    <3> QED
      BY <3>1, <3>2
  <2>8. DownFlow'
    BY <1>1, <2>1, <2>3, <2>7 DEF DownFlow, Receiving, ackVars, Arrived
  <2> QED
    BY <1>0, <1>1, <1>3, <1>4, <2>1, <2>8, AckKept DEF ackVars
<1>9. CASE Drained
  <2> DEFINE n == Head(buf).val
  <2>1. /\ r2l = "draining" /\ HasFrame(buf) /\ Head(buf).kind = "DATA"
        /\ UNCHANGED <<fromRelay, total_acked, clientGot>>
    BY <1>0, <1>9 DEF Drained, IInv, DrainingData
  <2>2. /\ n \in Nat /\ total_received \in Nat /\ total_acked \in Nat
        /\ total_received + n \in Nat /\ discarded \in Nat
        /\ Downwards(Remaining(buf) \o fromRelay, Arrived + n, relaySent, ws = "open")
    BY <1>0, <2>1, HeadTaken DEF TypeOK
  <2>3. CASE ClientGone
    <3>1. r2l' = "raised" /\ UNCHANGED <<buf, total_received, toRelay>>
      BY <1>9, <2>3 DEF Drained
    <3>2. DownFlow'
      BY <1>0, <1>1, <2>1, <3>1, DownKept DEF Receiving
    <3> QED
      BY <1>0, <1>1, <1>3, <1>4, <2>1, <3>1, <3>2, AckKept
  <2>4. CASE ~ClientGone
    <3>1. /\ total_received' = total_received + n /\ buf' = Remaining(buf)
          /\ \/ ~AckDue(n) /\ r2l' = "decoding" /\ toRelay' = toRelay
             \/ /\ AckDue(n) /\ ws = "open" /\ r2l' = "acking"
                /\ toRelay' = Append(toRelay,
                     [tag |-> "ACK", from |-> 0, to |-> total_received + n])
             \/ r2l' = "raised" /\ toRelay' = toRelay
      BY <1>9, <2>4 DEF Drained
    <3>2. Len(clientGot) = total_received + n
      BY <1>0, <2>1, <2>4 DEF DownFlow, Receiving
    <3>3. DownFlow'
      <4>1. r2l' # "draining" /\ clientGot' = clientGot /\ fromRelay' = fromRelay
        BY <2>1, <3>1
      <4>2. Downwards(buf' \o fromRelay', Arrived', relaySent', ws' = "open")
        <5>1. Arrived' = Arrived + n
          BY <1>1, <2>2, <3>1 DEF Arrived
        <5> QED
          BY <1>1, <2>2, <3>1, <4>1, <5>1
      <4>3. clientGot = Pipe!Stream(discarded, Len(clientGot))
        BY <1>0 DEF DownFlow
      <4>4. Len(clientGot') = total_received' /\ total_received' \in Nat
        BY <2>2, <3>1, <3>2, <4>1
      <4> HIDE DEF n
      <4> QED
        BY <1>1, <4>1, <4>2, <4>3, <4>4 DEF DownFlow
    <3>4. total_acked <= total_received' /\ relayAcked <= total_received'
          /\ relayAcked \in Nat /\ total_received <= total_received'
      BY <1>0, <2>2, <3>1 DEF AckFlow, TypeOK
    <3>5. \A i \in 1..Len(toRelay) :
            toRelay[i].tag = "ACK" => toRelay[i].to <= total_received'
      <4>1. ASSUME NEW i \in 1..Len(toRelay), toRelay[i].tag = "ACK"
            PROVE  toRelay[i].to <= total_received'
        <5>1. toRelay[i] \in Frame
          BY <1>0 DEF TypeOK
        <5>2. toRelay[i].to \in Nat /\ toRelay[i].to <= total_received
          BY <1>0, <4>1, <5>1 DEF Frame, AckFlow
        <5> QED
          BY <2>2, <3>1, <3>4, <5>2
      <4> QED
        BY <4>1
    <3>6. CASE toRelay' = toRelay
      <4>1. r2l' \in {"receiving", "decoding", "draining"} =>
              total_received' <= total_acked' + AckThreshold
        BY <2>1, <2>2, <3>1, <3>6 DEF AckDue, AckThreshold
      <4>2. AckFlow'
        BY <1>1, <2>1, <3>4, <3>5, <3>6, <4>1 DEF AckFlow
      <4> QED
        BY <1>3, <1>4, <3>3, <3>6, <4>2
    <3>7. CASE toRelay' # toRelay
      <4> DEFINE g == [tag |-> "ACK", from |-> 0, to |-> total_received + n]
      <4>1. ws = "open" /\ r2l' = "acking" /\ toRelay' = Append(toRelay, g)
        BY <3>1, <3>7
      <4>2. /\ g \in Frame /\ g.tag # "DATA" /\ g.to = total_received'
            /\ toRelay \in Seq(Frame) /\ clientRead \in Nat /\ Len(relayGot) \in Nat
        BY <1>0, <2>2, <3>1 DEF Frame, TypeOK
      <4> HIDE DEF g, n
      <4>3. Upwards(toRelay', Len(relayGot), clientRead, TRUE)
        <5>1. Upwards(toRelay, Len(relayGot), clientRead, TRUE)
          BY <1>0, <4>1 DEF UpFlow, Upwards
        <5> QED
          BY <4>1, <4>2, <5>1, UpwardsAppend
      <4>4. Upwards(toRelay', Len(relayGot), clientRead, ws = "open")
        BY <4>3 DEF Upwards
      <4>5. UpFlow'
        BY <1>0, <1>1, <4>4 DEF UpFlow
      <4>6. /\ Len(toRelay') = Len(toRelay) + 1 /\ toRelay'[Len(toRelay) + 1] = g
            /\ \A i \in 1..Len(toRelay) : toRelay'[i] = toRelay[i]
            /\ Len(toRelay) \in Nat
        BY <4>1, <4>2
      <4>7. ASSUME NEW i \in 1..Len(toRelay'), toRelay'[i].tag = "ACK"
            PROVE  toRelay'[i].to <= total_received'
        <5>1. CASE i = Len(toRelay) + 1
          BY <2>2, <3>1, <4>2, <4>6, <5>1
        <5>2. CASE i # Len(toRelay) + 1
          <6>1. i \in 1..Len(toRelay)
            BY <4>6, <5>2
          <6> QED
            BY <3>5, <4>6, <4>7, <6>1
        <5> QED
          BY <5>1, <5>2
      <4>8. AckFlow'
        BY <1>1, <2>1, <3>4, <4>1, <4>7 DEF AckFlow
      <4> QED
        BY <1>3, <3>3, <4>5, <4>8
    <3> QED
      BY <3>6, <3>7
  <2> QED
    BY <2>3, <2>4
<1>10. CASE AckSent
  <2>1. /\ r2l = "acking" /\ UNCHANGED <<buf, fromRelay, total_received, toRelay, clientGot>>
        /\ \/ r2l' = "decoding" /\ total_acked' = total_received
           \/ r2l' = "raised" /\ total_acked' = total_acked
    BY <1>10 DEF AckSent
  <2>2. DownFlow'
    BY <1>0, <1>1, <2>1, DownKept DEF Receiving
  <2>3. AckFlow'
    BY <1>0, <1>1, <2>1 DEF AckFlow, AckThreshold, TypeOK
  <2> QED
    BY <1>3, <1>4, <2>1, <2>2, <2>3
<1>11. CASE DecodeAck \/ DecodeUnexpected
  <2>1. /\ r2l = "decoding" /\ HasFrame(buf) /\ Head(buf).kind # "DATA"
        /\ buf' = Remaining(buf) /\ r2l' \in {"raised", "decoding"}
        /\ UNCHANGED <<fromRelay, total_received, total_acked, toRelay, clientGot>>
    BY <1>11 DEF DecodeAck, DecodeUnexpected, ackVars
  <2>2. Downwards(Remaining(buf) \o fromRelay, Arrived, relaySent, ws = "open")
    BY <2>1, HeadTaken
  <2>3. DownFlow'
    BY <1>0, <1>1, <2>1, <2>2 DEF DownFlow, Receiving, Arrived
  <2> QED
    BY <1>0, <1>1, <1>3, <1>4, <2>1, <2>3, AckKept
<1> QED
  BY <1>6, <1>7, <1>8, <1>9, <1>10, <1>11 DEF RemoteToLocal

\* The end of pump() keeps it: closing the websocket only loosens what is known.
LEMMA PumpFlow ==
    ASSUME FlowInv, Pump
    PROVE  NothingFlowsYet' /\ UpFlow' /\ DownFlow' /\ AckFlow'
<1>1. /\ phase' \notin {"opening", "awaiting", "backoff"}
      /\ UNCHANGED <<toRelay, relayGot, clientRead, clientWrote, clientEnd, clientGot,
                     total_received, total_acked, discarded, relaySent, relayAcked, buf,
                     fromRelay, r2l>>
      /\ ws' = "open" => ws = "open"
      /\ localClosed => localClosed'
  BY DEF Pump, GatherEnds, CloseBoth, PumpFrame, sendVars, ackVars, clientVars,
     relayVars
<1>2. UpFlow' /\ AckFlow'
  BY <1>1, UpKept, AckKept DEF FlowInv
<1>3. ClientGone => ClientGone'
  BY <1>1 DEF ClientGone
<1>4. DownFlow'
  BY <1>1, <1>3, DownKept DEF FlowInv
<1> QED
  BY <1>1, <1>2, <1>4 DEF NothingFlowsYet

\* What the relay puts on the wire are whole frames.
LEMMA FramesSent ==
    ASSUME NEW n \in Nat \ {0}, NEW at \in Nat, NEW c \in Nat
    PROVE  /\ EncodeData(at, n) \in Seq(Unit) /\ Len(EncodeData(at, n)) = 2
           /\ EncodeData(at, n)[1].kind = "DATA" /\ EncodeData(at, n)[1].val = n
           /\ FrameLen(EncodeData(at, n)[1]) = 2
           /\ EncodeData(at, n)[2].kind \notin Tags /\ EncodeData(at, n)[2].val = at
           /\ EncodeAck(c) \in Seq(Unit) /\ Len(EncodeAck(c)) = 2
           /\ EncodeAck(c)[1].kind = "ACK" /\ FrameLen(EncodeAck(c)[1]) = 2
           /\ EncodeAck(c)[2].kind \notin Tags
<1>1. /\ U("DATA", n) \in Unit /\ U("BYTES", at) \in Unit
      /\ U("ACK", 0) \in Unit /\ U("COUNT", c) \in Unit
  BY UnitType DEF Tags
<1> QED
  BY <1>1, UnitType DEF EncodeData, EncodeAck, U, FrameLen, Tags

\* The relay sends a whole frame behind what is in flight.
LEMMA RelayFlow ==
    ASSUME FlowInv, ws = "open", ws' = ws, UNCHANGED <<buf, total_received, clientGot, r2l>>,
           discarded' = discarded, ClientGone => ClientGone', relaySent' \in Nat,
           NEW m \in Seq(Unit), fromRelay' = fromRelay \o m,
           Len(m) \in {1, 2}, FrameLen(m[1]) = Len(m), Len(m) = 2 => m[2].kind \notin Tags,
           IF m[1].kind = "DATA"
           THEN m[1].val > 0 /\ m[2].val = relaySent /\ relaySent' = relaySent + m[1].val
           ELSE relaySent' = relaySent
    PROVE  DownFlow'
<1>1. /\ buf \in Seq(Unit) /\ fromRelay \in Seq(Unit) /\ relaySent \in Nat
      /\ Arrived \in Nat /\ Arrived' = Arrived /\ DownFlow
  BY DEF FlowInv, IInv, TypeOK, Arrived
<1>2. buf' \o fromRelay' = (buf \o fromRelay) \o m /\ buf \o fromRelay \in Seq(Unit)
  <2>1. (buf \o fromRelay) \o m = buf \o (fromRelay \o m)
    BY <1>1, ConcatAssociative
  <2> QED
    BY <1>1, <2>1
<1>3. r2l \in Receiving =>
        Downwards(buf' \o fromRelay', Arrived, relaySent', TRUE)
  <2>1. ASSUME r2l \in Receiving
        PROVE  Downwards(buf \o fromRelay, Arrived, relaySent, TRUE)
    BY <1>1, <2>1 DEF DownFlow, Downwards
  <2>2. ASSUME NEW s \in Seq(Unit), Downwards(s, Arrived, relaySent, TRUE)
        PROVE  Downwards(s \o m, Arrived, relaySent', TRUE)
    BY <1>1, <2>2, DownwardsAppend
  <2> QED
    BY <1>2, <2>1, <2>2
<1>4. r2l \in Receiving =>
        Downwards(buf' \o fromRelay', Arrived, relaySent', ws' = "open")
  BY <1>3, DownwardsLoosened
<1> QED
  BY <1>1, <1>4 DEF DownFlow

\* Cutting what is in flight behind the buffer.
LEMMA BufferedCut ==
    ASSUME NEW b \in Seq(Unit), NEW f \in Seq(Unit), NEW k \in 0..Len(f)
    PROVE  /\ b \o f \in Seq(Unit) /\ Len(b) + k \in 0..Len(b \o f)
           /\ SubSeq(b \o f, 1, Len(b) + k) = b \o SubSeq(f, 1, k)
<1> DEFINE c == SubSeq(f, 1, k)
           s == b \o f
           t == b \o c
           u == SubSeq(s, 1, Len(b) + k)
<1>1. /\ c \in Seq(Unit) /\ Len(c) = k /\ \A i \in 1..k : c[i] = f[i]
      /\ Len(b) \in Nat /\ Len(f) \in Nat /\ k \in 0..Len(f)
  OBVIOUS
<1>2. /\ s \in Seq(Unit) /\ Len(s) = Len(b) + Len(f)
      /\ \A i \in 1..Len(b) + Len(f) : s[i] = IF i <= Len(b) THEN b[i] ELSE f[i - Len(b)]
  BY ConcatProperties
<1>3. /\ t \in Seq(Unit) /\ Len(t) = Len(b) + k
      /\ \A i \in 1..Len(b) + k : t[i] = IF i <= Len(b) THEN b[i] ELSE c[i - Len(b)]
  <2> HIDE DEF c
  <2>1. /\ t \in Seq(Unit) /\ Len(t) = Len(b) + Len(c)
        /\ \A i \in 1..Len(b) + Len(c) : t[i] = IF i <= Len(b) THEN b[i] ELSE c[i - Len(b)]
    BY <1>1, ConcatProperties
  <2> QED
    BY <1>1, <2>1
<1> HIDE DEF c, s, t
<1>4. Len(b) + k \in 0..Len(s)
  BY <1>1, <1>2
<1>5. /\ u \in Seq(Unit) /\ Len(u) = Len(b) + k /\ \A i \in 1..Len(b) + k : u[i] = s[i]
  BY <1>2, <1>4
<1> HIDE DEF u
<1>6. ASSUME NEW i \in 1..Len(b) + k PROVE u[i] = t[i]
  <2>1. CASE i <= Len(b)
    <3>1. i \in 1..Len(b) + Len(f)
      BY <1>1, <2>1
    <3> QED
      BY <1>2, <1>3, <1>5, <2>1, <3>1
  <2>2. CASE ~(i <= Len(b))
    <3>1. i - Len(b) \in 1..k /\ i \in 1..Len(b) + Len(f)
      BY <1>1, <2>2
    <3> QED
      BY <1>1, <1>2, <1>3, <1>5, <2>2, <3>1
  <2> QED
    BY <2>1, <2>2
<1>7. u = t
  BY <1>3, <1>5, <1>6, SeqEqual
<1> QED
  BY <1>2, <1>4, <1>7 DEF c, s, t, u

\* The steps of the client and the relay keep it.
LEMMA EnvironmentFlow ==
    ASSUME FlowInv, Environment
    PROVE  NothingFlowsYet' /\ UpFlow' /\ DownFlow' /\ AckFlow'
<1> USE DEF TunnelFrame, connectVars, sendVars, ackVars, clientVars, relayVars
<1>0. /\ IInv /\ NothingFlowsYet /\ UpFlow /\ DownFlow /\ AckFlow /\ TypeOK
  BY DEF FlowInv, IInv
<1>1. UNCHANGED <<phase, r2l, buf, total_received, total_acked, clientRead, clientGot,
                  localClosed, discarded>>
  BY DEF Environment, ClientWrites, ClientEnds, RelayReceives, RelaySends,
     RelayConfirms, RelayMisbehaves, RelayCloses
<1>2. CASE ClientWrites \/ ClientEnds
  <2>1. /\ UNCHANGED <<ws, toRelay, fromRelay, relayGot, relaySent, relayAcked>>
        /\ ClientGone => ClientGone'
    BY <1>1, <1>2 DEF ClientWrites, ClientEnds, ClientGone
  <2>2. clientWrote' >= clientWrote /\ clientWrote \in Nat /\ clientRead \in Nat
        /\ clientWrote' \in Nat
    BY <1>0, <1>2 DEF ClientWrites, ClientEnds, TypeOK
  <2>3. UpFlow'
    BY <1>0, <1>1, <2>1, <2>2 DEF UpFlow
  <2> QED
    BY <1>0, <1>1, <2>1, <2>3, DownKept, AckKept DEF NothingFlowsYet
<1>3. CASE RelayReceives
  <2> DEFINE f == Head(toRelay)
  <2>1. /\ toRelay # <<>> /\ toRelay' = Tail(toRelay)
        /\ IF f.tag = "DATA"
           THEN /\ relayGot' = relayGot \o Positions(f.from, f.to - f.from)
                /\ UNCHANGED relayAcked
           ELSE relayAcked' = f.to /\ UNCHANGED relayGot
        /\ UNCHANGED <<ws, fromRelay, clientWrote, clientEnd, relaySent>>
    BY <1>3 DEF RelayReceives
  <2>2. /\ toRelay \in Seq(Frame) /\ clientRead \in Nat /\ Len(relayGot) \in Nat
        /\ f \in Frame /\ f.to \in Nat /\ f.from \in Nat /\ f = toRelay[1]
    <3>1. toRelay \in Seq(Frame) /\ clientRead \in Nat /\ Len(relayGot) \in Nat
      BY <1>0 DEF TypeOK
    <3>2. f \in Frame /\ f = toRelay[1]
      BY <2>1, <3>1
    <3> QED
      BY <3>1, <3>2 DEF Frame
  <2>3. IF f.tag = "DATA"
        THEN /\ f.from = Len(relayGot) /\ f.to \in f.from + 1..clientRead
             /\ Upwards(Tail(toRelay), f.to, clientRead, ws = "open")
        ELSE Upwards(Tail(toRelay), Len(relayGot), clientRead, ws = "open")
    BY <1>0, <2>1, <2>2, UpwardsTail DEF UpFlow
  <2> HIDE DEF f
  <2>4. UpFlow'
    <3>1. CASE f.tag = "DATA"
      <4>1. f.to - f.from \in Nat /\ f.from + (f.to - f.from) = f.to
        BY <2>2, <2>3, <3>1
      <4>2. Pipe!Stream(0, f.from) \o Positions(f.from, f.to - f.from) = Pipe!Stream(0, f.to)
        <5>1. \A m, n \in Nat : Pipe!Stream(0, m) \o Positions(m, n) = Pipe!Stream(0, m + n)
          BY WholeStreamGrows
        <5>2. Pipe!Stream(0, f.from) \o Positions(f.from, f.to - f.from)
                = Pipe!Stream(0, f.from + (f.to - f.from))
          BY <2>2, <4>1, <5>1, Zenon
        <5> QED
          BY <4>1, <5>2, Zenon
      <4>3. Len(Pipe!Stream(0, f.to)) = f.to
        BY <2>2, WholeStreamGrows
      <4>4. relayGot = Pipe!Stream(0, f.from)
        BY <1>0, <2>3, <3>1 DEF UpFlow
      <4>5. relayGot' = Pipe!Stream(0, f.to)
        BY <2>1, <3>1, <4>2, <4>4, Zenon
      <4>6. Len(relayGot') = f.to
        BY <4>3, <4>5
      <4> QED
        BY <1>0, <1>1, <2>1, <2>3, <3>1, <4>5, <4>6 DEF UpFlow
    <3>2. CASE f.tag # "DATA"
      BY <1>0, <1>1, <2>1, <2>3, <3>2 DEF UpFlow
    <3> QED
      BY <3>1, <3>2
  <2>5. AckFlow'
    <3>1. /\ Len(toRelay') = Len(toRelay) - 1 /\ Len(toRelay) \in Nat \ {0}
          /\ \A i \in 1..Len(toRelay) - 1 : toRelay'[i] = toRelay[i + 1]
      BY <2>1, <2>2
    <3>2. ASSUME NEW i \in 1..Len(toRelay'), toRelay'[i].tag = "ACK"
          PROVE  toRelay'[i].to <= total_received
      <4>1. i + 1 \in 1..Len(toRelay) /\ toRelay'[i] = toRelay[i + 1]
        BY <3>1
      <4> QED
        BY <1>0, <3>2, <4>1 DEF AckFlow
    <3>3. relayAcked' <= total_received
      <4>1. 1 \in 1..Len(toRelay)
        BY <3>1
      <4>2. f.tag \in {"DATA", "ACK"}
        BY <2>2 DEF Frame
      <4> QED
        BY <1>0, <2>1, <2>2, <4>1, <4>2 DEF AckFlow
    <3> QED
      BY <1>0, <1>1, <3>2, <3>3 DEF AckFlow
  <2>6. DownFlow'
    BY <1>0, <1>1, <2>1, DownKept DEF ClientGone
  <2>7. phase \notin {"opening", "awaiting", "backoff"}
    BY <1>0, <2>1 DEF NothingFlowsYet
  <2> QED
    BY <1>1, <2>4, <2>5, <2>6, <2>7 DEF NothingFlowsYet
<1>4. CASE RelaySends \/ RelayConfirms \/ RelayMisbehaves
  <2>1. /\ phase = "pumping" /\ ws = "open" /\ ClientGone' = ClientGone
        /\ UNCHANGED <<ws, toRelay, clientWrote, relayGot, relayAcked>>
    BY <1>1, <1>4 DEF RelaySends, RelayConfirms, RelayMisbehaves, ClientGone
  <2>2. UpFlow' /\ AckFlow' /\ NothingFlowsYet'
    BY <1>0, <1>1, <2>1, UpKept, AckKept DEF NothingFlowsYet
  <2>3. relaySent \in Nat /\ Len(relayGot) \in Nat /\ relayConf \in Nat
    BY <1>0 DEF TypeOK
  <2>4. CASE RelaySends
    <3>1. PICK n \in RelaySizes :
            /\ fromRelay' = fromRelay \o EncodeData(relaySent, n)
            /\ relaySent' = relaySent + n
      BY <2>4 DEF RelaySends
    <3>2. n \in Nat \ {0} /\ relaySent' \in Nat
      BY <2>3, <3>1
    <3> DEFINE m == EncodeData(relaySent, n)
    <3>3. /\ m \in Seq(Unit) /\ Len(m) = 2 /\ FrameLen(m[1]) = 2
          /\ m[1].kind = "DATA" /\ m[1].val = n /\ m[2].val = relaySent
          /\ m[2].kind \notin Tags
      BY <2>3, <3>2, FramesSent
    <3> HIDE DEF m
    <3>4. fromRelay' = fromRelay \o m /\ relaySent' = relaySent + m[1].val /\ m[1].val > 0
      BY <3>1, <3>2, <3>3 DEF m
    <3>5. DownFlow'
      BY <1>1, <2>1, <3>2, <3>3, <3>4, RelayFlow
    <3> QED
      BY <2>2, <3>5
  <2>5. CASE RelayConfirms \/ RelayMisbehaves
    <3>1. relaySent' = relaySent
      BY <2>5 DEF RelayConfirms, RelayMisbehaves
    <3>2. PICK m \in Seq(Unit) :
            /\ fromRelay' = fromRelay \o m
            /\ Len(m) \in {1, 2} /\ FrameLen(m[1]) = Len(m) /\ m[1].kind # "DATA"
            /\ Len(m) = 2 => m[2].kind \notin Tags
      <4>1. ASSUME NEW c \in Nat
            PROVE  /\ EncodeAck(c) \in Seq(Unit) /\ Len(EncodeAck(c)) = 2
                   /\ EncodeAck(c)[1].kind # "DATA" /\ FrameLen(EncodeAck(c)[1]) = 2
                   /\ EncodeAck(c)[2].kind \notin Tags
        BY <4>1, FramesSent
      <4>2. ASSUME NEW k \in {"SID", "BAD"}
            PROVE  /\ <<U(k, 0)>> \in Seq(Unit) /\ Len(<<U(k, 0)>>) = 1
                   /\ <<U(k, 0)>>[1].kind # "DATA" /\ FrameLen(<<U(k, 0)>>[1]) = 1
        <5>1. U(k, 0) \in Unit /\ U(k, 0).kind = k
          BY DEF U, Unit, Tags
        <5> QED
          BY <5>1 DEF FrameLen
      <4>3. CASE RelayConfirms
        <5>1. PICK c \in relayConf + 1..Len(relayGot) :
                fromRelay' = fromRelay \o EncodeAck(c)
          BY <4>3 DEF RelayConfirms
        <5>2. c \in Nat
          BY <2>3
        <5> QED
          BY <4>1, <5>1, <5>2
      <4>4. CASE RelayMisbehaves
        <5>1. PICK q \in {<<U("SID", 0)>>, <<U("BAD", 0)>>,
                          EncodeAck(0), EncodeAck(LocalTotal + 1)} :
                fromRelay' = fromRelay \o q
          BY <4>4 DEF RelayMisbehaves
        <5>2. /\ q \in Seq(Unit) /\ Len(q) \in {1, 2} /\ FrameLen(q[1]) = Len(q)
              /\ q[1].kind # "DATA" /\ (Len(q) = 2 => q[2].kind \notin Tags)
          <6>1. CASE q \in {EncodeAck(0), EncodeAck(LocalTotal + 1)}
            <7>1. 0 \in Nat /\ LocalTotal + 1 \in Nat
              OBVIOUS
            <7>2. PICK c \in Nat : q = EncodeAck(c)
              BY <6>1, <7>1
            <7> QED
              BY <4>1, <7>2
          <6>2. CASE q \in {<<U("SID", 0)>>, <<U("BAD", 0)>>}
            <7>1. PICK k \in {"SID", "BAD"} : q = <<U(k, 0)>>
              BY <6>2
            <7> QED
              BY <4>2, <7>1
          <6> QED
            BY <5>1, <6>1, <6>2
        <5> QED
          BY <5>1, <5>2
      <4> QED
        BY <2>5, <4>3, <4>4
    <3>3. DownFlow'
      BY <1>1, <2>1, <2>3, <3>1, <3>2, RelayFlow
    <3> QED
      BY <2>2, <3>3
  <2> QED
    BY <1>4, <2>4, <2>5
<1>5. CASE RelayCloses
  <2>1. /\ phase \in {"pumping", "closing"} /\ toRelay' = <<>>
        /\ ws' \in {"closed", "dropped"}
        /\ UNCHANGED <<clientWrote, clientEnd, relayGot, relaySent, relayAcked>>
        /\ \/ fromRelay' = fromRelay
           \/ \E k \in 0..Len(fromRelay) : fromRelay' = SubSeq(fromRelay, 1, k)
    BY <1>5 DEF RelayCloses
  <2>2. /\ buf \in Seq(Unit) /\ fromRelay \in Seq(Unit) /\ total_received \in Nat
        /\ Arrived \in Nat /\ Arrived' = Arrived /\ relaySent \in Nat /\ clientRead \in Nat /\ Len(relayGot) \in Nat
    BY <1>0, <1>1 DEF TypeOK, Arrived
  <2>3. UpFlow'
    <3>1. Len(relayGot) \in 0..clientRead
      BY <1>0 DEF UpFlow, Upwards
    <3>2. Upwards(<<>>, Len(relayGot), clientRead, ws' = "open")
      BY <2>1, <2>2, <3>1, UpwardsEmpty
    <3> QED
      BY <1>0, <1>1, <2>1, <3>2 DEF UpFlow
  <2>4. r2l \in Receiving =>
          Downwards(buf \o fromRelay', Arrived, relaySent, FALSE)
    <3>1. CASE fromRelay' = fromRelay
      BY <1>0, <3>1, DownwardsLoosened DEF DownFlow
    <3>2. CASE \E k \in 0..Len(fromRelay) : fromRelay' = SubSeq(fromRelay, 1, k)
      <4>1. PICK k \in 0..Len(fromRelay) : fromRelay' = SubSeq(fromRelay, 1, k)
        BY <3>2
      <4>2. /\ buf \o fromRelay \in Seq(Unit) /\ Len(buf) + k \in 0..Len(buf \o fromRelay)
            /\ SubSeq(buf \o fromRelay, 1, Len(buf) + k) = buf \o SubSeq(fromRelay, 1, k)
        BY <2>2, BufferedCut
      <4> QED
        BY <1>0, <2>2, <4>1, <4>2, DownwardsCut DEF DownFlow
    <3> QED
      BY <2>1, <3>1, <3>2
  <2>5. DownFlow'
    <3>1. ClientGone' = ClientGone
      BY <1>1, <2>1 DEF ClientGone
    <3>2. r2l \in Receiving =>
            Downwards(buf \o fromRelay', Arrived, relaySent, ws' = "open")
      BY <2>1, <2>4, DownwardsLoosened
    <3> QED
      BY <1>0, <1>1, <2>1, <2>2, <3>1, <3>2 DEF DownFlow
  <2>6. AckFlow'
    <3>1. Len(toRelay') = 0
      BY <2>1
    <3> QED
      BY <1>0, <1>1, <2>1, <3>1 DEF AckFlow
  <2> QED
    BY <1>1, <2>1, <2>3, <2>5, <2>6 DEF NothingFlowsYet
<1> QED
  BY <1>2, <1>3, <1>4, <1>5 DEF Environment

\* Every step, stuttering included, keeps the invariant.
LEMMA FlowStep == FlowInv /\ [Next]_vars => FlowInv'
<1> SUFFICES ASSUME FlowInv, [Next]_vars PROVE FlowInv'
  OBVIOUS
<1>1. IInv'
  BY IInvStep DEF FlowInv
<1>2. CASE UNCHANGED vars
  BY <1>1, <1>2 DEF FlowInv, NothingFlowsYet, UpFlow, DownFlow, AckFlow, ClientGone,
     Arrived, vars, connectVars, ackVars, clientVars, relayVars
<1>3. CASE Next
  BY <1>1, <1>3, ConnectFlow, LocalToRemoteFlow, RemoteToLocalFlow, PumpFlow,
     EnvironmentFlow DEF FlowInv, Next
<1> QED
  BY <1>2, <1>3

\* Whenever the receiving task waits for the relay it owes at most the threshold,
\* and it has acknowledged nothing that was not handed to the client, for every
\* frame size, window and relay (_pump_remote_to_local).
THEOREM AckDebtAlwaysBounded == Spec => []AckDebtBounded
<1>1. FlowInv => AckDebtBounded
  BY DEF FlowInv, AckFlow, DownFlow, AckDebtBounded
<1> QED
  BY <1>1, InitFlow, FlowStep, PTL DEF Spec

\* The tunnel is a pipe: whatever the relay, the client and the network do, each
\* end gets, in order and without gaps or repeats, a beginning of what the other
\* wrote, and the client nothing more once its socket was closed (pump).  The
\* data that came in one message with the relay's answer is the exception: it is
\* lost, all of it, and the client's stream begins behind it
\* (_await_connect_ack).  That message is assumed to end with a whole frame.
THEOREM TunnelIsAPipe == Spec => ImplementsPipe
<1>1. Init => Pipe!PipeInit
  BY DEF Init, Pipe!PipeInit
<1>2. FlowInv /\ [Next]_vars => [Pipe!PipeNext]_(Pipe!pipeVars)
  <2> SUFFICES ASSUME FlowInv, [Next]_vars
               PROVE  Pipe!PipeNext \/ UNCHANGED Pipe!pipeVars
    OBVIOUS
  <2>0. /\ TypeOK /\ NothingFlowsYet /\ UpFlow /\ DownFlow
    BY DEF FlowInv, IInv
  <2> USE DEF Pipe!pipeVars
  <2>1. CASE UNCHANGED vars
    BY <2>1 DEF vars, clientVars, relayVars
  <2>2. CASE Connect /\ ~AckAccepted
    <3>1. /\ UNCHANGED <<clientWrote, relayGot, relaySent, discarded, clientGot>>
          /\ localClosed' \in {localClosed, TRUE}
      BY <2>2 DEF Connect, Open, AckRejected, AckLost, AckRefused, BackOff,
         AttemptFailed, ConnectRaises, clientVars, relayVars
    <3> QED
      BY <2>0, <3>1 DEF TypeOK, Pipe!PipeNext, Pipe!Close
  <2>11. CASE AckAccepted
    <3>1. /\ UNCHANGED <<clientWrote, relayGot, clientGot, localClosed>>
          /\ discarded' \in Nat /\ relaySent' = discarded'
      BY <2>11 DEF AckAccepted, DataBehind, clientVars
    <3>2. relaySent = 0 /\ discarded = 0 /\ relayGot = <<>>
      BY <2>0, <2>11 DEF AckAccepted, NothingFlowsYet
    <3>3. CASE discarded' = 0
      BY <3>1, <3>2, <3>3
    <3>4. CASE discarded' # 0
      <4>1. Pipe!LoseDown
        BY <3>1, <3>2, <3>4 DEF Pipe!LoseDown
      <4> QED
        BY <4>1 DEF Pipe!PipeNext
    <3> QED
      BY <3>3, <3>4
  <2>3. CASE LocalToRemote
    BY <2>3 DEF LocalToRemote, ReadLocal, ReadEof, ReadReset, Sent, L2RFrame, relayVars
  <2>4. CASE RemoteToLocal /\ ~DecodeData
    BY <2>4 DEF RemoteToLocal, Receive, ReceiveEnds, DecodeIncomplete, DecodeUnknown,
       Drained, AckSent, DecodeAck, DecodeUnexpected, R2LFrame, clientVars, relayVars
  <2>5. CASE DecodeData
    <3>1. /\ r2l = "decoding" /\ HasFrame(buf) /\ Head(buf).kind = "DATA"
          /\ clientGot' = IF ClientGone THEN clientGot
                          ELSE clientGot \o Positions(buf[2].val, buf[1].val)
          /\ UNCHANGED <<clientWrote, relayGot, relaySent, discarded, localClosed>>
      BY <2>5 DEF DecodeData, R2LFrame, clientVars, relayVars
    <3>2. /\ Head(buf) = buf[1] /\ Head(buf).val \in Nat /\ total_received \in Nat
          /\ discarded \in Nat /\ relaySent \in Nat /\ buf[2].val = Arrived
          /\ Arrived + Head(buf).val \in Arrived + 1..relaySent
      BY <2>0, <3>1, HeadTaken DEF TypeOK
    <3>3. /\ Len(clientGot) = total_received
          /\ clientGot = Pipe!Stream(discarded, Len(clientGot))
      BY <2>0, <3>1 DEF DownFlow, Receiving
    <3>4. CASE ClientGone
      BY <3>1, <3>4
    <3>5. CASE ~ClientGone
      <4>1. Pipe!Stream(discarded, total_received) \o Positions(Arrived, Head(buf).val)
              = Pipe!Stream(discarded, total_received + Head(buf).val)
        BY <3>2, ArrivedGrows
      <4>2. clientGot \o Positions(buf[2].val, buf[1].val)
              = Pipe!Stream(discarded, total_received + Head(buf).val)
        BY <3>2, <3>3, <4>1, Zenon
      <4>3. clientGot' = Pipe!Stream(discarded, total_received + Head(buf).val)
        BY <3>1, <3>5, <4>2, Zenon
      <4>4. total_received + Head(buf).val \in Len(clientGot) + 1..relaySent - discarded
        BY <3>2, <3>3 DEF Arrived
      <4>5. Pipe!DeliverDown
        BY <3>1, <3>5, <4>3, <4>4 DEF Pipe!DeliverDown, ClientGone
      <4> QED
        BY <4>5 DEF Pipe!PipeNext
    <3> QED
      BY <3>4, <3>5
  <2>6. CASE Pump
    <3>1. /\ UNCHANGED <<clientWrote, relayGot, relaySent, discarded, clientGot>>
          /\ localClosed' \in {localClosed, TRUE}
      BY <2>6 DEF Pump, GatherEnds, CloseBoth, PumpFrame, clientVars, relayVars
    <3> QED
      BY <2>0, <3>1 DEF TypeOK, Pipe!PipeNext, Pipe!Close
  <2>7. CASE ClientWrites
    <3>1. PICK n \in 1..LocalTotal : clientWrote' = clientWrote + n
      BY <2>7 DEF ClientWrites
    <3>2. clientWrote' \in Nat /\ clientWrote' > clientWrote
      BY <2>0, <3>1 DEF TypeOK
    <3>3. Pipe!WriteUp
      BY <2>7, <3>2 DEF ClientWrites, TunnelFrame, relayVars, Pipe!WriteUp
    <3> QED
      BY <3>3 DEF Pipe!PipeNext
  <2>8. CASE RelayReceives
    <3> DEFINE f == Head(toRelay)
    <3>1. /\ toRelay # <<>>
          /\ IF f.tag = "DATA" THEN relayGot' = relayGot \o Positions(f.from, f.to - f.from)
                               ELSE relayGot' = relayGot
          /\ UNCHANGED <<clientWrote, relaySent, discarded, clientGot, localClosed>>
      BY <2>8 DEF RelayReceives, TunnelFrame, clientVars
    <3>2. /\ toRelay \in Seq(Frame) /\ Len(relayGot) \in Nat /\ f \in Frame
          /\ f.to \in Nat /\ f.from \in Nat /\ clientRead \in Nat /\ clientWrote \in Nat
      <4>1. /\ toRelay \in Seq(Frame) /\ Len(relayGot) \in Nat
            /\ clientRead \in Nat /\ clientWrote \in Nat
        BY <2>0 DEF TypeOK
      <4>2. f \in Frame
        BY <3>1, <4>1
      <4> QED
        BY <4>1, <4>2 DEF Frame
    <3>3. f.tag = "DATA" => f.from = Len(relayGot) /\ f.to \in f.from + 1..clientRead
      BY <2>0, <3>1, <3>2, UpwardsTail DEF UpFlow
    <3> HIDE DEF f
    <3>4. CASE f.tag = "DATA"
      <4>1. f.to - f.from \in Nat /\ f.from + (f.to - f.from) = f.to
        BY <3>2, <3>3, <3>4
      <4>2. Pipe!Stream(0, f.from) \o Positions(f.from, f.to - f.from) = Pipe!Stream(0, f.to)
        BY <3>2, <4>1, WholeStreamGrows
      <4>3. relayGot = Pipe!Stream(0, f.from)
        BY <2>0, <3>3, <3>4 DEF UpFlow
      <4>4. relayGot' = Pipe!Stream(0, f.to)
        BY <3>1, <3>4, <4>2, <4>3, Zenon
      <4>5. f.to \in Len(relayGot) + 1..clientWrote
        BY <2>0, <3>2, <3>3, <3>4 DEF UpFlow
      <4>6. Pipe!DeliverUp
        BY <3>1, <4>4, <4>5 DEF Pipe!DeliverUp
      <4> QED
        BY <4>6 DEF Pipe!PipeNext
    <3>5. CASE f.tag # "DATA"
      BY <3>1, <3>5
    <3> QED
      BY <3>4, <3>5
  <2>9. CASE RelaySends
    <3>1. PICK n \in RelaySizes : relaySent' = relaySent + n
      BY <2>9 DEF RelaySends
    <3>2. relaySent' \in Nat /\ relaySent' > relaySent
      BY <2>0, <3>1 DEF TypeOK
    <3>3. Pipe!WriteDown
      BY <2>9, <3>2 DEF RelaySends, TunnelFrame, clientVars, Pipe!WriteDown
    <3> QED
      BY <3>3 DEF Pipe!PipeNext
  <2>10. CASE ClientEnds \/ RelayConfirms \/ RelayMisbehaves \/ RelayCloses
    BY <2>10 DEF ClientEnds, RelayConfirms, RelayMisbehaves, RelayCloses, TunnelFrame,
       clientVars, relayVars
  <2> QED
    BY <2>1, <2>2, <2>3, <2>4, <2>5, <2>6, <2>7, <2>8, <2>9, <2>10, <2>11
       DEF Next, Environment
<1> QED
  BY <1>1, <1>2, InitFlow, FlowStep, PTL DEF Spec, ImplementsPipe, Pipe!PipeSpec
===============================================================================

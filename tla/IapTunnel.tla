------------------------------- MODULE IapTunnel -------------------------------
(***************************************************************************)
(* One IapTunnelConnection (core/iap_tunnel.py): the websocket that carries *)
(* one local TCP connection to Google's IAP relay.  pump() connects (with   *)
(* backoff), then runs two tasks of one asyncio loop, _pump_local_to_remote *)
(* and _pump_remote_to_local, under gather, and closes both sides when      *)
(* gather ends.  The code between two awaits is one step of the model.      *)
(*                                                                         *)
(* The local client and the relay are the environment.  Bytes are named by  *)
(* their position in their stream.  A frame is a header unit and, for most  *)
(* tags, a body unit; a websocket message is any run of the units the relay *)
(* has put on the wire, so frames arrive split and run together.  The first *)
(* message is the exception: of the relay's answer the code decodes one     *)
(* frame and throws the rest of the message away, DATA included, and the    *)
(* model assumes that this message at least ends with a whole frame.        *)
(***************************************************************************)
EXTENDS Naturals, Sequences

CONSTANTS
    MaxFrame,      \* MAX_DATA_FRAME_SIZE
    Budget,        \* INITIAL_CONNECT_MAX_TOTAL_WAIT_SEC
    OpenTimeout,   \* CONNECT_OPEN_TIMEOUT_SEC
    InitialSleep,  \* RECONNECT_INITIAL_SLEEP_SEC
    MaxSleep,      \* RECONNECT_MAX_SLEEP_SEC
    LocalTotal,    \* bound: bytes the local client writes
    RemoteTotal,   \* bound: bytes the relay writes
    RelaySizes,    \* bound: payload sizes of the relay's DATA frames
    RelayWindow,   \* external: unacknowledged bytes the relay allows itself;
                   \* a relay must allow the threshold and a frame on top of it
    HighWater,     \* websocket write buffer: a send returns once at most this
                   \* many frames wait for the relay
    Misbehaves     \* the relay may answer and send outside the protocol

ASSUME SizesAssumption ==
    /\ MaxFrame \in Nat \ {0} /\ RelaySizes \subseteq Nat \ {0}
    /\ LocalTotal \in Nat /\ RemoteTotal \in Nat
    /\ RelayWindow \in Nat /\ HighWater \in Nat
    /\ Misbehaves \in BOOLEAN

ASSUME TimesAssumption ==
    /\ Budget \in Nat /\ OpenTimeout \in Nat
    /\ InitialSleep \in Nat /\ MaxSleep \in Nat /\ InitialSleep <= MaxSleep

\* ACK_THRESHOLD_BYTES
AckThreshold == 2 * MaxFrame

VARIABLES
    \* pump() and _connect()
    phase,          \* where pump() stands
    first_attempt, waited, sleep_sec,
    request,        \* the endpoint of the last attempt
    error,          \* what _handle_client stores in last_error
    \* IapTunnelConnection's fields
    sid,            \* a session id has been received
    discarded,      \* history: bytes thrown away with the answer's message
    total_received, total_acked, total_confirmed,
    unconfirmed,    \* chunks [from, to) kept for a resend
    \* the two tasks
    l2r, r2l, buf,
    \* the websocket: its state, and what is in flight each way
    ws, toRelay, fromRelay,
    \* the local client
    clientWrote, clientRead, clientEnd, clientGot, localClosed,
    \* the relay
    relayGot, relayConf, relaySent, relayAcked, junk

connectVars == <<phase, first_attempt, waited, sleep_sec, request, error>>
sessionVars == <<sid, discarded>>
sendVars == <<unconfirmed, total_confirmed>>
ackVars == <<total_received, total_acked>>
clientVars == <<clientWrote, clientRead, clientEnd>>
relayVars == <<relayGot, relayConf, relaySent, relayAcked, junk>>
vars == <<connectVars, sessionVars, sendVars, ackVars, l2r, r2l, buf, ws, toRelay,
          fromRelay, clientVars, clientGot, localClosed, relayVars>>

Phases == {"opening", "awaiting", "backoff", "pumping", "closing", "done"}
Ended == {"returned", "raised"}
Tags == {"DATA", "ACK", "RACK", "SID"}
Unit == [kind : Tags \cup {"BYTES", "COUNT", "BAD"}, val : Nat]

U(k, v) == [kind |-> k, val |-> v]
Positions(from, n) == [i \in 1..n |-> from + i]

-------------------------------------------------------------------------------
(* The frame codec. *)

EncodeData(from, n) == <<U("DATA", n), U("BYTES", from)>>
EncodeAck(count) == <<U("ACK", 0), U("COUNT", count)>>

\* Units of the frame that header h starts.
FrameLen(h) == IF h.kind \in {"DATA", "ACK", "RACK"} THEN 2 ELSE 1

HasFrame(b) == /\ b # <<>> /\ Head(b).kind \in Tags
               /\ Len(b) >= FrameLen(Head(b))

\* Mutant of Remaining: the decoded frame stays in the buffer.
KeptFrame(b) == b

Remaining(b) == SubSeq(b, FrameLen(Head(b)) + 1, Len(b))

-------------------------------------------------------------------------------
Init ==
    /\ phase = "opening" /\ first_attempt = TRUE
    /\ waited = 0 /\ sleep_sec = InitialSleep
    /\ request = "none" /\ error = "none"
    /\ sid = FALSE /\ discarded = 0
    /\ total_received = 0 /\ total_acked = 0 /\ total_confirmed = 0
    /\ unconfirmed = <<>>
    /\ l2r = "idle" /\ r2l = "idle" /\ buf = <<>>
    /\ ws = "none" /\ toRelay = <<>> /\ fromRelay = <<>>
    /\ clientWrote = 0 /\ clientRead = 0 /\ clientEnd = "open"
    /\ clientGot = <<>> /\ localClosed = FALSE
    /\ relayGot = <<>> /\ relayConf = 0
    /\ relaySent = 0 /\ relayAcked = 0 /\ junk = FALSE

-------------------------------------------------------------------------------
(* _confirm_bytes(n): drop the confirmed chunks, cut the one n falls in.   *)
(* Raises (after having dropped everything) when n is beyond what was sent. *)

OutOfOrder(n) == n < total_confirmed

SentTo == IF unconfirmed = <<>> THEN total_confirmed
          ELSE unconfirmed[Len(unconfirmed)].to

ConfirmFails(n) == OutOfOrder(n) \/ n > SentTo

\* k chunks are confirmed whole.
Fully(k, n) == /\ \A i \in 1..k : unconfirmed[i].to <= n
               /\ k < Len(unconfirmed) => unconfirmed[k + 1].to > n

Trim(chunks, n) ==
    [i \in 1..Len(chunks) |->
        [from |-> IF i = 1 /\ chunks[i].from < n THEN n ELSE chunks[i].from,
         to |-> chunks[i].to]]

\* Mutant of ConfirmBytes: the partly confirmed chunk is kept whole.
ConfirmWithoutTrim(n) ==
    IF OutOfOrder(n) THEN UNCHANGED sendVars
    ELSE \E k \in 0..Len(unconfirmed) :
           /\ Fully(k, n)
           /\ unconfirmed' = SubSeq(unconfirmed, k + 1, Len(unconfirmed))
           /\ total_confirmed' = IF n > SentTo THEN SentTo ELSE n

ConfirmBytes(n) ==
    IF OutOfOrder(n) THEN UNCHANGED sendVars
    ELSE \E k \in 0..Len(unconfirmed) :
           /\ Fully(k, n)
           /\ unconfirmed' =
                Trim(SubSeq(unconfirmed, k + 1, Len(unconfirmed)), n)
           /\ total_confirmed' = IF n > SentTo THEN SentTo ELSE n

-------------------------------------------------------------------------------
(* _connect: one attempt after another until the relay accepts one, refuses *)
(* for good, or the budget is spent.  `initial` is always true: pump() calls *)
(* _connect once, before any session id is known.                          *)

\* _connect raises: pump() closes the client's socket and re-raises.
ConnectRaises(why) ==
    /\ phase' = "done" /\ error' = why /\ localClosed' = TRUE
    /\ UNCHANGED <<first_attempt, sleep_sec>>

\* Mutant of AttemptFailed: the deadline is never tested.
RetryForever(t, why) ==
    /\ waited' = t
    /\ phase' = "backoff" /\ error' = why /\ first_attempt' = FALSE
    /\ UNCHANGED <<sleep_sec, localClosed>>

\* An attempt has failed at time t: give up at the deadline, else back off.
AttemptFailed(t, why) ==
    /\ waited' = t
    /\ IF t >= Budget THEN ConnectRaises(why)
       ELSE /\ phase' = "backoff" /\ error' = why /\ first_attempt' = FALSE
            /\ UNCHANGED <<sleep_sec, localClosed>>

\* websockets.connect: the handshake succeeds or fails within its timeout.
Open ==
    /\ phase = "opening"
    /\ request' = IF sid THEN "reconnect" ELSE "connect"
    /\ \E t \in waited..waited + OpenTimeout :
         \/ /\ waited' = t /\ phase' = "awaiting" /\ ws' = "open"
            /\ UNCHANGED <<first_attempt, sleep_sec, error, localClosed>>
         \/ AttemptFailed(t, "network") /\ UNCHANGED ws
    /\ UNCHANGED <<sessionVars, sendVars, ackVars, l2r, r2l, buf, toRelay,
                   fromRelay, clientVars, clientGot, relayVars>>

\* The first frame of the message the relay answers an attempt with.
Answers ==
    LET proper == IF request = "reconnect"
                  THEN {<<U("RACK", 0), U("COUNT", Len(relayGot))>>}
                  ELSE {<<U("SID", 0)>>}
    IN IF Misbehaves
       THEN proper \cup {<<U("RACK", 0)>>, <<U("BAD", 0)>>}
                   \cup {<<U("RACK", 0), U("COUNT", c)>> : c \in 0..1}
       ELSE proper

\* The bytes of DATA that follow that frame in the same message: none, or a
\* frame of them (bound; how several frames divide them makes no difference).
\* There is nothing yet that the relay could confirm, so no other tag matters.
DataBehind == {0} \cup {n \in RelaySizes : n <= RemoteTotal /\ n <= RelayWindow}

Expected == IF first_attempt THEN "SID" ELSE "RACK"

\* Why _await_connect_ack raises on a message that begins with m ("none": it
\* does not).  Only this frame is read.
AckError(m) ==
    IF ~HasFrame(m)
    THEN IF Head(m).kind \in Tags THEN "incomplete" ELSE "protocol"
    ELSE IF Head(m).kind # Expected THEN "protocol"
    ELSE IF Expected = "RACK" /\ ConfirmFails(m[2].val) THEN "protocol"
    ELSE "none"

\* The websocket of a rejected attempt is dropped without being closed, and its
\* session with it, whatever followed in the message.
AckRejected ==
    /\ phase = "awaiting"
    /\ \E t \in waited..waited + OpenTimeout, m \in Answers :
         /\ AckError(m) # "none"
         /\ AttemptFailed(t, AckError(m))
         /\ IF HasFrame(m) /\ Head(m).kind = "RACK" /\ Expected = "RACK"
            THEN ConfirmBytes(m[2].val) ELSE UNCHANGED sendVars
    /\ ws' = "none"
    /\ UNCHANGED <<request, sessionVars, ackVars, l2r, r2l, buf, toRelay,
                   fromRelay, clientVars, clientGot, relayVars>>

\* No answer in time, or the network failed.
AckLost ==
    /\ phase = "awaiting"
    /\ \E t \in waited..waited + OpenTimeout : AttemptFailed(t, "network")
    /\ ws' = "none"
    /\ UNCHANGED <<request, sessionVars, sendVars, ackVars, l2r, r2l, buf,
                   toRelay, fromRelay, clientVars, clientGot, relayVars>>

\* The relay closes the websocket with a 4xxx code instead of answering.
AckRefused ==
    /\ phase = "awaiting"
    /\ \E t \in waited..waited + OpenTimeout : waited' = t
    /\ ConnectRaises("refused")
    /\ ws' = "none"
    /\ UNCHANGED <<request, sessionVars, sendVars, ackVars, l2r, r2l, buf,
                   toRelay, fromRelay, clientVars, clientGot, relayVars>>

DataFrames(chunks) ==
    [i \in 1..Len(chunks) |->
        [tag |-> "DATA", from |-> chunks[i].from, to |-> chunks[i].to]]

\* The relay's answer is accepted and pump() starts its two tasks.  After a
\* reconnect ack the chunks still unconfirmed are sent again, and forgotten.
\* _connect's local variables (the attempt, the clock, the sleep) are gone.  So
\* is the data that followed the answer in its message: the relay has sent it,
\* and no task will ever see it.
AckAccepted ==
    /\ phase = "awaiting"
    /\ \E m \in Answers :
         /\ AckError(m) = "none"
         /\ IF Expected = "SID"
            THEN sid' = TRUE /\ UNCHANGED <<sendVars, toRelay>>
            ELSE \E k \in 0..Len(unconfirmed) :
                   /\ Fully(k, m[2].val)
                   /\ total_confirmed' = m[2].val
                   /\ toRelay' = toRelay \o DataFrames(Trim(
                        SubSeq(unconfirmed, k + 1, Len(unconfirmed)), m[2].val))
                   /\ unconfirmed' = <<>>
                   /\ UNCHANGED sid
    /\ discarded' \in DataBehind /\ relaySent' = discarded'
    /\ phase' = "pumping" /\ error' = "none"
    /\ first_attempt' = TRUE /\ waited' = 0 /\ sleep_sec' = InitialSleep
    /\ l2r' = "reading" /\ r2l' = "receiving"
    /\ UNCHANGED <<request, localClosed, ws, ackVars, buf, fromRelay, clientVars,
                   clientGot, relayGot, relayConf, relayAcked, junk>>

\* asyncio.sleep(sleep_sec); the next sleep is longer, up to MaxSleep.
BackOff ==
    /\ phase = "backoff" /\ phase' = "opening"
    /\ waited' = waited + sleep_sec
    /\ sleep_sec' \in sleep_sec..MaxSleep
    /\ UNCHANGED <<first_attempt, request, error, localClosed, sessionVars,
                   sendVars, ackVars, l2r, r2l, buf, ws, toRelay, fromRelay, clientVars,
                   clientGot, relayVars>>

Connect == Open \/ AckRejected \/ AckLost \/ AckRefused \/ AckAccepted \/ BackOff

-------------------------------------------------------------------------------
(* _pump_local_to_remote. *)

L2RFrame == UNCHANGED <<connectVars, sessionVars, total_confirmed, ackVars, r2l, buf,
                        ws, fromRelay, clientWrote, clientEnd, clientGot,
                        localClosed, relayVars>>

\* read() returns what is there, up to MaxFrame bytes; the chunk is kept for a
\* resend and sent in the same step (send raises on a closed websocket).
ReadLocal ==
    /\ l2r = "reading" /\ clientEnd # "reset"
    /\ \E n \in 1..MaxFrame :
         /\ clientRead + n <= clientWrote
         /\ clientRead' = clientRead + n
         /\ LET chunk == [from |-> clientRead, to |-> clientRead + n] IN
            /\ unconfirmed' = Append(unconfirmed, chunk)
            /\ IF ws = "open"
               THEN /\ toRelay' = toRelay \o DataFrames(<<chunk>>)
                    /\ l2r' = "sending"
               ELSE l2r' = "raised" /\ UNCHANGED toRelay
    /\ L2RFrame

\* End of file: the client closed its side, or the tunnel closed the socket.
ReadEof ==
    /\ l2r = "reading" /\ clientRead = clientWrote
    /\ clientEnd = "eof" \/ localClosed
    /\ l2r' = "returned"
    /\ UNCHANGED <<unconfirmed, toRelay, clientRead>> /\ L2RFrame

ReadReset ==
    /\ l2r = "reading" /\ clientEnd = "reset"
    /\ l2r' = "raised"
    /\ UNCHANGED <<unconfirmed, toRelay, clientRead>> /\ L2RFrame

\* send() returns once the write buffer has drained, or raises.
Sent ==
    /\ l2r = "sending"
    /\ \/ Len(toRelay) <= HighWater /\ l2r' = "reading"
       \/ ws # "open" /\ l2r' = "raised"
    /\ UNCHANGED <<unconfirmed, toRelay, clientRead>> /\ L2RFrame

LocalToRemote == ReadLocal \/ ReadEof \/ ReadReset \/ Sent

-------------------------------------------------------------------------------
(* _pump_remote_to_local. *)

R2LFrame == UNCHANGED <<connectVars, sessionVars, l2r, ws, clientVars, localClosed,
                        relayVars>>

\* The next message of `async for message in ws` is added to buf.
Receive ==
    /\ r2l = "receiving"
    /\ \E k \in 1..Len(fromRelay) :
         /\ buf' = buf \o SubSeq(fromRelay, 1, k)
         /\ fromRelay' = SubSeq(fromRelay, k + 1, Len(fromRelay))
    /\ r2l' = "decoding"
    /\ UNCHANGED <<sendVars, ackVars, toRelay, clientGot>> /\ R2LFrame

\* `async for` ends on a normal close and raises on any other.
ReceiveEnds ==
    /\ r2l = "receiving" /\ fromRelay = <<>> /\ ws # "open"
    /\ r2l' = IF ws = "dropped" THEN "raised" ELSE "returned"
    /\ UNCHANGED <<buf, fromRelay, sendVars, ackVars, toRelay, clientGot>>
    /\ R2LFrame

NeedsMore == ~HasFrame(buf) /\ (buf # <<>> => Head(buf).kind \in Tags)

\* IncompleteFrame: wait for the next message.
DecodeIncomplete ==
    /\ r2l = "decoding" /\ NeedsMore
    /\ r2l' = "receiving"
    /\ UNCHANGED <<buf, fromRelay, sendVars, ackVars, toRelay, clientGot>>
    /\ R2LFrame

\* ProtocolError: an unknown tag.
DecodeUnknown ==
    /\ r2l = "decoding" /\ ~HasFrame(buf) /\ ~NeedsMore
    /\ r2l' = "raised"
    /\ UNCHANGED <<buf, fromRelay, sendVars, ackVars, toRelay, clientGot>>
    /\ R2LFrame

\* The client's socket no longer takes data.
ClientGone == localClosed \/ clientEnd = "reset"

\* DATA: write() (which a closed socket ignores), then await drain().
DecodeData ==
    /\ r2l = "decoding" /\ HasFrame(buf) /\ Head(buf).kind = "DATA"
    /\ clientGot' = IF ClientGone THEN clientGot
                    ELSE clientGot \o Positions(buf[2].val, buf[1].val)
    /\ r2l' = "draining"
    /\ UNCHANGED <<buf, fromRelay, sendVars, ackVars, toRelay>> /\ R2LFrame

\* Mutant of AckDue: twice the threshold.
AckDueLate(n) == total_received + n - total_acked > 2 * AckThreshold

\* What is not yet acknowledged, with n more bytes, is worth an ACK frame.
AckDue(n) == total_received + n - total_acked > AckThreshold

\* drain() returns: the frame counts as received, and a large enough debt is
\* acknowledged.  It raises when the connection to the client is lost.
Drained ==
    /\ r2l = "draining"
    /\ LET n == Head(buf).val IN
       IF ClientGone
       THEN r2l' = "raised" /\ UNCHANGED <<buf, total_received, toRelay>>
       ELSE /\ total_received' = total_received + n
            /\ buf' = Remaining(buf)
            /\ IF ~AckDue(n) THEN r2l' = "decoding" /\ UNCHANGED toRelay
               ELSE IF ws = "open"
               THEN /\ r2l' = "acking"
                    /\ toRelay' = Append(toRelay,
                         [tag |-> "ACK", from |-> 0, to |-> total_received + n])
               ELSE r2l' = "raised" /\ UNCHANGED toRelay
    /\ UNCHANGED <<fromRelay, sendVars, total_acked, clientGot>> /\ R2LFrame

AckSent ==
    /\ r2l = "acking"
    /\ \/ /\ Len(toRelay) <= HighWater /\ r2l' = "decoding"
          /\ total_acked' = total_received
       \/ ws # "open" /\ r2l' = "raised" /\ UNCHANGED total_acked
    /\ UNCHANGED <<buf, fromRelay, sendVars, total_received, toRelay, clientGot>>
    /\ R2LFrame

DecodeAck ==
    /\ r2l = "decoding" /\ HasFrame(buf) /\ Head(buf).kind = "ACK"
    /\ LET n == buf[2].val IN
       /\ ConfirmBytes(n)
       /\ r2l' = IF ConfirmFails(n) THEN "raised" ELSE "decoding"
    /\ buf' = Remaining(buf)
    /\ UNCHANGED <<fromRelay, ackVars, toRelay, clientGot>> /\ R2LFrame

\* A frame that belongs to the handshake is logged and skipped.
DecodeUnexpected ==
    /\ r2l = "decoding" /\ HasFrame(buf) /\ Head(buf).kind \in {"SID", "RACK"}
    /\ buf' = Remaining(buf)
    /\ UNCHANGED <<r2l, fromRelay, sendVars, ackVars, toRelay, clientGot>>
    /\ R2LFrame

RemoteToLocal ==
    \/ Receive \/ ReceiveEnds \/ DecodeIncomplete \/ DecodeUnknown
    \/ DecodeData \/ Drained \/ AckSent \/ DecodeAck \/ DecodeUnexpected

-------------------------------------------------------------------------------
(* The rest of pump(): gather, and its finally. *)

PumpFrame == UNCHANGED <<first_attempt, waited, sleep_sec, request, sessionVars,
                         sendVars, ackVars, l2r, r2l, buf, toRelay, fromRelay, clientVars,
                         clientGot, relayVars>>

\* gather ends when both tasks have returned, or as soon as one has raised (the
\* other runs on).
GatherEnds ==
    /\ phase = "pumping"
    /\ \/ "raised" \in {l2r, r2l} /\ error' = "pump"
       \/ l2r = "returned" /\ r2l = "returned" /\ UNCHANGED error
    /\ phase' = "closing"
    /\ UNCHANGED <<ws, localClosed>> /\ PumpFrame

\* Mutant of CloseBoth: the client's socket is left open.
CloseWebsocketOnly ==
    /\ phase = "closing" /\ phase' = "done"
    /\ ws' = IF ws = "open" THEN "closed" ELSE ws
    /\ UNCHANGED <<localClosed, error>> /\ PumpFrame

\* Mutant of CloseBoth: closing ends in a state no caller knows.
CloseUnknown ==
    /\ phase = "closing" /\ phase' = "closed"
    /\ ws' = IF ws = "open" THEN "closed" ELSE ws
    /\ localClosed' = TRUE
    /\ UNCHANGED error /\ PumpFrame

\* await ws.close() returns, after a close handshake or its timeout.
CloseBoth ==
    /\ phase = "closing" /\ phase' = "done"
    /\ ws' = IF ws = "open" THEN "closed" ELSE ws
    /\ localClosed' = TRUE
    /\ UNCHANGED error /\ PumpFrame

Pump == GatherEnds \/ CloseBoth

-------------------------------------------------------------------------------
(* The environment: the local client and the relay. *)

TunnelFrame == UNCHANGED <<connectVars, sessionVars, sendVars, ackVars, l2r, r2l, buf,
                           clientGot, localClosed>>

ClientWrites ==
    /\ clientEnd = "open" /\ ~localClosed
    /\ \E n \in 1..LocalTotal : /\ clientWrote + n <= LocalTotal
                                /\ clientWrote' = clientWrote + n
    /\ UNCHANGED <<ws, toRelay, fromRelay, clientRead, clientEnd, relayVars>>
    /\ TunnelFrame

\* The client closes its side, or its socket is reset.
ClientEnds ==
    /\ clientEnd = "open" /\ clientEnd' \in {"eof", "reset"}
    /\ UNCHANGED <<ws, toRelay, fromRelay, clientWrote, clientRead, relayVars>>
    /\ TunnelFrame

RelayReceives ==
    /\ toRelay # <<>> /\ toRelay' = Tail(toRelay)
    /\ LET f == Head(toRelay) IN
       IF f.tag = "DATA"
       THEN /\ relayGot' = relayGot \o Positions(f.from, f.to - f.from)
            /\ UNCHANGED relayAcked
       ELSE relayAcked' = f.to /\ UNCHANGED relayGot
    /\ UNCHANGED <<ws, fromRelay, clientVars, relayConf, relaySent, junk>>
    /\ TunnelFrame

\* DATA, as far as the relay's window lets it.
RelaySends ==
    /\ phase = "pumping" /\ ws = "open"
    /\ \E n \in RelaySizes :
         /\ relaySent + n <= RemoteTotal
         /\ relaySent + n <= relayAcked + RelayWindow
         /\ fromRelay' = fromRelay \o EncodeData(relaySent, n)
         /\ relaySent' = relaySent + n
    /\ UNCHANGED <<ws, toRelay, clientVars, relayGot, relayConf, relayAcked, junk>>
    /\ TunnelFrame

RelayConfirms ==
    /\ phase = "pumping" /\ ws = "open"
    /\ \E c \in relayConf + 1..Len(relayGot) :
         fromRelay' = fromRelay \o EncodeAck(c) /\ relayConf' = c
    /\ UNCHANGED <<ws, toRelay, clientVars, relayGot, relaySent, relayAcked, junk>>
    /\ TunnelFrame

\* Once, if it misbehaves: a frame the protocol does not allow here.
RelayMisbehaves ==
    /\ Misbehaves /\ ~junk /\ phase = "pumping" /\ ws = "open" /\ junk' = TRUE
    /\ \E m \in {<<U("SID", 0)>>, <<U("BAD", 0)>>,
                 EncodeAck(0), EncodeAck(LocalTotal + 1)} :
         fromRelay' = fromRelay \o m
    /\ UNCHANGED <<ws, toRelay, clientVars, relayGot, relayConf, relaySent, relayAcked>>
    /\ TunnelFrame

\* The relay closes the websocket, or the network drops it; what is in flight
\* towards the relay is lost, and on a drop so is part of what it sent.
RelayCloses ==
    /\ phase \in {"pumping", "closing"} /\ ws = "open"
    /\ toRelay' = <<>>
    /\ \/ ws' = "closed" /\ UNCHANGED fromRelay
       \/ /\ ws' = "dropped"
          /\ \E k \in 0..Len(fromRelay) : fromRelay' = SubSeq(fromRelay, 1, k)
    /\ UNCHANGED <<clientVars, relayVars>> /\ TunnelFrame

Environment == \/ ClientWrites \/ ClientEnds \/ RelayReceives \/ RelaySends
               \/ RelayConfirms \/ RelayMisbehaves \/ RelayCloses

Next == Connect \/ LocalToRemote \/ RemoteToLocal \/ Pump \/ Environment

Spec == Init /\ [][Next]_vars

(* The event loop runs every task that can run and every timer fires; the   *)
(* client takes the data written to it, and the relay reads its websocket   *)
(* and sends what it has to send.  Nobody has to write, close or drop.      *)
Fairness == /\ WF_vars(Connect) /\ WF_vars(LocalToRemote)
            /\ WF_vars(RemoteToLocal) /\ WF_vars(Pump)
            /\ WF_vars(RelayReceives) /\ WF_vars(RelaySends)

FairSpec == Spec /\ Fairness

-------------------------------------------------------------------------------
(* Correctness. *)

Chunk == [from : Nat, to : Nat]
Frame == [tag : {"DATA", "ACK"}, from : Nat, to : Nat]

\* Every variable has its type.
TypeOK ==
    /\ phase \in Phases /\ first_attempt \in BOOLEAN
    /\ waited \in Nat /\ sleep_sec \in Nat
    /\ request \in {"none", "connect", "reconnect"}
    /\ error \in {"none", "network", "incomplete", "protocol", "refused", "pump"}
    /\ sid \in BOOLEAN /\ discarded \in Nat
    /\ total_received \in Nat /\ total_acked \in Nat /\ total_confirmed \in Nat
    /\ unconfirmed \in Seq(Chunk)
    /\ l2r \in {"idle", "reading", "sending"} \cup Ended
    /\ r2l \in {"idle", "receiving", "decoding", "draining", "acking"} \cup Ended
    /\ buf \in Seq(Unit) /\ fromRelay \in Seq(Unit) /\ toRelay \in Seq(Frame)
    /\ ws \in {"none", "open", "closed", "dropped"}
    /\ clientWrote \in Nat /\ clientRead \in Nat
    /\ clientEnd \in {"open", "eof", "reset"} /\ clientGot \in Seq(Nat)
    /\ localClosed \in BOOLEAN
    /\ relayGot \in Seq(Nat) /\ relayConf \in Nat
    /\ relaySent \in Nat /\ relayAcked \in Nat /\ junk \in BOOLEAN

\* The chunks kept for a resend (_unconfirmed) are, in order and without a gap,
\* exactly the bytes read from the client and not yet confirmed, however the
\* relay's acknowledgements cut the chunks and whatever it claims to have got.
ResendBufferExact ==
    /\ SentTo = clientRead /\ total_confirmed <= clientRead
    /\ \A i \in 1..Len(unconfirmed) :
         /\ unconfirmed[i].from < unconfirmed[i].to
         /\ unconfirmed[i].to <= clientRead
         /\ unconfirmed[i].from =
              IF i = 1 THEN total_confirmed ELSE unconfirmed[i - 1].to

\* Whenever the receiving task waits for the relay, it owes the relay at most
\* ACK_THRESHOLD_BYTES of acknowledgement, and it has never acknowledged a byte
\* before it was handed to the client.
AckDebtBounded ==
    /\ r2l = "receiving" => total_received <= total_acked + AckThreshold
    /\ relayAcked <= total_received /\ total_acked <= total_received
    /\ total_received <= Len(clientGot)

\* Connecting ends within the budget plus what one more attempt can take: the
\* deadline is only looked at between attempts (_connect).
ConnectBounded == waited <= Budget + MaxSleep + 2 * OpenTimeout

\* The two ends see a pipe: the relay gets a prefix of what the client wrote,
\* and the client one of what the relay wrote behind its answer's message.  The
\* data of that message is lost (_await_connect_ack), all of it and nothing else.
Pipe == INSTANCE DuplexPipe WITH
    upWritten <- clientWrote, upGot <- relayGot,
    downWritten <- relaySent, downLost <- discarded, downGot <- clientGot,
    closed <- localClosed

ImplementsPipe == Pipe!PipeSpec

\* Connecting ends, one way or the other (the spinner does not turn for ever),
\* and pump() cleans up: a dropped websocket, or both ends closing theirs, leads
\* to the client's socket being closed, and then neither task is left running.
ConnectEnds == <>(phase \in {"pumping", "done"})

EndsCleanly ==
    /\ ConnectEnds
    /\ ws = "dropped" ~> localClosed
    /\ (ws = "closed" /\ clientEnd # "open") ~> localClosed
    /\ localClosed ~> (l2r \in Ended \cup {"idle"} /\ r2l \in Ended \cup {"idle"})

\* The delayed acknowledgements never stall the relay's window: on a websocket
\* and a client that stay, all the relay has to send arrives.  Bytes thrown away
\* with the answer are excepted: they are never acknowledged, so they stay in the
\* relay's window for good and may stall it.
WindowNeverStalls ==
    <>[](phase = "pumping" /\ ws = "open" /\ discarded = 0)
        => <>(Len(clientGot) = RemoteTotal)

\* ProtocolError's own docstring: "The server sent something that violates the
\* expected protocol."  With a relay that answers every request properly no
\* attempt should fail with one.
ProtocolErrorMeansViolation == error # "protocol"

\* The class docstring: "transparently reconnecting (with backoff) on websocket
\* drops using the session-id/ack-offset resume protocol".  A drop should not
\* close the client's socket before a reconnect has been tried.
DropIsResumed ==
    ws = "dropped" /\ clientEnd = "open" /\ localClosed => request = "reconnect"
===============================================================================

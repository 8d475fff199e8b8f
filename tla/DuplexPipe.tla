------------------------------ MODULE DuplexPipe ------------------------------
(***************************************************************************)
(* What a forwarded TCP connection promises to its two ends: each end      *)
(* receives, in order and without gaps or repeats, a prefix of the bytes   *)
(* the other end wrote; and once the tunnel has closed the local socket    *)
(* the client is handed nothing more.  There is one exception.  What the   *)
(* relay writes before the two ends are joined may be lost, and then the   *)
(* client's stream begins behind it.                                       *)
(*                                                                         *)
(* A byte is named by its position in its own stream, so a received stream *)
(* is right exactly when it is <<lost + 1, lost + 2, ..., lost + n>> with  *)
(* lost + n bytes written.                                                 *)
(***************************************************************************)
EXTENDS Naturals, Sequences

VARIABLES
    upWritten,    \* number of bytes the local client wrote
    upGot,        \* the bytes the relay received
    downWritten,  \* number of bytes the relay wrote
    downLost,     \* how many of them were lost, at the beginning
    downGot,      \* the bytes handed to the local client
    closed        \* the tunnel has closed the local client's socket

pipeVars == <<upWritten, upGot, downWritten, downLost, downGot, closed>>

\* The n bytes of a stream that follow its first `lost`.
Stream(lost, n) == [i \in 1..n |-> lost + i]

PipeInit ==
    /\ upWritten = 0 /\ downWritten = 0 /\ downLost = 0
    /\ upGot = <<>> /\ downGot = <<>>
    /\ closed = FALSE

WriteUp ==
    /\ upWritten' \in Nat /\ upWritten' > upWritten
    /\ UNCHANGED <<upGot, downWritten, downLost, downGot, closed>>

WriteDown ==
    /\ downWritten' \in Nat /\ downWritten' > downWritten
    /\ UNCHANGED <<upWritten, upGot, downLost, downGot, closed>>

\* The relay's first bytes are lost: only before anything flows either way.
LoseDown ==
    /\ downWritten = 0 /\ upGot = <<>>
    /\ downLost' \in Nat /\ downLost' > 0 /\ downWritten' = downLost'
    /\ UNCHANGED <<upWritten, upGot, downGot, closed>>

DeliverUp ==
    /\ \E n \in Len(upGot) + 1 .. upWritten : upGot' = Stream(0, n)
    /\ UNCHANGED <<upWritten, downWritten, downLost, downGot, closed>>

DeliverDown ==
    /\ ~closed
    /\ \E n \in Len(downGot) + 1 .. downWritten - downLost :
         downGot' = Stream(downLost, n)
    /\ UNCHANGED <<upWritten, upGot, downWritten, downLost, closed>>

Close ==
    /\ ~closed /\ closed' = TRUE
    /\ UNCHANGED <<upWritten, upGot, downWritten, downLost, downGot>>

PipeNext == WriteUp \/ WriteDown \/ LoseDown \/ DeliverUp \/ DeliverDown \/ Close

PipeSpec == PipeInit /\ [][PipeNext]_pipeVars
===============================================================================

----------------------- MODULE RdpSessionWorkerProofs -----------------------
(***************************************************************************)
(* Proofs about RdpSessionWorker, for any number of inputs and paints: the *)
(* type invariant, the order and completeness of the input, the wake-ups   *)
(* of the session thread, and the hand-over of frames to the GUI.          *)
(***************************************************************************)
EXTENDS RdpSessionWorker, FiniteSetTheorems, TLAPS

(* A frame that is on its way has been painted.                            *)
FramesArePainted == \A i \in 1..Len(signals) : signals[i].frame \in 0..painted

(* What has been sent was taken, and all of it before the move that waits, *)
(* which is the last thing taken.                                          *)
MoveIsLast ==
  /\ \A i \in 1..Len(sent) :
       sent[i] <= taken /\ (pending_move # 0 => sent[i] < pending_move)
  /\ pending_move # 0 => pending_move = taken /\ typed[taken] = "move"

(* From the end of the drain to the end of the wait, input that arrives    *)
(* has set the event or is about to.                                       *)
InputWakes ==
  pc \in {"pump", "deliver", "copy", "wait"} /\ ~wake /\ taken < Len(typed)
    => gui = "waking"

(* frame_in_flight is a token: one place at most has a frame, and while    *)
(* one has it the flag is up.                                              *)
IsFrame(i) == signals[i].what = "frame"
OnePlace ==
  /\ \A i \in 1..Len(signals) :
       IsFrame(i) => /\ frame_in_flight /\ ~unpainted /\ pc # "copy"
                     /\ \A j \in 1..Len(signals) : IsFrame(j) => i = j
  /\ unpainted => frame_in_flight /\ pc # "copy"
  /\ pc = "copy" => frame_in_flight

IInv ==
  /\ TypeOK /\ FramesArePainted
  /\ InputsInOrder /\ MoveIsLast
  /\ InputWakes /\ NoLostWakeup
  /\ NewestFrameKept /\ OnePlace

-----------------------------------------------------------------------------
(* Sequences.                                                              *)

SignalSet == [what : {"connected", "error", "disconnected", "frame"}, frame : Nat]
Inputs == {"move", "key", "clipboard"}

LEMMA Appended ==
  ASSUME NEW S, NEW s \in Seq(S), NEW e \in S
  PROVE  /\ Append(s, e) \in Seq(S) /\ Len(s) \in Nat
         /\ Len(Append(s, e)) = Len(s) + 1
         /\ \A i \in 1..Len(s) : Append(s, e)[i] = s[i]
         /\ Append(s, e)[Len(s) + 1] = e
  OBVIOUS

LEMMA WiderSeq ==
  ASSUME NEW m \in Nat, NEW n \in Nat, m <= n, NEW s \in Seq(1..m)
  PROVE  s \in Seq(1..n)
  OBVIOUS

LEMMA Emitted ==
  ASSUME signals \in Seq(SignalSet), NEW what \in {"connected", "error", "disconnected", "frame"},
         NEW f \in Nat
  PROVE  /\ Append(signals, Signal(what, f)) \in Seq(SignalSet)
         /\ Len(Append(signals, Signal(what, f))) = Len(signals) + 1
         /\ \A i \in 1..Len(signals) : Append(signals, Signal(what, f))[i] = signals[i]
         /\ Append(signals, Signal(what, f))[Len(signals) + 1] = Signal(what, f)
         /\ Signal(what, f).what = what /\ Signal(what, f).frame = f
         /\ Len(signals) \in Nat
  BY DEF SignalSet, Signal

LEMMA Delivered ==
  ASSUME signals \in Seq(SignalSet), signals # <<>>
  PROVE  /\ Tail(signals) \in Seq(SignalSet)
         /\ Len(Tail(signals)) = Len(signals) - 1
         /\ \A i \in 1..Len(Tail(signals)) : Tail(signals)[i] = signals[i + 1]
         /\ Head(signals) = signals[1] /\ Head(signals) \in SignalSet
         /\ Len(signals) \in Nat \ {0}
  OBVIOUS

(* An event that is appended after smaller ones keeps the order.           *)
Has(s, v) == \E i \in 1..Len(s) : s[i] = v
Rising(s) == \A i \in 1..(Len(s) - 1) : s[i] < s[i + 1]

LEMMA InOrder ==
  ASSUME NEW n \in Nat, NEW s \in Seq(1..n), NEW e \in 1..n,
         Rising(s), \A i \in 1..Len(s) : s[i] < e
  PROVE  /\ Append(s, e) \in Seq(1..n) /\ Rising(Append(s, e))
         /\ \A i \in 1..Len(Append(s, e)) : Append(s, e)[i] <= e
         /\ Has(Append(s, e), e) /\ \A v : Has(s, v) => Has(Append(s, e), v)
<1>1. /\ Append(s, e) \in Seq(1..n) /\ Len(s) \in Nat
      /\ Len(Append(s, e)) = Len(s) + 1
      /\ \A i \in 1..Len(s) : Append(s, e)[i] = s[i]
      /\ Append(s, e)[Len(s) + 1] = e
  BY Appended
<1>2. \A i \in 1..Len(s) : s[i] \in Nat
  OBVIOUS
<1>3. Rising(Append(s, e))
  BY <1>1, <1>2 DEF Rising
<1>4. \A i \in 1..Len(Append(s, e)) : Append(s, e)[i] <= e
  BY <1>1, <1>2
<1>5. Has(Append(s, e), e) /\ \A v : Has(s, v) => Has(Append(s, e), v)
  BY <1>1 DEF Has
<1> QED
  BY <1>1, <1>3, <1>4, <1>5

LEMMA FlushedElements ==
  ASSUME NEW n \in Nat, NEW k \in 1..n, pending_move \in 0..n, NEW s \in Seq(1..n)
  PROVE  /\ s \o Flushed(k) \in Seq(1..n)
         /\ pending_move = 0 => s \o Flushed(k) = Append(s, k)
         /\ pending_move # 0 => s \o Flushed(k) = Append(Append(s, pending_move), k)
<1>1. CASE pending_move = 0
  <2>1. Flushed(k) = <<k>>
    BY <1>1 DEF Flushed
  <2>2. s \o <<k>> = Append(s, k)
    OBVIOUS
  <2> QED
    BY <1>1, <2>1, <2>2
<1>2. CASE pending_move # 0
  <2> DEFINE m == <<pending_move>>
  <2>1. m \in Seq(1..n)
    BY <1>2
  <2>2. s \o m = Append(s, pending_move)
    BY <1>2
  <2>3. Flushed(k) = m \o <<k>>
    BY <1>2 DEF Flushed
  <2> HIDE DEF m
  <2>4. s \o (m \o <<k>>) = Append(s \o m, k)
    BY <2>1
  <2>5. Append(s \o m, k) \in Seq(1..n)
    BY <2>1
  <2> QED
    BY <1>2, <2>2, <2>3, <2>4, <2>5
<1> QED
  BY <1>1, <1>2

-----------------------------------------------------------------------------
(* Types.                                                                  *)

\* TypeOK, in parts that the steps change one at a time.
Flags ==
  {wake, stop_requested, got_frame, frame_dirty, frame_in_flight, due,
   unpainted, failure_shown, modal, finished, closing} \subseteq BOOLEAN
Places ==
  /\ pc \in {"connecting", "loop", "reset", "drain", "pump", "deliver", "copy",
             "wait", "teardown", "done"}
  /\ patience \in {"idle", "due"}
  /\ painter \in {"idle", "painted", "flagged"}
  /\ gui \in {"free", "waking", "joining"}
InputTypes ==
  /\ typed \in Seq(Inputs) /\ taken \in 0..Len(typed)
  /\ pending_move \in 0..taken /\ sent \in Seq(1..Len(typed))
FrameTypes ==
  /\ painted \in Nat /\ copied \in 0..painted /\ image \in 0..painted
  /\ signals \in Seq(SignalSet)

LEMMA TypeParts == TypeOK <=> Flags /\ Places /\ InputTypes /\ FrameTypes
  BY DEF TypeOK, Flags, Places, InputTypes, FrameTypes, SignalSet, Inputs

LEMMA TypePartsNext == TypeOK' <=> Flags' /\ Places' /\ InputTypes' /\ FrameTypes'
  BY DEF TypeOK, Flags, Places, InputTypes, FrameTypes, SignalSet, Inputs

LEMMA InitType == Init => TypeOK /\ FramesArePainted
<1> SUFFICES ASSUME Init PROVE TypeOK /\ FramesArePainted
  OBVIOUS
<1>1. Flags /\ Places
  BY DEF Init, Flags, Places
<1>2. InputTypes
  BY DEF Init, InputTypes, Inputs
<1>3. FrameTypes /\ FramesArePainted
  BY DEF Init, FrameTypes, FramesArePainted
<1> QED
  BY <1>1, <1>2, <1>3, TypeParts

(* The steps, by what they do to the input ...                             *)
Typing ==
  /\ \E kind \in Inputs : typed' = Append(typed, kind)
  /\ gui' = "waking"
  /\ UNCHANGED <<taken, pending_move, sent, pc, wake>>

LEMMA InputSteps ==
  ASSUME [Next]_vars
  PROVE  \/ DrainOne /\ typed' = typed
         \/ DrainEnds /\ typed' = typed
         \/ Typing
         \/ UNCHANGED inputVars
<1>1. CASE UNCHANGED vars
  BY <1>1 DEF vars, inputVars
<1>2. CASE SessionThread \/ IntervalPasses
  BY <1>2 DEF SessionThread, IntervalPasses, ConnectFails, Connected, LoopTop, ResetWake,
              DrainOne, DrainEnds, Pump, Raises, Defer, ClaimFrame, CopyFrame, WaitEnds,
              Teardown, SessionFrame, inputVars
<1>3. CASE Painter
  BY <1>3 DEF Painter, Paint, FlagFrame, WakeForFrame, PaintFrame, inputVars
<1>4. CASE SetWake \/ DeliverSignal \/ PaintEvent \/ Dismiss \/ UserCloses \/ JoinEnds
  BY <1>4 DEF SetWake, DeliverSignal, TakeFrame, OnConnected, OnEnded, PaintEvent, Dismiss,
              UserCloses, JoinEnds, GuiFrame, inputVars, Typing, Inputs, widgetVars
<1>5. CASE \E kind \in {"move", "key"} : QueueInput(kind)
  BY <1>5 DEF QueueInput, GuiFrame, Typing, Inputs
<1> QED
  BY <1>1, <1>2, <1>3, <1>4, <1>5 DEF Next, Gui

(* ... and to the signals.                                                 *)
Emission ==
  \E what \in {"connected", "error", "disconnected"} :
    /\ signals' = Append(signals, Signal(what, 0))
    /\ UNCHANGED <<painted, copied, image, unpainted, frame_in_flight>>
    /\ pc' # "copy"
Handling ==
  /\ signals # <<>> /\ Head(signals).what # "frame" /\ signals' = Tail(signals)
  /\ UNCHANGED <<painted, copied, image, unpainted, frame_in_flight, pc>>
Still == UNCHANGED <<signals, painted, copied, image>>

LEMMA SignalSteps ==
  ASSUME [Next]_vars
  PROVE  \/ Emission
         \/ CopyFrame /\ UNCHANGED <<painted, image, unpainted>>
         \/ Handling
         \/ TakeFrame /\ UNCHANGED <<painted, copied, pc>>
         \/ Paint
         \/ Still /\ (\/ ClaimFrame /\ UNCHANGED unpainted
                      \/ PaintEvent /\ UNCHANGED pc
                      \/ UNCHANGED <<frame_in_flight, unpainted>> /\ (pc' = "copy" => pc = "copy"))
<1>1. CASE UNCHANGED vars
  BY <1>1 DEF vars, frameVars, widgetVars, Still
<1>2. CASE SessionThread
  <2>1. CASE ConnectFails \/ Connected \/ Raises \/ Teardown
    BY <2>1 DEF ConnectFails, Connected, Raises, Teardown, Emit, SessionFrame, frameVars,
                widgetVars, Emission
  <2>2. CASE Pump
    BY <2>2 DEF Pump, Emit, SessionFrame, frameVars, widgetVars, Emission, Still
  <2>3. CASE CopyFrame
    BY <2>3 DEF CopyFrame, SessionFrame, widgetVars
  <2>4. CASE LoopTop \/ ResetWake \/ DrainOne \/ DrainEnds \/ Defer \/ ClaimFrame \/ WaitEnds
    BY <2>4 DEF LoopTop, ResetWake, DrainOne, DrainEnds, Defer, ClaimFrame, WaitEnds,
                SessionFrame, frameVars, widgetVars, Still
  <2> QED
    BY <1>2, <2>1, <2>2, <2>3, <2>4 DEF SessionThread
<1>3. CASE IntervalPasses
  BY <1>3 DEF IntervalPasses, SessionFrame, widgetVars, Still
<1>4. CASE Painter
  BY <1>4 DEF Painter, FlagFrame, WakeForFrame, PaintFrame, widgetVars, Still
<1>5. CASE DeliverSignal
  BY <1>5 DEF DeliverSignal, TakeFrame, OnConnected, OnEnded, GuiFrame, widgetVars, Handling
<1>6. CASE SetWake \/ PaintEvent \/ Dismiss \/ UserCloses \/ JoinEnds
  BY <1>6 DEF SetWake, PaintEvent, Dismiss, UserCloses, JoinEnds, GuiFrame, widgetVars, Still
<1>7. CASE \E kind \in {"move", "key"} : QueueInput(kind)
  BY <1>7 DEF QueueInput, GuiFrame, widgetVars, Still
<1> QED
  BY <1>1, <1>2, <1>3, <1>4, <1>5, <1>6, <1>7 DEF Next, Gui

LEMMA NextFlags ==
  ASSUME Flags, Places, [Next]_vars
  PROVE  Flags' /\ Places'
<1>1. CASE UNCHANGED vars
  BY <1>1 DEF vars, frameVars, widgetVars, Flags, Places
<1>2. CASE SessionThread \/ IntervalPasses
  <2>1. UNCHANGED <<stop_requested, painter, gui, unpainted, failure_shown, modal, finished,
                    closing>>
    BY <1>2 DEF SessionThread, IntervalPasses, ConnectFails, Connected, LoopTop, ResetWake,
         DrainOne, DrainEnds, Pump, Raises, Defer, ClaimFrame, CopyFrame, WaitEnds,
         Teardown, SessionFrame, widgetVars
  <2>2. Flags'
    BY <1>2, <2>1 DEF SessionThread, IntervalPasses, ConnectFails, Connected, LoopTop,
         ResetWake, DrainOne, DrainEnds, Pump, Raises, Defer, ClaimFrame, CopyFrame,
         WaitEnds, Teardown, frameVars, Flags
  <2>3. Places'
    BY <1>2, <2>1 DEF SessionThread, IntervalPasses, ConnectFails, Connected, LoopTop,
         ResetWake, DrainOne, DrainEnds, Pump, Raises, Defer, ClaimFrame, CopyFrame,
         WaitEnds, Teardown, Places
  <2> QED
    BY <2>2, <2>3
<1>3. CASE Painter
  BY <1>3 DEF Painter, Paint, FlagFrame, WakeForFrame, PaintFrame, widgetVars, Flags, Places
<1>4. CASE SetWake \/ DeliverSignal \/ PaintEvent \/ JoinEnds
  <2>1. CASE SetWake \/ PaintEvent \/ JoinEnds
    BY <2>1 DEF SetWake, PaintEvent, JoinEnds, GuiFrame, widgetVars, Flags, Places
  <2>2. CASE TakeFrame \/ OnConnected
    BY <2>2 DEF TakeFrame, OnConnected, GuiFrame, widgetVars, Flags, Places
  <2>3. CASE OnEnded
    BY <2>3 DEF OnEnded, EmitFinishedOnce, CloseSession, GuiFrame, widgetVars, Flags, Places
  <2> QED
    BY <1>4, <2>1, <2>2, <2>3 DEF DeliverSignal
<1>5. CASE Dismiss \/ UserCloses
  BY <1>5 DEF Dismiss, UserCloses, EmitFinishedOnce, CloseSession, GuiFrame, widgetVars, Flags,
              Places
<1>6. CASE \E kind \in {"move", "key"} : QueueInput(kind)
  BY <1>6 DEF QueueInput, GuiFrame, widgetVars, Flags, Places
<1> QED
  BY <1>1, <1>2, <1>3, <1>4, <1>5, <1>6 DEF Next, Gui

LEMMA NextInputTypes ==
  ASSUME InputTypes, [Next]_vars
  PROVE  InputTypes'
<1>0. /\ Len(typed) \in Nat /\ taken \in Nat /\ taken <= Len(typed)
      /\ pending_move \in 0..Len(typed) /\ pending_move \in 0..taken
      /\ sent \in Seq(1..Len(typed)) /\ typed \in Seq(Inputs)
  BY DEF InputTypes
<1>1. CASE DrainOne /\ typed' = typed
  <2>1. taken + 1 \in 1..Len(typed)
    BY <1>0, <1>1 DEF DrainOne
  <2>2. sent \o Flushed(taken + 1) \in Seq(1..Len(typed))
    BY <1>0, <2>1, FlushedElements
  <2>3. sent' \in Seq(1..Len(typed))
    BY <1>0, <1>1, <2>2 DEF DrainOne
  <2>4. pending_move' \in 0..taken' /\ taken' \in 0..Len(typed)
    BY <1>0, <1>1, <2>1 DEF DrainOne
  <2> QED
    BY <1>0, <1>1, <2>3, <2>4 DEF InputTypes
<1>2. CASE DrainEnds /\ typed' = typed
  <2>1. sent' \in Seq(1..Len(typed))
    <3>1. CASE pending_move = 0
      BY <1>0, <1>2, <3>1 DEF DrainEnds
    <3>2. CASE pending_move # 0
      <4>1. pending_move \in 1..Len(typed) /\ sent' = Append(sent, pending_move)
        BY <1>0, <1>2, <3>2 DEF DrainEnds
      <4> QED
        BY <1>0, <4>1, Appended
    <3> QED
      BY <3>1, <3>2
  <2>2. pending_move' \in 0..taken' /\ taken' \in 0..Len(typed)
    BY <1>0, <1>2 DEF DrainEnds
  <2> QED
    BY <1>0, <1>2, <2>1, <2>2 DEF InputTypes
<1>3. CASE Typing
  <2>1. typed' \in Seq(Inputs) /\ Len(typed') = Len(typed) + 1
    BY <1>0, <1>3, Appended DEF Typing
  <2>2. sent \in Seq(1..Len(typed'))
    BY <1>0, <2>1, WiderSeq
  <2> QED
    BY <1>0, <1>3, <2>1, <2>2 DEF Typing, InputTypes
<1>4. CASE UNCHANGED inputVars
  BY <1>4 DEF inputVars, InputTypes
<1> QED
  BY <1>1, <1>2, <1>3, <1>4, InputSteps

LEMMA NextFrameTypes ==
  ASSUME FrameTypes, FramesArePainted, [Next]_vars
  PROVE  FrameTypes' /\ FramesArePainted'
<1>0. /\ painted \in Nat /\ copied \in 0..painted /\ image \in 0..painted
      /\ signals \in Seq(SignalSet)
      /\ \A i \in 1..Len(signals) : signals[i].frame \in 0..painted
  BY DEF FrameTypes, FramesArePainted
<1>1. ASSUME NEW what \in {"connected", "error", "disconnected", "frame"}, NEW f \in 0..painted,
             signals' = Append(signals, Signal(what, f)),
             painted' = painted, copied' \in 0..painted, image' = image
      PROVE  FrameTypes' /\ FramesArePainted'
  <2>1. f \in Nat
    BY <1>0
  <2>2. signals' \in Seq(SignalSet)
    BY <1>0, <1>1, <2>1, Emitted
  <2>3. \A i \in 1..Len(signals') : signals'[i].frame \in 0..painted
    <3> SUFFICES ASSUME NEW i \in 1..Len(signals') PROVE signals'[i].frame \in 0..painted
      OBVIOUS
    <3>1. i \in 1..Len(signals) \/ i = Len(signals) + 1
      BY <1>0, <1>1, <2>1, Emitted
    <3> QED
      BY <1>0, <1>1, <2>1, <3>1, Emitted
  <2> QED
    BY <1>0, <1>1, <2>2, <2>3 DEF FrameTypes, FramesArePainted
<1>2. CASE Emission
  BY <1>0, <1>1, <1>2 DEF Emission
<1>3. CASE CopyFrame /\ UNCHANGED <<painted, image, unpainted>>
  BY <1>0, <1>1, <1>3 DEF CopyFrame
<1>4. ASSUME signals # <<>>, signals' = Tail(signals), UNCHANGED <<painted, copied>>,
             image' \in {image, Head(signals).frame}
      PROVE  FrameTypes' /\ FramesArePainted'
  <2>1. signals' \in Seq(SignalSet)
    BY <1>0, <1>4, Delivered
  <2>2. \A i \in 1..Len(signals') : signals'[i].frame \in 0..painted
    <3> SUFFICES ASSUME NEW i \in 1..Len(signals') PROVE signals'[i].frame \in 0..painted
      OBVIOUS
    <3>1. i + 1 \in 1..Len(signals) /\ signals'[i] = signals[i + 1]
      BY <1>0, <1>4, Delivered
    <3> QED
      BY <1>0, <3>1
  <2>3. Head(signals).frame \in 0..painted
    <3>1. 1 \in 1..Len(signals)
      BY <1>0, <1>4, Delivered
    <3> QED
      BY <1>0, <1>4, <3>1, Delivered
  <2> QED
    BY <1>0, <1>4, <2>1, <2>2, <2>3 DEF FrameTypes, FramesArePainted
<1>5. CASE Handling
  BY <1>4, <1>5 DEF Handling
<1>6. CASE TakeFrame /\ UNCHANGED <<painted, copied, pc>>
  BY <1>4, <1>6 DEF TakeFrame
<1>7. CASE Paint
  <2>1. painted' = painted + 1 /\ UNCHANGED <<copied, image, signals>>
    BY <1>7 DEF Paint, PaintFrame, widgetVars
  <2>2. \A i \in 1..Len(signals) : signals[i].frame \in 0..painted'
    BY <1>0, <2>1
  <2> QED
    BY <1>0, <2>1, <2>2 DEF FrameTypes, FramesArePainted
<1>8. CASE Still
  BY <1>0, <1>8 DEF FrameTypes, FramesArePainted, Still
<1> QED
  BY <1>2, <1>3, <1>5, <1>6, <1>7, <1>8, SignalSteps

LEMMA NextType ==
  ASSUME TypeOK, FramesArePainted, [Next]_vars
  PROVE  TypeOK' /\ FramesArePainted'
<1>1. Flags /\ Places /\ InputTypes /\ FrameTypes
  BY TypeParts
<1> QED
  BY <1>1, NextFlags, NextInputTypes, NextFrameTypes, TypePartsNext

-----------------------------------------------------------------------------
(* The order of the input.                                                 *)

LEMMA InputOrderParts ==
  InputsInOrder <=>
    /\ Rising(sent)
    /\ \A k \in 1..taken :
         k = pending_move \/ Has(sent, k)
         \/ (typed[k] = "move" /\ k < taken /\ typed[k + 1] = "move")
  BY DEF InputsInOrder, Rising, Has

LEMMA InputOrderPartsNext ==
  InputsInOrder' <=>
    /\ Rising(sent')
    /\ \A k \in 1..taken' :
         k = pending_move' \/ Has(sent', k)
         \/ (typed'[k] = "move" /\ k < taken' /\ typed'[k + 1] = "move")
  BY DEF InputsInOrder, Rising, Has

LEMMA NextInputOrder ==
  ASSUME TypeOK, InputsInOrder, MoveIsLast, [Next]_vars
  PROVE  InputsInOrder' /\ MoveIsLast'
<1>0. /\ Len(typed) \in Nat /\ taken \in Nat /\ taken <= Len(typed)
      /\ pending_move \in 0..Len(typed) /\ pending_move \in 0..taken
      /\ sent \in Seq(1..Len(typed)) /\ typed \in Seq(Inputs) /\ Len(sent) \in Nat
      /\ \A i \in 1..Len(sent) : sent[i] \in 1..Len(typed)
  BY TypeParts DEF InputTypes
<1>a. Rising(sent) /\ \A k \in 1..taken :
         k = pending_move \/ Has(sent, k)
         \/ (typed[k] = "move" /\ k < taken /\ typed[k + 1] = "move")
  BY InputOrderParts
<1>b. /\ \A i \in 1..Len(sent) :
           sent[i] <= taken /\ (pending_move # 0 => sent[i] < pending_move)
      /\ pending_move # 0 => pending_move = taken /\ typed[taken] = "move"
  BY DEF MoveIsLast
\* The drain sends s: the pending move, if there was one, and perhaps the input taken.
<1>s. ASSUME typed' = typed, pending_move' = 0, taken' \in {taken, taken + 1},
             Rising(sent'), \A i \in 1..Len(sent') : sent'[i] <= taken',
             \A v : Has(sent, v) => Has(sent', v),
             pending_move # 0 => Has(sent', pending_move),
             taken' = taken + 1 => Has(sent', taken + 1)
      PROVE  InputsInOrder' /\ MoveIsLast'
  <2>1. ASSUME NEW k \in 1..taken'
        PROVE  Has(sent', k) \/ (typed[k] = "move" /\ k < taken' /\ typed[k + 1] = "move")
    <3>1. CASE k = taken + 1
      BY <1>0, <1>s, <3>1
    <3>2. CASE k # taken + 1
      <4>1. k \in 1..taken
        BY <1>0, <1>s, <3>2
      <4> QED
        BY <1>0, <1>a, <1>s, <4>1
    <3> QED
      BY <3>1, <3>2
  <2>2. InputsInOrder'
    BY <1>s, <2>1, InputOrderPartsNext
  <2>3. MoveIsLast'
    BY <1>s DEF MoveIsLast
  <2> QED
    BY <2>2, <2>3
<1>1. CASE DrainOne /\ typed' = typed /\ typed[taken + 1] = "move"
  <2>1. taken' = taken + 1 /\ pending_move' = taken + 1 /\ sent' = sent
    BY <1>1 DEF DrainOne
  <2>2. MoveIsLast'
    BY <1>0, <1>1, <1>b, <2>1 DEF MoveIsLast
  <2>3. ASSUME NEW k \in 1..taken'
        PROVE  \/ k = pending_move' \/ Has(sent', k)
               \/ typed'[k] = "move" /\ k < taken' /\ typed'[k + 1] = "move"
    <3>1. CASE k = taken + 1
      BY <2>1, <3>1
    <3>2. CASE k # taken + 1
      <4>1. k \in 1..taken /\ k < taken'
        BY <1>0, <2>1, <3>2
      <4>2. CASE k = pending_move
        BY <1>1, <1>b, <4>1, <4>2, <1>0
      <4>3. CASE k # pending_move
        BY <1>0, <1>1, <1>a, <2>1, <4>1, <4>3
      <4> QED
        BY <4>2, <4>3
    <3> QED
      BY <3>1, <3>2
  <2> QED
    BY <1>a, <2>1, <2>2, <2>3, InputOrderPartsNext
<1>2. CASE DrainOne /\ typed' = typed /\ typed[taken + 1] # "move"
  <2>0. PICK k \in 1..Len(typed) : k = taken + 1
    BY <1>0, <1>2 DEF DrainOne
  <2>1. taken' = k /\ pending_move' = 0 /\ sent' = sent \o Flushed(k)
    BY <1>2, <2>0 DEF DrainOne
  <2>2. CASE pending_move = 0
    <3>1. sent' = Append(sent, k)
      BY <1>0, <2>1, <2>2, FlushedElements
    <3>2. \A i \in 1..Len(sent) : sent[i] < k
      BY <1>0, <1>b, <2>0
    <3>3. /\ Rising(sent') /\ \A i \in 1..Len(sent') : sent'[i] <= k
          /\ Has(sent', k) /\ \A v : Has(sent, v) => Has(sent', v)
      BY <1>0, <1>a, <2>1, <3>1, <3>2, InOrder
    <3> QED
      BY <1>2, <1>s, <2>0, <2>1, <2>2, <3>3
  <2>3. CASE pending_move # 0
    <3> DEFINE s == Append(sent, pending_move)
    <3>1. sent' = Append(s, k)
      BY <1>0, <2>1, <2>3, FlushedElements
    <3>2. pending_move \in 1..Len(typed) /\ pending_move = taken
      BY <1>0, <1>b, <2>3
    <3>3. \A i \in 1..Len(sent) : sent[i] < pending_move
      BY <1>b, <2>3
    <3>4. /\ s \in Seq(1..Len(typed)) /\ Rising(s) /\ \A i \in 1..Len(s) : s[i] <= pending_move
          /\ Has(s, pending_move) /\ \A v : Has(sent, v) => Has(s, v)
      BY <1>0, <1>a, <3>2, <3>3, InOrder
    <3> HIDE DEF s
    <3>5. \A i \in 1..Len(s) : s[i] < k
      <4>1. \A i \in 1..Len(s) : s[i] \in 1..Len(typed)
        BY <3>4
      <4> QED
        BY <1>0, <2>0, <3>2, <3>4, <4>1
    <3>6. /\ Rising(sent') /\ \A i \in 1..Len(sent') : sent'[i] <= k
          /\ Has(sent', k) /\ \A v : Has(s, v) => Has(sent', v)
      BY <1>0, <2>1, <3>1, <3>4, <3>5, InOrder
    <3> QED
      BY <1>2, <1>s, <2>0, <2>1, <3>4, <3>6
  <2> QED
    BY <2>2, <2>3
<1>3. CASE DrainEnds /\ typed' = typed
  <2>1. taken' = taken /\ pending_move' = 0
    BY <1>3 DEF DrainEnds
  <2>2. taken # taken + 1
    BY <1>0
  <2>3. CASE pending_move = 0
    <3>1. sent' = sent
      BY <1>3, <2>3 DEF DrainEnds
    <3> QED
      BY <1>3, <1>a, <1>b, <1>s, <2>1, <2>2, <2>3, <3>1
  <2>4. CASE pending_move # 0
    <3>1. sent' = Append(sent, pending_move)
      BY <1>3, <2>4 DEF DrainEnds
    <3>2. pending_move \in 1..Len(typed) /\ pending_move = taken
      BY <1>0, <1>b, <2>4
    <3>3. \A i \in 1..Len(sent) : sent[i] < pending_move
      BY <1>b, <2>4
    <3>4. /\ Rising(sent') /\ \A i \in 1..Len(sent') : sent'[i] <= taken
          /\ Has(sent', pending_move) /\ \A v : Has(sent, v) => Has(sent', v)
      BY <1>0, <1>a, <3>1, <3>2, <3>3, InOrder
    <3> QED
      BY <1>3, <1>s, <2>1, <2>2, <3>4
  <2> QED
    BY <2>3, <2>4
<1>4. CASE Typing
  <2>1. UNCHANGED <<taken, pending_move, sent>>
    BY <1>4 DEF Typing
  <2>2. \A k \in 1..Len(typed) : typed'[k] = typed[k]
    BY <1>0, <1>4, Appended DEF Typing
  <2>3. \A k \in 1..taken : typed'[k] = typed[k] /\ (k < taken => typed'[k + 1] = typed[k + 1])
    BY <1>0, <2>2
  <2>4. InputsInOrder'
    BY <1>a, <2>1, <2>3, InputOrderPartsNext
  <2>5. MoveIsLast'
    <3>1. pending_move # 0 => taken \in 1..taken
      BY <1>0
    <3> QED
      BY <1>b, <2>1, <2>3, <3>1 DEF MoveIsLast
  <2> QED
    BY <2>4, <2>5
<1>5. CASE UNCHANGED inputVars
  BY <1>5 DEF inputVars, InputsInOrder, MoveIsLast
<1> QED
  BY <1>1, <1>2, <1>3, <1>4, <1>5, InputSteps

-----------------------------------------------------------------------------
(* Waking.                                                                 *)

FrameWakes ==
  pc = "wait" /\ patience = "idle" /\ ~wake /\ MayDeliver
    => gui = "waking" \/ painter = "flagged"

LEMMA WakeParts == InputWakes => (NoLostWakeup <=> FrameWakes)
  BY DEF InputWakes, NoLostWakeup, FrameWakes

LEMMA WakePartsNext == InputWakes' => (NoLostWakeup' <=> FrameWakes')
  BY DEF InputWakes, NoLostWakeup, FrameWakes

LEMMA NextInputWakes ==
  ASSUME Places, InputTypes, InputWakes, [Next]_vars
  PROVE  InputWakes'
<1>1. CASE UNCHANGED vars
  BY <1>1 DEF vars, inputVars, InputWakes
<1>2. CASE SessionThread
  <2>1. UNCHANGED <<typed, gui>>
    BY <1>2 DEF SessionThread, ConnectFails, Connected, LoopTop, ResetWake, DrainOne, DrainEnds,
                Pump, Raises, Defer, ClaimFrame, CopyFrame, WaitEnds, Teardown, SessionFrame
  <2>2. CASE DrainEnds
    <3>1. Len(typed) \in Nat /\ taken' = Len(typed')
      BY <2>1, <2>2 DEF DrainEnds, InputTypes
    <3> QED
      BY <3>1 DEF InputWakes
  <2>3. CASE ConnectFails \/ Connected \/ LoopTop \/ ResetWake \/ DrainOne \/ Raises \/ WaitEnds
             \/ Teardown
    BY <2>3 DEF ConnectFails, Connected, LoopTop, ResetWake, DrainOne, Raises, WaitEnds, Teardown,
                InputWakes
  <2>4. CASE Pump \/ Defer \/ ClaimFrame \/ CopyFrame
    BY <2>1, <2>4 DEF Pump, Defer, ClaimFrame, CopyFrame, InputWakes
  <2> QED
    BY <1>2, <2>2, <2>3, <2>4 DEF SessionThread
<1>3. CASE IntervalPasses
  BY <1>3 DEF IntervalPasses, SessionFrame, InputWakes
<1>4. CASE Painter
  BY <1>4 DEF Painter, Paint, FlagFrame, WakeForFrame, PaintFrame, inputVars, InputWakes
<1>5. CASE Gui
  <2>1. CASE SetWake \/ PaintEvent \/ TakeFrame \/ JoinEnds \/ UserCloses
    BY <2>1 DEF SetWake, PaintEvent, TakeFrame, JoinEnds, UserCloses, CloseSession, GuiFrame,
                InputWakes
  <2>2. CASE OnConnected
    BY <2>2 DEF OnConnected, GuiFrame, InputWakes
  <2>3. CASE OnEnded \/ Dismiss
    BY <2>3 DEF OnEnded, Dismiss, EmitFinishedOnce, CloseSession, GuiFrame, InputWakes
  <2>4. CASE \E kind \in {"move", "key"} : QueueInput(kind)
    BY <2>4 DEF QueueInput, GuiFrame, InputWakes
  <2> QED
    BY <1>5, <2>1, <2>2, <2>3, <2>4 DEF Gui, DeliverSignal
<1> QED
  BY <1>1, <1>2, <1>3, <1>4, <1>5 DEF Next

LEMMA NextFrameWakes ==
  ASSUME Flags, Places, FrameWakes, OnePlace, [Next]_vars
  PROVE  FrameWakes'
<1>1. CASE UNCHANGED vars
  BY <1>1 DEF vars, frameVars, FrameWakes, MayDeliver
<1>2. CASE SessionThread
  <2>1. UNCHANGED <<gui, painter>>
    BY <1>2 DEF SessionThread, ConnectFails, Connected, LoopTop, ResetWake, DrainOne, DrainEnds,
                Pump, Raises, Defer, ClaimFrame, CopyFrame, WaitEnds, Teardown, SessionFrame
  <2>2. CASE Defer
    BY <2>1, <2>2 DEF Defer, frameVars, FrameWakes, MayDeliver
  <2>3. CASE CopyFrame
    BY <2>3 DEF CopyFrame, OnePlace, FrameWakes, MayDeliver
  <2>4. pc' # "wait" \/ Defer \/ CopyFrame
    BY <1>2 DEF SessionThread, ConnectFails, Connected, LoopTop, ResetWake, DrainOne, DrainEnds,
                Pump, Raises, ClaimFrame, WaitEnds, Teardown
  <2> QED
    BY <2>2, <2>3, <2>4 DEF FrameWakes
<1>3. CASE IntervalPasses
  BY <1>3 DEF IntervalPasses, SessionFrame, FrameWakes, MayDeliver
<1>4. CASE Painter
  <2>1. CASE Paint
    BY <2>1 DEF Paint, PaintFrame, FrameWakes, MayDeliver
  <2>2. CASE FlagFrame \/ WakeForFrame
    BY <2>2 DEF FlagFrame, WakeForFrame, PaintFrame, FrameWakes, MayDeliver
  <2> QED
    BY <1>4, <2>1, <2>2 DEF Painter
<1>5. CASE Gui
  <2>1. CASE SetWake \/ PaintEvent \/ TakeFrame \/ JoinEnds \/ UserCloses
    BY <2>1 DEF SetWake, PaintEvent, TakeFrame, JoinEnds, UserCloses, CloseSession, GuiFrame,
                FrameWakes, MayDeliver
  <2>2. CASE OnConnected
    BY <2>2 DEF OnConnected, GuiFrame, FrameWakes, MayDeliver
  <2>3. CASE OnEnded \/ Dismiss
    BY <2>3 DEF OnEnded, Dismiss, EmitFinishedOnce, CloseSession, GuiFrame, FrameWakes, MayDeliver
  <2>4. CASE \E kind \in {"move", "key"} : QueueInput(kind)
    BY <2>4 DEF QueueInput, GuiFrame, FrameWakes, MayDeliver
  <2> QED
    BY <1>5, <2>1, <2>2, <2>3, <2>4 DEF Gui, DeliverSignal
<1> QED
  BY <1>1, <1>2, <1>3, <1>4, <1>5 DEF Next

-----------------------------------------------------------------------------
(* The frames.                                                             *)

LEMMA NextNewestFrameKept ==
  ASSUME Flags, Places, NewestFrameKept, [Next]_vars
  PROVE  NewestFrameKept'
<1>1. CASE UNCHANGED vars
  BY <1>1 DEF vars, frameVars, NewestFrameKept
<1>2. CASE SessionThread
  <2>1. UNCHANGED <<painter, painted>>
    BY <1>2 DEF SessionThread, ConnectFails, Connected, LoopTop, ResetWake, DrainOne, DrainEnds,
                Pump, Raises, Defer, ClaimFrame, CopyFrame, WaitEnds, Teardown, SessionFrame
  <2>2. CASE ClaimFrame \/ CopyFrame
    BY <2>1, <2>2 DEF ClaimFrame, CopyFrame, NewestFrameKept
  <2>3. CASE ConnectFails \/ Connected \/ LoopTop \/ ResetWake \/ DrainOne \/ DrainEnds
             \/ Pump \/ Raises \/ Defer \/ WaitEnds \/ Teardown
    BY <2>1, <2>3 DEF ConnectFails, Connected, LoopTop, ResetWake, DrainOne, DrainEnds, Pump,
                Raises, Defer, WaitEnds, Teardown, frameVars, NewestFrameKept
  <2> QED
    BY <1>2, <2>2, <2>3 DEF SessionThread
<1>3. CASE IntervalPasses
  BY <1>3 DEF IntervalPasses, SessionFrame, NewestFrameKept
<1>4. CASE Painter
  BY <1>4 DEF Painter, Paint, FlagFrame, WakeForFrame, PaintFrame, NewestFrameKept
<1>5. CASE Gui
  <2>1. UNCHANGED <<pc, frame_dirty, painter, painted, copied>>
    BY <1>5 DEF Gui, SetWake, DeliverSignal, TakeFrame, OnConnected, OnEnded, PaintEvent, Dismiss,
                UserCloses, JoinEnds, QueueInput, GuiFrame
  <2> QED
    BY <2>1 DEF NewestFrameKept
<1> QED
  BY <1>1, <1>2, <1>3, <1>4, <1>5 DEF Next

LEMMA NextOnePlace ==
  ASSUME FrameTypes, Flags, Places, OnePlace, [Next]_vars
  PROVE  OnePlace'
<1>0. signals \in Seq(SignalSet) /\ Len(signals) \in Nat /\ painted \in Nat
  BY DEF FrameTypes
<1>1. CASE Emission
  <2>1. PICK what \in {"connected", "error", "disconnected"} :
          signals' = Append(signals, Signal(what, 0))
    BY <1>1 DEF Emission
  <2>2. /\ Len(signals') = Len(signals) + 1
        /\ \A i \in 1..Len(signals) : signals'[i] = signals[i]
        /\ signals'[Len(signals) + 1].what # "frame"
    BY <1>0, <2>1, Emitted
  <2>3. ASSUME NEW i \in 1..Len(signals'), signals'[i].what = "frame"
        PROVE  i \in 1..Len(signals) /\ signals[i].what = "frame"
    <3>1. i # Len(signals) + 1
      BY <2>2, <2>3
    <3>2. i \in 1..Len(signals)
      BY <1>0, <2>2, <3>1
    <3> QED
      BY <2>2, <2>3, <3>2
  <2> QED
    BY <1>1, <2>3 DEF Emission, OnePlace, IsFrame
<1>2. CASE CopyFrame /\ UNCHANGED <<painted, image, unpainted>>
  <2>1. /\ frame_in_flight /\ frame_in_flight' = frame_in_flight /\ ~unpainted'
        /\ pc' = "wait" /\ signals' = Append(signals, Signal("frame", painted))
    BY <1>2 DEF CopyFrame, OnePlace
  <2>2. \A i \in 1..Len(signals) : signals[i].what # "frame"
    BY <1>2 DEF CopyFrame, OnePlace, IsFrame
  <2>3. /\ Len(signals') = Len(signals) + 1
        /\ \A i \in 1..Len(signals) : signals'[i] = signals[i]
    BY <1>0, <2>1, Emitted
  <2>4. ASSUME NEW i \in 1..Len(signals'), signals'[i].what = "frame"
        PROVE  i = Len(signals) + 1
    <3>1. i \in 1..Len(signals) \/ i = Len(signals) + 1
      BY <1>0, <2>3
    <3> QED
      BY <2>2, <2>3, <2>4, <3>1
  <2> QED
    BY <2>1, <2>4 DEF OnePlace, IsFrame
<1>3. ASSUME signals # <<>>, signals' = Tail(signals)
      PROVE  /\ Len(signals) >= 1 /\ Len(signals') = Len(signals) - 1
             /\ \A i \in 1..Len(signals') : i + 1 \in 1..Len(signals) /\ i + 1 # 1
                                            /\ signals'[i] = signals[i + 1]
  BY <1>0, <1>3, Delivered
<1>4. CASE Handling
  <2>1. /\ signals # <<>> /\ signals' = Tail(signals)
        /\ UNCHANGED <<unpainted, frame_in_flight, pc>>
    BY <1>4 DEF Handling
  <2>2. \A i \in 1..Len(signals') : i + 1 \in 1..Len(signals) /\ signals'[i] = signals[i + 1]
    BY <1>3, <2>1
  <2> QED
    BY <1>0, <2>1, <2>2 DEF OnePlace, IsFrame
<1>5. CASE TakeFrame /\ UNCHANGED <<painted, copied, pc>>
  <2>1. /\ signals # <<>> /\ signals' = Tail(signals) /\ signals[1].what = "frame"
        /\ unpainted' /\ UNCHANGED <<frame_in_flight, pc>>
    BY <1>0, <1>5, Delivered DEF TakeFrame
  <2>2. 1 \in 1..Len(signals)
    BY <1>0, <1>3, <2>1
  <2>3. frame_in_flight /\ pc # "copy"
    BY <2>1, <2>2 DEF OnePlace, IsFrame
  <2>4. \A i \in 2..Len(signals) : signals[i].what # "frame"
    BY <1>0, <2>1, <2>2 DEF OnePlace, IsFrame
  <2>5. \A i \in 1..Len(signals') : signals'[i].what # "frame"
    BY <1>0, <1>3, <2>1, <2>4
  <2> QED
    BY <2>1, <2>3, <2>5 DEF OnePlace, IsFrame
<1>6. CASE Paint
  BY <1>6 DEF Paint, PaintFrame, widgetVars, OnePlace, IsFrame
<1>7. CASE Still /\ ClaimFrame /\ UNCHANGED unpainted
  BY <1>7 DEF Still, ClaimFrame, MayDeliver, OnePlace, IsFrame
<1>8. CASE Still /\ PaintEvent /\ UNCHANGED pc
  BY <1>8 DEF Still, PaintEvent, OnePlace, IsFrame
<1>9. CASE Still /\ UNCHANGED <<frame_in_flight, unpainted>> /\ (pc' = "copy" => pc = "copy")
  BY <1>9 DEF Still, OnePlace, IsFrame
<1> QED
  BY <1>1, <1>2, <1>4, <1>5, <1>6, <1>7, <1>8, <1>9, SignalSteps

(* At most one place has a frame: its count is at most one.                *)
LEMMA OnePlaceIsOneFrame ==
  ASSUME FrameTypes, OnePlace
  PROVE  OneFrameInFlight
<1> DEFINE F == {i \in 1..Len(signals) : signals[i].what = "frame"}
<1>1. CASE F = {}
  <2>1. Cardinality(F) = 0
    BY <1>1, FS_EmptySet
  <2> QED
    BY <2>1 DEF OneFrameInFlight
<1>2. CASE F # {}
  <2>1. PICK i \in F : TRUE
    BY <1>2
  <2>2. F = {i} /\ ~unpainted
    BY <2>1 DEF OnePlace, IsFrame
  <2>3. Cardinality(F) = 1
    BY <2>2, FS_Singleton
  <2> QED
    BY <2>2, <2>3 DEF OneFrameInFlight
<1> QED
  BY <1>1, <1>2

-----------------------------------------------------------------------------
(* The theorems.                                                           *)

LEMMA InitInv == Init => IInv
<1> SUFFICES ASSUME Init PROVE IInv
  OBVIOUS
<1>1. TypeOK /\ FramesArePainted
  BY InitType
<1>2. Len(sent) = 0 /\ Len(typed) = 0 /\ Len(signals) = 0 /\ taken = 0 /\ pending_move = 0
  BY DEF Init
<1>3. InputsInOrder /\ MoveIsLast
  BY <1>2 DEF InputsInOrder, MoveIsLast
<1>4. InputWakes /\ NoLostWakeup /\ NewestFrameKept /\ OnePlace
  BY <1>2 DEF Init, InputWakes, NoLostWakeup, NewestFrameKept, OnePlace
<1> QED
  BY <1>1, <1>3, <1>4 DEF IInv

LEMMA NextInv == IInv /\ [Next]_vars => IInv'
<1> SUFFICES ASSUME IInv, [Next]_vars PROVE IInv'
  OBVIOUS
<1>1. /\ TypeOK /\ FramesArePainted /\ InputsInOrder /\ MoveIsLast
      /\ InputWakes /\ NoLostWakeup /\ NewestFrameKept /\ OnePlace
  BY DEF IInv
<1>2. Flags /\ Places /\ InputTypes /\ FrameTypes
  BY <1>1, TypeParts
<1>3. TypeOK' /\ FramesArePainted'
  BY <1>1, NextType
<1>4. InputsInOrder' /\ MoveIsLast'
  BY <1>1, NextInputOrder
<1>5. InputWakes' /\ NoLostWakeup'
  <2>1. InputWakes'
    BY <1>1, <1>2, NextInputWakes
  <2>2. FrameWakes'
    BY <1>1, <1>2, WakeParts, NextFrameWakes
  <2> QED
    BY <2>1, <2>2, WakePartsNext
<1>6. NewestFrameKept'
  BY <1>1, <1>2, NextNewestFrameKept
<1>7. OnePlace'
  BY <1>1, <1>2, NextOnePlace
<1> QED
  BY <1>3, <1>4, <1>5, <1>6, <1>7 DEF IInv

LEMMA InvHolds == Spec => []IInv
  BY InitInv, NextInv, PTL DEF Spec

(* Every variable of the session, its widget and the painting thread keeps *)
(* its type, however much is typed and painted.                            *)
THEOREM TypeCorrect == Spec => []TypeOK
<1>1. IInv => TypeOK
  BY DEF IInv
<1> QED
  BY InvHolds, <1>1, PTL

(* The drain loop of _drain_input_queue sends what the user typed in its   *)
(* order and leaves out only moves that another move follows at once,      *)
(* wherever the queue fills while the loop empties it.                     *)
THEOREM InputOrder == Spec => []InputsInOrder
<1>1. IInv => InputsInOrder
  BY DEF IInv
<1> QED
  BY InvHolds, <1>1, PTL

(* The session thread does not sleep through input or a frame: _wake is    *)
(* reset before the queue is drained and the frame flags are read, and     *)
(* every other thread sets it after what it queued or flagged.             *)
THEOREM WakeupsKept == Spec => []NoLostWakeup
<1>1. IInv => NoLostWakeup
  BY DEF IInv
<1> QED
  BY InvHolds, <1>1, PTL

(* The hand-over of frames: the newest paint is flagged or copied, and one *)
(* copied frame at most waits for the GUI, in the queue or unpainted.      *)
THEOREM FramesHandedOver == Spec => []FrameHandover
<1>1. IInv => FrameHandover
  BY TypeParts, OnePlaceIsOneFrame DEF IInv, FrameHandover
<1> QED
  BY InvHolds, <1>1, PTL

=============================================================================

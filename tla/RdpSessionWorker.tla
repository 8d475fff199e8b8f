---------------------------- MODULE RdpSessionWorker ----------------------------
(***************************************************************************)
(* One RDP session (core/rdp/rdp_session_worker.py) and the widget that     *)
(* shows it (widgets/rdp_widget.py).  Three threads meet here: the GUI      *)
(* thread queues input, paints frames and closes the tab; the session       *)
(* thread owns libfreerdp and runs the pump loop; FreeRDP's own channel     *)
(* thread paints the surface and flags it.  They share a queue, three flags *)
(* and one manual-reset event.                                             *)
(*                                                                         *)
(* Each access to a shared object is one step.  Frames are named by how     *)
(* often the surface has been painted, inputs by the order of queueing.     *)
(***************************************************************************)
EXTENDS Naturals, Sequences, SequencesExt, FiniteSets

CONSTANTS
    MaxInputs,   \* bound: input events the user produces
    MaxPaints    \* bound: how often FreeRDP paints

ASSUME BoundsAssumption == MaxInputs \in Nat /\ MaxPaints \in Nat

VARIABLES
    pc,               \* the session thread
    wake,             \* _wake: is the event set?
    stop_requested, got_frame, frame_dirty, frame_in_flight,
    due,              \* _MIN_FRAME_INTERVAL has passed since the last frame
    patience,         \* the wait's timeout: _IDLE_WAIT_MS or until a frame is due
    typed, taken,     \* inputs ever queued; how many have been taken off again
    pending_move,     \* the drain loop's local variable (0: None)
    sent,             \* the inputs given to libfreerdp
    painter, painted, \* FreeRDP's thread; how often it has painted
    copied,           \* the frame last read off the surface
    signals,          \* queued signals to the widget
    gui,              \* the GUI thread
    image, unpainted, \* the widget's _image (0: None) and _frame_unpainted
    failure_shown, modal, finished, closing

inputVars == <<typed, taken, pending_move, sent>>
frameVars == <<got_frame, frame_dirty, frame_in_flight, due, copied>>
widgetVars == <<image, unpainted, failure_shown, modal, finished, closing>>
vars == <<pc, wake, stop_requested, patience, inputVars, frameVars, painter,
          painted, signals, gui, widgetVars>>

Signal(what, frame) == [what |-> what, frame |-> frame]
Emit(what) == signals' = Append(signals, Signal(what, 0))

Init ==
    /\ pc = "connecting" /\ wake = FALSE /\ stop_requested = FALSE
    /\ got_frame = FALSE /\ frame_dirty = FALSE /\ frame_in_flight = FALSE
    /\ due = TRUE /\ patience = "idle"
    /\ typed = <<>> /\ taken = 0 /\ pending_move = 0 /\ sent = <<>>
    /\ painter = "idle" /\ painted = 0 /\ copied = 0
    /\ signals = <<>> /\ gui = "free"
    /\ image = 0 /\ unpainted = FALSE /\ failure_shown = FALSE
    /\ modal = FALSE /\ finished = FALSE /\ closing = FALSE

-------------------------------------------------------------------------------
(* The session thread: _run. *)

SessionFrame == UNCHANGED <<typed, painter, painted, gui, widgetVars,
                            stop_requested>>

\* Mutant of ConnectFails: the exception dies with the thread.
ConnectFailsSilently ==
    /\ pc = "connecting" /\ pc' = "done"
    /\ UNCHANGED <<signals, wake, patience, taken, pending_move, sent, frameVars>>
    /\ SessionFrame

ConnectFails ==
    /\ pc = "connecting" /\ pc' = "done" /\ Emit("error")
    /\ UNCHANGED <<wake, patience, taken, pending_move, sent, frameVars>>
    /\ SessionFrame

Connected ==
    /\ pc = "connecting" /\ pc' = "loop" /\ Emit("connected")
    /\ UNCHANGED <<wake, patience, taken, pending_move, sent, frameVars>>
    /\ SessionFrame

LoopTop ==
    /\ pc = "loop" /\ pc' = IF stop_requested THEN "teardown" ELSE "reset"
    /\ UNCHANGED <<wake, patience, taken, pending_move, sent, frameVars, signals>>
    /\ SessionFrame

\* _wake.reset(), before draining.
ResetWake ==
    /\ pc = "reset" /\ pc' = "drain" /\ wake' = FALSE
    /\ UNCHANGED <<patience, taken, pending_move, sent, frameVars, signals>>
    /\ SessionFrame

\* Mutant of Flushed: a pending move is sent after the event that follows it.
FlushedLate(k) == <<k>> \o (IF pending_move # 0 THEN <<pending_move>> ELSE <<>>)

\* An event other than a move is sent after the move that waited for it.
Flushed(k) == (IF pending_move # 0 THEN <<pending_move>> ELSE <<>>) \o <<k>>

\* Mutant of DrainOne: two events are taken for one.
DrainTwo ==
    /\ pc = "drain" /\ taken < Len(typed)
    /\ taken' = taken + 2
    /\ IF typed[taken + 1] = "move"
       THEN pending_move' = taken + 1 /\ UNCHANGED sent
       ELSE pending_move' = 0 /\ sent' = sent \o Flushed(taken + 1)
    /\ UNCHANGED <<pc, wake, patience, frameVars, signals>> /\ SessionFrame

\* One turn of _drain_input_queue's loop: a move only replaces the pending one.
DrainOne ==
    /\ pc = "drain" /\ taken < Len(typed)
    /\ taken' = taken + 1
    /\ IF typed[taken + 1] = "move"
       THEN pending_move' = taken + 1 /\ UNCHANGED sent
       ELSE pending_move' = 0 /\ sent' = sent \o Flushed(taken + 1)
    /\ UNCHANGED <<pc, wake, patience, frameVars, signals>> /\ SessionFrame

\* queue.Empty: the last move is sent.
DrainEnds ==
    /\ pc = "drain" /\ taken = Len(typed) /\ pc' = "pump"
    /\ sent' = IF pending_move # 0 THEN Append(sent, pending_move) ELSE sent
    /\ pending_move' = 0
    /\ UNCHANGED <<wake, patience, taken, frameVars, signals>> /\ SessionFrame

\* pump_once(): the connection lives or is gone.
Pump ==
    /\ pc = "pump"
    /\ \/ pc' = "deliver" /\ UNCHANGED signals
       \/ /\ pc' = "teardown"
          /\ \/ UNCHANGED signals
             \/ ~got_frame /\ Emit("error")
    /\ UNCHANGED <<wake, patience, taken, pending_move, sent, frameVars>>
    /\ SessionFrame

\* A call into libfreerdp raises: sending input, pumping, copying, waiting.
Raises ==
    /\ pc \in {"drain", "pump", "copy", "wait"}
    /\ pc' = "teardown" /\ Emit("error")
    /\ UNCHANGED <<wake, patience, taken, pending_move, sent, frameVars>>
    /\ SessionFrame

MayDeliver == frame_dirty /\ ~frame_in_flight

\* Mutant of Defer: the event is reset right before the wait.
DeferAndReset ==
    /\ pc = "deliver" /\ ~(MayDeliver /\ due)
    /\ pc' = "wait" /\ patience' = IF MayDeliver THEN "due" ELSE "idle"
    /\ wake' = FALSE
    /\ UNCHANGED <<taken, pending_move, sent, frameVars, signals>>
    /\ SessionFrame

\* _deliver_frame: nothing to send, or not yet; how long to wait is settled.
Defer ==
    /\ pc = "deliver" /\ ~(MayDeliver /\ due)
    /\ pc' = "wait" /\ patience' = IF MayDeliver THEN "due" ELSE "idle"
    /\ UNCHANGED <<wake, taken, pending_move, sent, frameVars, signals>>
    /\ SessionFrame

\* _deliver_frame: the frame is due; the flags change before it is copied.
ClaimFrame ==
    /\ pc = "deliver" /\ MayDeliver /\ due
    /\ pc' = "copy" /\ frame_dirty' = FALSE
    /\ frame_in_flight' = TRUE /\ due' = FALSE
    /\ UNCHANGED <<wake, patience, taken, pending_move, sent, got_frame, copied,
                   signals>>
    /\ SessionFrame

\* get_frame(), under FreeRDP's update lock, and frame_ready.
CopyFrame ==
    /\ pc = "copy" /\ pc' = "wait" /\ patience' = "idle"
    /\ copied' = painted
    /\ signals' = Append(signals, Signal("frame", painted))
    /\ UNCHANGED <<wake, taken, pending_move, sent, got_frame, frame_dirty,
                   frame_in_flight, due>>
    /\ SessionFrame

\* wait_for_activity returns: woken, on network data, or after its timeout.
WaitEnds ==
    /\ pc = "wait" /\ pc' = "loop"
    /\ UNCHANGED <<wake, patience, taken, pending_move, sent, frameVars, signals>>
    /\ SessionFrame

\* finally: disconnect() (which ends FreeRDP's threads), close the event, emit.
Teardown ==
    /\ pc = "teardown" /\ painter = "idle"
    /\ pc' = "done" /\ Emit("disconnected")
    /\ UNCHANGED <<wake, patience, taken, pending_move, sent, frameVars>>
    /\ SessionFrame

\* Time passes.
IntervalPasses ==
    /\ ~due /\ pc # "done" /\ due' = TRUE
    /\ UNCHANGED <<pc, wake, patience, taken, pending_move, sent, got_frame,
                   frame_dirty, frame_in_flight, copied, signals>>
    /\ SessionFrame

SessionThread ==
    \/ ConnectFails \/ Connected \/ LoopTop \/ ResetWake \/ DrainOne \/ DrainEnds
    \/ Pump \/ Raises \/ Defer \/ ClaimFrame \/ CopyFrame \/ WaitEnds \/ Teardown

-------------------------------------------------------------------------------
(* FreeRDP's painting, on its own thread or inside pump_once: _on_frame. *)

PaintFrame == UNCHANGED <<pc, stop_requested, patience, inputVars,
                          frame_in_flight, due, copied, signals, gui, widgetVars>>

Paint ==
    /\ painter = "idle" /\ painted < MaxPaints
    /\ pc \notin {"connecting", "copy", "teardown", "done"}
    /\ painter' = "painted" /\ painted' = painted + 1
    /\ UNCHANGED <<wake, got_frame, frame_dirty>> /\ PaintFrame

\* Mutant of FlagFrame: paints are ignored while a frame is on its way.
FlagUnlessInFlight ==
    /\ painter = "painted" /\ painter' = "flagged"
    /\ got_frame' = TRUE /\ frame_dirty' = (frame_dirty \/ ~frame_in_flight)
    /\ UNCHANGED <<wake, painted>> /\ PaintFrame

FlagFrame ==
    /\ painter = "painted" /\ painter' = "flagged"
    /\ got_frame' = TRUE /\ frame_dirty' = TRUE
    /\ UNCHANGED <<wake, painted>> /\ PaintFrame

WakeForFrame ==
    /\ painter = "flagged" /\ painter' = "idle" /\ wake' = TRUE
    /\ UNCHANGED <<painted, got_frame, frame_dirty>> /\ PaintFrame

Painter == Paint \/ FlagFrame \/ WakeForFrame

-------------------------------------------------------------------------------
(* The GUI thread. *)

GuiFrame == UNCHANGED <<pc, patience, taken, pending_move, sent, got_frame,
                        frame_dirty, due, copied, painter, painted>>

\* send_mouse_move, send_key_...: put the event on the queue, then wake.
QueueInput(kind) ==
    /\ gui = "free" /\ ~closing /\ ~modal /\ Len(typed) < MaxInputs
    /\ typed' = Append(typed, kind) /\ gui' = "waking"
    /\ UNCHANGED <<wake, stop_requested, frame_in_flight, signals, widgetVars>>
    /\ GuiFrame

\* _wake.set() (nothing, once the session thread has closed the event).
SetWake ==
    /\ gui = "waking" /\ gui' = "free"
    /\ wake' = TRUE
    /\ UNCHANGED <<typed, stop_requested, frame_in_flight, signals, widgetVars>>
    /\ GuiFrame

\* _on_frame_ready.
TakeFrame ==
    /\ gui = "free" /\ signals # <<>> /\ Head(signals).what = "frame"
    /\ signals' = Tail(signals)
    /\ image' = Head(signals).frame /\ unpainted' = TRUE
    /\ UNCHANGED <<gui, typed, wake, stop_requested, frame_in_flight,
                   failure_shown, modal, finished, closing>>
    /\ GuiFrame

\* Mutant of PaintEvent: the worker is not told that the frame was taken.
PaintUntold ==
    /\ gui = "free" /\ unpainted /\ ~closing
    /\ unpainted' = FALSE /\ gui' = "waking"
    /\ UNCHANGED <<typed, wake, stop_requested, frame_in_flight, signals, image,
                   failure_shown, modal, finished, closing>>
    /\ GuiFrame

\* paintEvent: the frame is on screen; frame_consumed() clears, then wakes.
PaintEvent ==
    /\ gui = "free" /\ unpainted /\ ~closing
    /\ unpainted' = FALSE /\ frame_in_flight' = FALSE /\ gui' = "waking"
    /\ UNCHANGED <<typed, wake, stop_requested, signals, image, failure_shown,
                   modal, finished, closing>>
    /\ GuiFrame

\* _on_connected hides the label and sends the clipboard (an input like others).
OnConnected ==
    /\ gui = "free" /\ signals # <<>> /\ Head(signals).what = "connected"
    /\ signals' = Tail(signals)
    /\ IF Len(typed) < MaxInputs
       THEN typed' = Append(typed, "clipboard") /\ gui' = "waking"
       ELSE UNCHANGED <<typed, gui>>
    /\ UNCHANGED <<wake, stop_requested, frame_in_flight, widgetVars>> /\ GuiFrame

\* close_session(): _closing, then stop(), which joins for at most 5 seconds.
CloseSession ==
    /\ closing' = TRUE /\ stop_requested' = TRUE /\ wake' = TRUE
    /\ gui' = "joining"

\* _emit_finished_once: the view's handler closes the session.
EmitFinishedOnce ==
    IF closing \/ finished
    THEN UNCHANGED <<finished, closing, stop_requested, wake, gui>>
    ELSE finished' = TRUE /\ CloseSession

\* _on_error, and _on_disconnected before the first frame: a modal box, whose
\* event loop goes on delivering signals, comes before `finished`.
ReportsFailure(s) ==
    /\ ~closing
    /\ s = "error" \/ (s = "disconnected" /\ image = 0 /\ ~failure_shown)

OnEnded ==
    /\ gui = "free" /\ signals # <<>>
    /\ Head(signals).what \in {"error", "disconnected"}
    /\ signals' = Tail(signals)
    /\ IF ReportsFailure(Head(signals).what)
       THEN /\ failure_shown' = TRUE /\ modal' = TRUE
            /\ UNCHANGED <<finished, closing, stop_requested, wake, gui>>
       ELSE EmitFinishedOnce /\ UNCHANGED <<failure_shown, modal>>
    /\ UNCHANGED <<typed, frame_in_flight, image, unpainted>> /\ GuiFrame

\* The user dismisses the message box.
Dismiss ==
    /\ gui = "free" /\ modal /\ modal' = FALSE
    /\ EmitFinishedOnce
    /\ UNCHANGED <<typed, frame_in_flight, signals, image, unpainted, failure_shown>>
    /\ GuiFrame

UserCloses ==
    /\ gui = "free" /\ ~closing /\ ~modal /\ CloseSession
    /\ UNCHANGED <<typed, frame_in_flight, signals, image, unpainted,
                   failure_shown, modal, finished>>
    /\ GuiFrame

\* join() returns: the thread is done, or five seconds have passed.
JoinEnds ==
    /\ gui = "joining" /\ gui' = "free"
    /\ UNCHANGED <<typed, wake, stop_requested, frame_in_flight, signals,
                   widgetVars>>
    /\ GuiFrame

DeliverSignal == TakeFrame \/ OnConnected \/ OnEnded

Gui == \/ SetWake \/ DeliverSignal \/ PaintEvent \/ Dismiss \/ UserCloses \/ JoinEnds
       \/ \E kind \in {"move", "key"} : QueueInput(kind)

Next == SessionThread \/ IntervalPasses \/ Painter \/ Gui

Spec == Init /\ [][Next]_vars

\* Threads are scheduled, libfreerdp's calls return, waits time out, the tab is
\* in front (so Qt paints it) and the user dismisses a message box.
Fairness ==
    /\ WF_vars(SessionThread) /\ WF_vars(IntervalPasses)
    /\ WF_vars(FlagFrame \/ WakeForFrame)
    /\ WF_vars(SetWake) /\ WF_vars(DeliverSignal) /\ WF_vars(PaintEvent)
    /\ WF_vars(Dismiss) /\ WF_vars(JoinEnds)

FairSpec == Spec /\ Fairness

-------------------------------------------------------------------------------
(* Properties. *)

\* Every variable keeps its type.
TypeOK ==
    /\ pc \in {"connecting", "loop", "reset", "drain", "pump", "deliver", "copy",
               "wait", "teardown", "done"}
    /\ {wake, stop_requested, got_frame, frame_dirty, frame_in_flight, due,
        unpainted, failure_shown, modal, finished, closing} \subseteq BOOLEAN
    /\ patience \in {"idle", "due"}
    /\ typed \in Seq({"move", "key", "clipboard"}) /\ taken \in 0..Len(typed)
    /\ pending_move \in 0..taken /\ sent \in Seq(1..Len(typed))
    /\ painter \in {"idle", "painted", "flagged"} /\ painted \in Nat
    /\ copied \in 0..painted /\ image \in 0..painted
    /\ signals \in Seq([what : {"connected", "error", "disconnected", "frame"},
                        frame : Nat])
    /\ gui \in {"free", "waking", "joining"}

\* Input reaches the remote desktop in the order it was queued, and the only
\* events left out are moves with another move right behind them: no click or
\* key ever overtakes the move before it, and none is lost or doubled.
InputsInOrder ==
    /\ \A i \in 1..(Len(sent) - 1) : sent[i] < sent[i + 1]
    /\ \A k \in 1..taken :
         \/ k = pending_move
         \/ \E i \in 1..Len(sent) : sent[i] = k
         \/ /\ typed[k] = "move"
            /\ k < taken /\ typed[k + 1] = "move"

\* The session thread never sleeps on work: while it waits its idle timeout and
\* the event is clear, no input is queued and no frame can be delivered, except
\* by a thread that is about to set the event.
NoLostWakeup ==
    pc = "wait" /\ patience = "idle" /\ ~wake =>
        /\ taken < Len(typed) => gui = "waking"
        /\ MayDeliver => gui = "waking" \/ painter = "flagged"

\* The worker's own comment on _wake: "Interrupts the pump's wait (see _run)
\* whenever there's input to send, a frame to deliver, or a stop to act on."
\* (Violated: a stop between the loop's test and the reset has its wake erased.)
StopInterruptsWait == pc = "wait" /\ stop_requested => wake

\* Once FreeRDP has flagged its paints, a surface that is not flagged has been
\* copied, or is about to be ...
NewestFrameKept ==
    ~frame_dirty /\ painter # "painted" /\ pc \notin {"copy", "teardown", "done"}
        => copied = painted

\* ... and however far the GUI falls behind, one copied frame waits for it.
OneFrameInFlight ==
    Cardinality({i \in 1..Len(signals) : signals[i].what = "frame"})
      + (IF unpainted THEN 1 ELSE 0) <= 1

\* The hand-over of frames from FreeRDP to the GUI, on three threads: no paint
\* falls between two frames, and no backlog of frames builds up.
FrameHandover == NewestFrameKept /\ OneFrameInFlight

\* Whatever has been painted is shown, or something newer, while the session
\* lives and its tab is in front.
LatestFrameShown ==
    \A k \in 1..MaxPaints :
        (painted = k) ~> (image >= k \/ pc \in {"teardown", "done"} \/ closing)

\* The tab and its session end together: a session that ends, connected or not,
\* is reported (the tab does not stay on "Connecting..." or on its last picture),
\* and closing the tab ends the session thread.
EndIsReported == (pc = "done") ~> closing
WorkerStops == closing ~> (pc = "done")
EndTogether == EndIsReported /\ WorkerStops
===============================================================================

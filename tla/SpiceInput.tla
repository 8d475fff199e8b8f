----------------------------- MODULE SpiceInput -----------------------------
(***************************************************************************)
(* Pointer input of an embedded SPICE session                              *)
(* (core/spice/spice_session_runner.py, widgets/spice_widget.py).          *)
(*                                                                         *)
(* Two threads touch the state.  The calling thread (Qt's, or the pump of  *)
(* the Linux helper) runs send_mouse_move and send_mouse_button, one event *)
(* at a time; the thread of the GLib loop runs the callbacks the caller    *)
(* queued with GLib.idle_add, in order, and talks to the server.  A burst  *)
(* of moves is coalesced: one flush is queued at a time, and it sends the  *)
(* position it finds.  Each read and each write of an attribute is a step. *)
(*                                                                         *)
(* Positions are numbered in the order the user moved through them.        *)
(***************************************************************************)
EXTENDS Naturals, Sequences

CONSTANT MaxMoves       \* bound of the model: events of the user

ASSUME MaxMovesAssumption == MaxMoves \in Nat

VARIABLES
  caller,       \* [pc, kind]: where the calling thread is in its event
  pendingPos,   \* _pending_mouse_pos
  scheduled,    \* _mouse_move_idle_scheduled
  idle,         \* callbacks queued with GLib.idle_add
  loop,         \* "wait", or "flush" between the two halves of a flush
  channel,      \* the inputs channel of the server is there
  held,         \* _button_mask, of the one button modelled
  guestPos,     \* where the guest's pointer is
  click,        \* the last click given to the guest: [want, at]
  openedAt      \* the newest position when the channel came up

inputVars == <<caller, pendingPos, scheduled, idle, loop, channel, held, guestPos,
          click, openedAt>>

Positions == 0..MaxMoves
Clicks    == {"press", "release"}
Kinds     == Clicks \union {"move"}
Flush     == [kind |-> "flush", pos |-> 0]
Callbacks == {Flush} \union [kind : Clicks, pos : Positions]
CallerPCs == {"rest", "test", "set", "add", "click"}

InputTypeOK ==
  /\ caller \in [pc : CallerPCs, kind : Kinds]
  /\ caller.pc = "click" => caller.kind \in Clicks
  /\ pendingPos \in Positions
  /\ scheduled \in BOOLEAN
  /\ idle \in Seq(Callbacks)
  /\ loop \in {"wait", "flush"}
  /\ channel \in BOOLEAN
  /\ held \in BOOLEAN
  /\ guestPos \in Positions
  /\ click \in [want : Positions, at : Positions]
  /\ openedAt \in Positions

InputInit ==
  /\ caller = [pc |-> "rest", kind |-> "move"]
  /\ pendingPos = 0
  /\ scheduled = FALSE
  /\ idle = <<>>
  /\ loop = "wait"
  /\ channel = FALSE
  /\ held = FALSE
  /\ guestPos = 0
  /\ click = [want |-> 0, at |-> 0]
  /\ openedAt = 0

-----------------------------------------------------------------------------
(* The calling thread.  Every mouse event of the widget begins with        *)
(* send_mouse_move, whose first statement stores the position.             *)

MouseEvent(kind) ==
  /\ caller.pc = "rest"
  /\ pendingPos < MaxMoves
  /\ pendingPos' = pendingPos + 1
  /\ caller' = [pc |-> "test", kind |-> kind]
  /\ UNCHANGED <<scheduled, idle, loop, channel, held, guestPos, click, openedAt>>

AfterMove == [caller EXCEPT !.pc = IF caller.kind = "move" THEN "rest" ELSE "click"]

TestScheduled ==
  /\ caller.pc = "test"
  /\ caller' = IF scheduled THEN AfterMove ELSE [caller EXCEPT !.pc = "set"]
  /\ UNCHANGED <<pendingPos, scheduled, idle, loop, channel, held, guestPos, click, openedAt>>

SetScheduled ==
  /\ caller.pc = "set"
  /\ scheduled' = TRUE
  /\ caller' = [caller EXCEPT !.pc = "add"]
  /\ UNCHANGED <<pendingPos, idle, loop, channel, held, guestPos, click, openedAt>>

AddFlush ==
  /\ caller.pc = "add"
  /\ idle' = Append(idle, Flush)
  /\ caller' = AfterMove
  /\ UNCHANGED <<pendingPos, scheduled, loop, channel, held, guestPos, click, openedAt>>

\* send_mouse_button: never coalesced, one callback for each.
SendMouseButton ==
  /\ caller.pc = "click"
  /\ idle' = Append(idle, [kind |-> caller.kind, pos |-> pendingPos])
  /\ caller' = [caller EXCEPT !.pc = "rest"]
  /\ UNCHANGED <<pendingPos, scheduled, loop, channel, held, guestPos, click, openedAt>>

-----------------------------------------------------------------------------
(* The thread of the GLib loop.                                            *)

\* SpiceSession._on_channel_new, for the inputs channel.
ChannelUp ==
  /\ loop = "wait" /\ ~channel
  /\ channel' = TRUE
  /\ openedAt' = pendingPos
  /\ UNCHANGED <<caller, pendingPos, scheduled, idle, loop, held, guestPos, click>>

NextIs(kinds) == loop = "wait" /\ idle # <<>> /\ Head(idle).kind \in kinds

\* Mutant of FlushClears: the flag is left set.
FlushKeepsFlag ==
  /\ NextIs({"flush"})
  /\ idle' = Tail(idle)
  /\ loop' = "flush"
  /\ UNCHANGED <<caller, pendingPos, scheduled, channel, held, guestPos, click, openedAt>>

\* _flush_mouse_move clears the flag before it reads the position ...
FlushClears ==
  /\ NextIs({"flush"})
  /\ idle' = Tail(idle)
  /\ scheduled' = FALSE
  /\ loop' = "flush"
  /\ UNCHANGED <<caller, pendingPos, channel, held, guestPos, click, openedAt>>

\* ... and SpiceSession.send_mouse_move drops it while there is no channel.
FlushSends ==
  /\ loop = "flush"
  /\ loop' = "wait"
  /\ guestPos' = IF channel THEN pendingPos ELSE guestPos
  /\ UNCHANGED <<caller, pendingPos, scheduled, idle, channel, held, click, openedAt>>

\* SpiceSession.send_mouse_button.
ButtonCallback ==
  /\ NextIs(Clicks)
  /\ idle' = Tail(idle)
  /\ IF channel
     THEN /\ held' = (Head(idle).kind = "press")
          /\ click' = [want |-> Head(idle).pos, at |-> guestPos]
     ELSE UNCHANGED <<held, click>>
  /\ UNCHANGED <<caller, pendingPos, scheduled, loop, channel, guestPos, openedAt>>

CallerStep == TestScheduled \/ SetScheduled \/ AddFlush \/ SendMouseButton
LoopStep   == FlushClears \/ FlushSends \/ ButtonCallback

InputNext ==
  \/ \E kind \in Kinds : MouseEvent(kind)
  \/ CallerStep
  \/ ChannelUp
  \/ LoopStep

InputSpec == InputInit /\ [][InputNext]_inputVars

-----------------------------------------------------------------------------
FlushQueued == \E i \in DOMAIN idle : idle[i] = Flush

(* A flush that will still read the pending position is on its way.        *)
OnItsWay ==
  \/ caller.pc \in {"test", "set", "add"}
  \/ FlushQueued
  \/ loop = "flush"

(* Coalescing loses no position that matters: a pointer of the guest that  *)
(* is behind the user's always has a flush on its way (no interleaving of  *)
(* the flag's test, set and clear leaves the last move unsent) ...         *)
NewestIsSent ==
  channel /\ openedAt < pendingPos /\ guestPos < pendingPos => OnItsWay

(* ... and no button press or release acts at a position older than the    *)
(* one the user made it at, although its own move may have been coalesced  *)
(* into a flush queued for an earlier one.  (Both are about events made    *)
(* after the server's inputs channel came up: what was sent before is      *)
(* dropped by the code.)                                                   *)
ClickInPlace == openedAt < click.want => click.want <= click.at

PointerNeverBehind == NewestIsSent /\ ClickInPlace
=============================================================================

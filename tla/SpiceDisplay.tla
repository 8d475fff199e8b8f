---------------------------- MODULE SpiceDisplay ----------------------------
(***************************************************************************)
(* The picture of an embedded SPICE session: the rows SpiceSession marks   *)
(* dirty, the throttle of SpiceSessionRunner, the frames queued for the    *)
(* widget and the canvas it keeps (core/spice/spice_session.py,            *)
(* core/spice/spice_session_runner.py, widgets/spice_widget.py).           *)
(*                                                                         *)
(* Every handler of the server's signals runs to its end on the loop       *)
(* thread, so it is one action; the widget takes the frames later, on      *)
(* Qt's thread, in the order they were emitted.  The content of a row is   *)
(* the number of the paint that drew it.                                   *)
(***************************************************************************)
EXTENDS Naturals, Sequences, SequencesExt

CONSTANTS
  Heights,      \* the heights of the guest's resolutions
  MaxPaints     \* bound of the model: paints and resolution changes

\* Of the constants; an ASSUME of the module that instantiates this one.
HeightsAssumption == Heights \subseteq Nat \ {0}
PaintsAssumption == MaxPaints \in Nat

VARIABLES
  surface,          \* [up, rows]: _imgdata is there, and what it holds
  dirty,            \* _dirty_rows: {} for None, else an interval of rows
  recent,           \* less than an interval since _last_emit_at
  timeoutPending,   \* _frame_timeout_pending
  frames,           \* frame_ready signals not delivered yet
  canvas,           \* the widget's _canvas; <<>> before the first frame
  paints            \* how many paints there have been

vars == <<surface, dirty, recent, timeoutPending, frames, canvas, paints>>

MaxOf(S)   == CHOOSE n \in S : \A m \in S : m <= n
Versions   == 0..MaxPaints
IsPicture(p) == \E h \in Heights : p \in [1..h -> Versions]

IsFrame(f) ==
  /\ IsPicture(f.canvas)
  /\ f.band \subseteq DOMAIN f.canvas

TypeOK ==
  /\ surface.up \in BOOLEAN
  /\ (IsPicture(surface.rows) \/ surface.rows = <<>>)
  /\ dirty \subseteq DOMAIN surface.rows
  /\ recent \in BOOLEAN
  /\ timeoutPending \in BOOLEAN
  /\ \A i \in DOMAIN frames : IsFrame(frames[i])
  /\ (IsPicture(canvas) \/ canvas = <<>>)
  /\ paints \in Versions

Init ==
  /\ surface = [up |-> FALSE, rows |-> <<>>]
  /\ dirty = {}
  /\ recent = FALSE
  /\ timeoutPending = FALSE
  /\ frames = <<>>
  /\ canvas = <<>>
  /\ paints = 0

-----------------------------------------------------------------------------
\* Mutant of Span: the bottom of the interval is one row too low.
SpanPastEnd(S) == {r \in 1..(MaxOf(S) + 1) : \E a \in S : a <= r}

(* The smallest interval that holds both: _on_invalidate keeps the minimum *)
(* of the tops and the maximum of the bottoms.                             *)
Span(S) == {r \in 1..MaxOf(S) : \E a \in S : a <= r}

(* get_dirty_band and _pop_dirty_rows: no interval means the whole frame.  *)
Band(s, rows) ==
  [band |-> IF rows = {} THEN DOMAIN s.rows ELSE rows, canvas |-> s.rows]

(* _emit_frame, with the surface and the rows the handler leaves behind:   *)
(* without a surface get_dirty_band raises and nothing is popped.          *)
EmitFrame(s, rows) ==
  /\ recent' = TRUE
  /\ frames' = IF s.up THEN Append(frames, Band(s, rows)) ELSE frames
  /\ dirty'  = IF s.up THEN {} ELSE rows

(* _on_frame: emit now, or once the interval is over.                      *)
OnFrame(s, rows) ==
  IF ~recent
  THEN EmitFrame(s, rows) /\ UNCHANGED timeoutPending
  ELSE /\ timeoutPending' = TRUE
       /\ dirty' = rows
       /\ UNCHANGED <<recent, frames>>

\* _on_primary_create: a new surface, all of it dirty.
PrimaryCreate(h) ==
  /\ ~surface.up
  /\ paints < MaxPaints
  /\ paints' = paints + 1
  /\ surface' = [up |-> TRUE, rows |-> [r \in 1..h |-> paints + 1]]
  /\ OnFrame(surface', 1..h)
  /\ UNCHANGED canvas

\* _on_primary_destroy: the guest changes its resolution.
PrimaryDestroy ==
  /\ surface.up
  /\ surface' = [surface EXCEPT !.up = FALSE]
  /\ dirty' = {}
  /\ UNCHANGED <<recent, timeoutPending, frames, canvas, paints>>

\* Mutant of Invalidate: the newest rows replace those not sent yet.
InvalidateOnly(top, bottom) ==
  /\ surface.up
  /\ paints < MaxPaints
  /\ paints' = paints + 1
  /\ surface' = [surface EXCEPT !.rows =
       [r \in DOMAIN @ |-> IF r \in top..bottom THEN paints + 1 ELSE @[r]]]
  /\ OnFrame(surface', top..bottom)
  /\ UNCHANGED canvas

\* The server draws rows top..bottom and signals it: _on_invalidate.
Invalidate(top, bottom) ==
  /\ surface.up
  /\ paints < MaxPaints
  /\ paints' = paints + 1
  /\ surface' = [surface EXCEPT !.rows =
       [r \in DOMAIN @ |-> IF r \in top..bottom THEN paints + 1 ELSE @[r]]]
  /\ OnFrame(surface', Span(dirty \union top..bottom))
  /\ UNCHANGED canvas

\* _on_frame_timeout.
FrameTimeout ==
  /\ timeoutPending
  /\ timeoutPending' = FALSE
  /\ EmitFrame(surface, dirty)
  /\ UNCHANGED <<surface, canvas, paints>>

\* _TARGET_FRAME_INTERVAL_SEC goes by.
IntervalPasses ==
  /\ recent
  /\ recent' = FALSE
  /\ UNCHANGED <<surface, dirty, timeoutPending, frames, canvas, paints>>

-----------------------------------------------------------------------------
(* SpiceWidget._on_frame_ready: a canvas of another size is replaced by an *)
(* empty one (version 0), then the band is drawn into it.                  *)
Blank(h) == [r \in 1..h |-> 0]

Drawn(picture, frame) ==
  LET old == IF DOMAIN picture = DOMAIN frame.canvas
             THEN picture ELSE Blank(Len(frame.canvas))
  IN  [r \in DOMAIN old |-> IF r \in frame.band THEN frame.canvas[r] ELSE old[r]]

FrameReady ==
  /\ frames # <<>>
  /\ canvas' = Drawn(canvas, Head(frames))
  /\ frames' = Tail(frames)
  /\ UNCHANGED <<surface, dirty, recent, timeoutPending, paints>>

Next ==
  \/ \E h \in Heights : PrimaryCreate(h)
  \/ PrimaryDestroy
  \/ \E bottom \in DOMAIN surface.rows : \E top \in 1..bottom : Invalidate(top, bottom)
  \/ FrameTimeout
  \/ IntervalPasses
  \/ FrameReady

Spec == Init /\ [][Next]_vars

-----------------------------------------------------------------------------
(* What the canvas will show once the frames on their way are drawn.       *)
Coming == FoldLeft(Drawn, canvas, frames)

(* No row of the guest's screen is left out of date: whatever the throttle *)
(* skipped, however the dirty rows of several paints were merged and       *)
(* whichever change of resolution came in between, a row the canvas will   *)
(* not show as it is has been kept as dirty, and a timeout that takes it   *)
(* is pending.                                                             *)
PictureArrives ==
  surface.up =>
    \A r \in DOMAIN surface.rows :
      \/ DOMAIN Coming = DOMAIN surface.rows /\ Coming[r] = surface.rows[r]
      \/ r \in dirty /\ timeoutPending
=============================================================================

----------------------------- MODULE RdpPicture -----------------------------
(***************************************************************************)
(* The picture of one RDP session from the worker's frames to the screen:  *)
(* RdpWidget (widgets/rdp_widget.py), which paints with QPainter, and the  *)
(* RdpGpuView above it (rdp_gpu_view.py), which draws on the GPU until it  *)
(* gives up.                                                               *)
(*                                                                         *)
(* The worker has one frame in flight and sends the next one when that has *)
(* been drawn, so whoever has the frame must draw it.  RdpSessionWorker    *)
(* has the worker's threads, with the widget alone; here a frame is sent   *)
(* in one step.  Frames are numbered as the server paints them.            *)
(***************************************************************************)
EXTENDS Naturals, Sequences

CONSTANTS
  MaxPicturePaints,   \* bounds of the model: of what the server paints,
  MaxPictureEvents    \* and of what befalls the widget

ASSUME PictureAssumption ==
  MaxPicturePaints \in Nat /\ MaxPictureEvents \in Nat

VARIABLES
  painted,      \* how often the server has painted
  frameDirty, inFlight,  \* the worker's _frame_dirty and _frame_in_flight
  rdpFrames,    \* queued signals frame_ready
  image,        \* _image, 0 where it is None
  unpainted,    \* _frame_unpainted
  paintDue,     \* a paint event is to come, once the widget can be seen
  gpuView,      \* _gpu_view: "none", or one that is "hidden" or "shown"
  imageDirty,   \* its _image_dirty
  renderDue,    \* update() has been called for it
  rhi,          \* it has a QRhi and a pipeline
  texture,      \* the frame its texture holds, 0 for the placeholder
  exposed,      \* the tab is in front
  screen,       \* the frame that can be seen
  failureShown, \* _failure_shown
  blanked,      \* history: a new QRhi has had no frame yet
  again,        \* history: a frame was consumed that had been before
  viewEvents

gpuVars == <<gpuView, imageDirty, renderDue, rhi, texture>>
rdpWidgetVars == <<image, unpainted, paintDue, failureShown>>
rdpWorkerVars == <<painted, frameDirty, inFlight, rdpFrames>>
pictureHistory == <<blanked, again, viewEvents>>
pictureVars ==
  <<rdpWorkerVars, rdpWidgetVars, gpuVars, exposed, screen, pictureHistory>>

FrameNumbers == 0..MaxPicturePaints

PictureTypeOK ==
  /\ painted \in FrameNumbers /\ image \in FrameNumbers
  /\ texture \in FrameNumbers /\ screen \in FrameNumbers
  /\ rdpFrames \in Seq(FrameNumbers)
  /\ gpuView \in {"none", "hidden", "shown"}
  /\ {frameDirty, inFlight, unpainted, paintDue, imageDirty, renderDue, rhi,
      exposed, failureShown, blanked, again} \subseteq BOOLEAN
  /\ viewEvents \in 0..MaxPictureEvents

\* gpu_rendering_usable decides whether there is a view at all.
PictureInit ==
  /\ painted = 0 /\ frameDirty = FALSE /\ inFlight = FALSE /\ rdpFrames = <<>>
  /\ image = 0 /\ unpainted = FALSE /\ paintDue = FALSE /\ failureShown = FALSE
  /\ gpuView \in {"none", "hidden"} /\ imageDirty = FALSE /\ renderDue = FALSE
  /\ rhi = FALSE /\ texture = 0
  /\ exposed = TRUE /\ screen = 0
  /\ blanked = FALSE /\ again = FALSE /\ viewEvents = 0

PictureEvent == viewEvents < MaxPictureEvents /\ viewEvents' = viewEvents + 1

-----------------------------------------------------------------------------
(* The worker.                                                             *)

\* _on_frame.
Paints ==
  /\ painted < MaxPicturePaints /\ painted' = painted + 1
  /\ frameDirty' = TRUE
  /\ UNCHANGED <<inFlight, rdpFrames, rdpWidgetVars, gpuVars, exposed, screen,
                 pictureHistory>>

\* _deliver_frame.
Delivers ==
  /\ frameDirty /\ ~inFlight
  /\ frameDirty' = FALSE /\ inFlight' = TRUE
  /\ rdpFrames' = Append(rdpFrames, painted)
  /\ UNCHANGED <<painted, rdpWidgetVars, gpuVars, exposed, screen,
                 pictureHistory>>

-----------------------------------------------------------------------------
(* The widget.                                                             *)

\* _on_frame_ready.
OnFrameReady ==
  /\ rdpFrames # <<>> /\ rdpFrames' = Tail(rdpFrames) /\ image' = Head(rdpFrames)
  /\ IF gpuView # "none" /\ ~failureShown
     THEN /\ gpuView' = "shown" /\ imageDirty' = TRUE /\ renderDue' = TRUE
          /\ UNCHANGED <<unpainted, paintDue>>
     ELSE /\ unpainted' = TRUE /\ paintDue' = TRUE
          /\ UNCHANGED <<gpuView, imageDirty, renderDue>>
  /\ UNCHANGED <<painted, frameDirty, inFlight, failureShown, rhi, texture,
                 exposed, screen, pictureHistory>>

\* paintEvent.
PaintEvent ==
  /\ paintDue /\ exposed /\ paintDue' = FALSE
  /\ IF image = 0 \/ gpuView = "shown"
     THEN UNCHANGED <<screen, unpainted, inFlight, again, blanked>>
     ELSE /\ screen' = image /\ unpainted' = FALSE /\ blanked' = FALSE
          /\ inFlight' = (inFlight /\ ~unpainted)
          /\ again' = (again \/ (unpainted /\ rdpFrames # <<>>))
  /\ UNCHANGED <<painted, frameDirty, rdpFrames, image, failureShown, gpuVars,
                 exposed, viewEvents>>

\* Another tab comes to the front, or this one again: all of it is redrawn.
TabChanges ==
  /\ PictureEvent /\ exposed' = ~exposed
  /\ paintDue' = (paintDue \/ exposed') /\ renderDue' = (renderDue \/ exposed')
  /\ UNCHANGED <<rdpWorkerVars, image, unpainted, failureShown, gpuView,
                 imageDirty, rhi, texture, screen, blanked, again>>

\* _show_failure: the session is over.
ShowFailure ==
  /\ PictureEvent /\ ~failureShown /\ failureShown' = TRUE
  /\ gpuView' = IF gpuView = "none" THEN "none" ELSE "hidden"
  /\ paintDue' = TRUE
  /\ UNCHANGED <<rdpWorkerVars, image, unpainted, imageDirty, renderDue, rhi,
                 texture, exposed, screen, blanked, again>>

-----------------------------------------------------------------------------
(* The view.                                                               *)

\* Mutant of GpuGivesUp: the frame is not handed back to the widget.
GpuGivesUpAlone ==
  /\ gpuView' = "none" /\ imageDirty' = FALSE /\ renderDue' = FALSE
  /\ rhi' = FALSE /\ texture' = 0 /\ UNCHANGED unpainted /\ paintDue' = TRUE

\* _give_up, with _on_gpu_unavailable.
GpuGivesUp ==
  /\ gpuView' = "none" /\ imageDirty' = FALSE /\ renderDue' = FALSE
  /\ rhi' = FALSE /\ texture' = 0
  /\ unpainted' = (image # 0) /\ paintDue' = TRUE

Rendering == gpuView = "shown" /\ exposed /\ renderDue

\* _initialize, with _create_pipeline.
Initialize ==
  /\ Rendering /\ ~rhi /\ rhi' = TRUE /\ texture' = 0
  /\ UNCHANGED <<rdpWorkerVars, rdpWidgetVars, gpuView, imageDirty, renderDue,
                 exposed, screen, pictureHistory>>

\* No renderer, a software one, or any error.
InitializeFails ==
  /\ PictureEvent /\ Rendering /\ GpuGivesUp
  /\ UNCHANGED <<rdpWorkerVars, image, failureShown, exposed, screen, blanked,
                 again>>

\* _render: a new frame is uploaded, and has been consumed once it is drawn.
RenderFrame ==
  /\ Rendering /\ rhi /\ renderDue' = FALSE
  /\ texture' = (IF imageDirty THEN image ELSE texture) /\ screen' = texture'
  /\ imageDirty' = FALSE /\ inFlight' = (inFlight /\ ~imageDirty)
  /\ blanked' = (blanked /\ ~imageDirty)
  /\ UNCHANGED <<painted, frameDirty, rdpFrames, rdpWidgetVars, gpuView, rhi,
                 exposed, again, viewEvents>>

\* It raises, before or after the upload.
RenderRaises ==
  /\ PictureEvent /\ Rendering /\ rhi /\ GpuGivesUp
  /\ UNCHANGED <<rdpWorkerVars, image, failureShown, exposed, screen, blanked,
                 again>>

\* releaseResources: another window, or the graphics device is lost.
NewRhi ==
  /\ PictureEvent /\ rhi /\ rhi' = FALSE /\ texture' = 0 /\ renderDue' = TRUE
  /\ blanked' = TRUE
  /\ UNCHANGED <<rdpWorkerVars, rdpWidgetVars, gpuView, imageDirty, exposed,
                 screen, again>>

PictureNext ==
  \/ Paints \/ Delivers \/ OnFrameReady \/ PaintEvent \/ TabChanges \/ ShowFailure
  \/ Initialize \/ InitializeFails \/ RenderFrame \/ RenderRaises \/ NewRhi

PictureSpec == PictureInit /\ [][PictureNext]_pictureVars

-----------------------------------------------------------------------------
(* The worker sends no frame until the one in flight has been drawn: it is *)
(* on its way to the widget, or the view will draw it, or the widget will. *)
FrameIsOwed ==
  (inFlight /\ ~failureShown) =>
    \/ rdpFrames # <<>>
    \/ gpuView = "shown" /\ imageDirty /\ renderDue
    \/ gpuView # "shown" /\ unpainted /\ paintDue

(* With nothing left to draw the last picture of the server can be seen,   *)
(* whichever of the two drew it.  (Not after a new QRhi: it shows the      *)
(* placeholder until the next frame, since the last one is not dirty.)     *)
PictureIsNewest ==
  (/\ ~frameDirty /\ rdpFrames = <<>> /\ ~(renderDue /\ gpuView = "shown")
   /\ ~paintDue
   /\ exposed /\ ~failureShown /\ ~blanked) => screen = painted

(* Only one frame is on its way, unless the view gave up after a frame of  *)
(* its own was consumed: the widget consumes that one again.               *)
OneFrameQueued == Len(rdpFrames) > 1 => again

(* Whichever of widget and view draws, fails or is taken over from: a      *)
(* frame on its way is drawn, and the newest one comes to be seen.         *)
FrameArrives == FrameIsOwed /\ PictureIsNewest /\ OneFrameQueued
=============================================================================

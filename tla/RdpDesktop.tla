----------------------------- MODULE RdpDesktop -----------------------------
(***************************************************************************)
(* FreeRdpSession (core/rdp/freerdp_client.py) with its two channels, for  *)
(* the display (disp.py) and for the clipboard (cliprdr.py), as RdpWidget  *)
(* uses them: the context from its creation to its end, the size of the    *)
(* remote desktop, and the text that a paste there is given.               *)
(*                                                                         *)
(* The channels are set up after the connection, each at a time of its     *)
(* own, and requests of the window may come before.  Left out: the input   *)
(* and the frames (RdpSessionWorker), how frames are drawn (RdpPicture),   *)
(* and the tab's closing.  A size is one number; Least is the smallest one *)
(* that a server takes.                                                    *)
(***************************************************************************)
EXTENDS Naturals, Sequences

CONSTANTS
  Sizes, Least,
  Texts, NoText,
  MaxEvents      \* bound of the model: of user, server and failure

\* Of the constants; an ASSUME of the module that instantiates this one.
SizesAssumption == Sizes \subseteq Nat /\ Least \in Sizes
TextsAssumption == NoText \notin Texts

VARIABLES
  window,      \* the widget's size
  fixed,       \* _desktop_size, 0 where it is None
  debounce,    \* _resize_debounce is running
  clipboard,   \* the text of the application's clipboard
  input,       \* the worker's _input_queue, resizes and texts only
  announced,   \* the signal connected: "no", "sent", or "seen" by the widget
  stage,       \* of the session thread
  context,     \* _context is not None
  native,      \* what _context points to, or pointed to
  display,     \* the display channel is bound
  clip,        \* the clipboard channel: "none", "bound", or "ready"
  localText,   \* its _local_text
  offered,     \* the server's: whether there is a text to be had
  framebuffer, \* the size of gdi
  desktop,     \* the server's size,
  layouts,     \* the requests on their way to it,
  resets,      \* and the sizes it reports
  missed,      \* history: the size asked for last was not taken, or not kept
  unreported,  \* history: a request that the server answered with no report
  events

sizeVars == <<framebuffer, desktop, layouts, resets, missed, unreported>>
clipVars == <<clip, localText, offered>>
widgetVars == <<window, debounce, clipboard>>
vars == <<widgetVars, fixed, input, announced, stage, context, native, display,
          clipVars, sizeVars, events>>

Inputs == [kind : {"resize"}, size : Sizes]
          \union [kind : {"text"}, text : Texts \union {NoText}]
Resize(n) == [kind |-> "resize", size |-> n]
Text(t) == [kind |-> "text", text |-> t]

TypeOK ==
  /\ window \in Sizes /\ fixed \in Sizes \union {0}
  /\ {framebuffer, desktop} \subseteq Sizes
  /\ {clipboard, localText} \subseteq Texts \union {NoText}
  /\ input \in Seq(Inputs)
  /\ {layouts, resets} \subseteq Seq(Sizes)
  /\ stage \in {"start", "settings", "size", "channels", "connect", "loop", "over"}
  /\ native \in {"none", "made", "freed"}
  /\ clip \in {"none", "bound", "ready"}
  /\ announced \in {"no", "sent", "seen"}
  /\ {debounce, context, display, offered, missed, unreported}
       \subseteq BOOLEAN
  /\ events \in Nat

\* With no size of its own the connection gets FreeRDP's.
Init ==
  /\ window \in Sizes /\ fixed \in {0, Least} /\ debounce = FALSE
  /\ clipboard \in Texts \union {NoText} /\ input = <<>> /\ announced = "no"
  /\ stage = "start" /\ context = FALSE /\ native = "none"
  /\ display = FALSE /\ clip = "none" /\ localText = NoText /\ offered = FALSE
  /\ framebuffer = Least /\ desktop = Least /\ layouts = <<>> /\ resets = <<>>
  /\ missed = TRUE /\ unreported = FALSE /\ events = 0

Event == events < MaxEvents /\ events' = events + 1

-----------------------------------------------------------------------------
(* The widget, on Qt's thread.                                             *)

sessionVars == <<fixed, stage, context, native, display, clipVars, sizeVars>>

\* resizeEvent.
WindowResized(n) ==
  /\ Event /\ n # window
  /\ window' = n
  /\ debounce' = (debounce \/ fixed = 0)
  /\ UNCHANGED <<clipboard, input, announced, sessionVars>>

\* _send_resize_request, with _target_size.
Request == input' = Append(input, Resize(IF fixed # 0 THEN fixed ELSE window))

Settled ==
  /\ debounce /\ debounce' = FALSE /\ Request
  /\ UNCHANGED <<window, clipboard, announced, sessionVars, events>>

RefreshResolution ==
  /\ Event /\ Request
  /\ UNCHANGED <<widgetVars, announced, sessionVars>>

\* _on_local_clipboard_changed.
Copied(t) ==
  /\ Event /\ t # clipboard
  /\ clipboard' = t
  /\ input' = Append(input, Text(t))
  /\ UNCHANGED <<window, debounce, announced, sessionVars>>

\* _on_connected: what was copied before has not been announced.
OnConnected ==
  /\ announced = "sent" /\ announced' = "seen"
  /\ input' = Append(input, Text(clipboard))
  /\ UNCHANGED <<widgetVars, sessionVars, events>>

-----------------------------------------------------------------------------
(* The session thread.                                                     *)

outside == <<widgetVars, fixed, announced, display, clipVars>>

Free == native' = "freed"

\* connect: _new_context, and then its steps; any may raise.
NewContext ==
  /\ stage = "start"
  /\ \/ /\ stage' = "settings" /\ native' = "made" /\ context' = TRUE
        /\ UNCHANGED events
     \/ /\ Event /\ stage' = "over" /\ UNCHANGED <<native, context>>
  /\ UNCHANGED <<outside, input, sizeVars>>

Advance(from, to) ==
  /\ stage = from /\ stage' = to
  /\ UNCHANGED <<outside, input, context, native, sizeVars, events>>

\* _configure_settings: what it sets is the server's to use.
Configure == Advance("settings", IF fixed = 0 THEN "channels" ELSE "size")

\* _apply_desktop_size.
ApplyDesktopSize == Advance("size", "channels")

\* Subscribing to the channels, and freerdp_client_load_channels.
LoadChannels == Advance("channels", "connect")

\* freerdp_connect, with _on_post_connect, at the size asked for.
FreerdpConnects ==
  /\ stage = "connect" /\ stage' = "loop" /\ announced' = "sent"
  /\ framebuffer' = IF fixed # 0 THEN fixed ELSE framebuffer
  /\ desktop' = framebuffer'
  /\ UNCHANGED <<widgetVars, fixed, display, clipVars, input, context, native,
                 layouts, resets, missed, unreported, events>>

ConnectRaises ==
  /\ Event /\ stage \in {"settings", "size", "channels", "connect"}
  /\ stage' = "over" /\ context' = FALSE /\ Free
  /\ UNCHANGED <<outside, input, sizeVars>>

\* Mutant of Dropped: the framebuffer is resized without the channel.
ResizedAlone(n) ==
  /\ framebuffer' = n /\ missed' = TRUE
  /\ UNCHANGED <<desktop, layouts, resets, unreported>>

\* request_resize, of the session: no server would follow.
Dropped(n) ==
  missed' = TRUE /\ UNCHANGED <<framebuffer, desktop, layouts, resets, unreported>>

\* DisplayChannel.request_resize.
Clamped(n) == IF n < Least THEN Least ELSE n

Asked(n) ==
  /\ framebuffer' = n
  /\ layouts' = Append(layouts, Clamped(n))
  /\ UNCHANGED <<desktop, resets, missed, unreported>>

DrainResize ==
  /\ stage = "loop" /\ input # <<>> /\ Head(input).kind = "resize"
  /\ input' = Tail(input)
  /\ IF display THEN Asked(Head(input).size) ELSE Dropped(Head(input).size)
  /\ UNCHANGED <<outside, stage, context, native, events>>

\* announce_text.
DrainText ==
  /\ stage = "loop" /\ input # <<>> /\ Head(input).kind = "text"
  /\ input' = Tail(input)
  /\ localText' = Head(input).text
  /\ offered' = IF clip = "ready" THEN localText' # NoText ELSE offered
  /\ UNCHANGED <<widgetVars, fixed, announced, stage, context, native, display,
                 clip, sizeVars, events>>

\* disconnect, when the loop ends.
Disconnect ==
  /\ stage = "loop" /\ stage' = "over"
  /\ context' = FALSE /\ Free
  /\ UNCHANGED <<outside, input, sizeVars, events>>

-----------------------------------------------------------------------------
(* The callbacks of FreeRDP.                                               *)

\* _on_channel_connected.
DisplayConnects ==
  /\ stage = "loop" /\ ~display /\ display' = TRUE
  /\ UNCHANGED <<widgetVars, fixed, input, announced, stage, context, native,
                 clipVars, sizeVars, events>>

ClipboardConnects ==
  /\ stage \in {"connect", "loop"} /\ clip = "none" /\ clip' = "bound"
  /\ UNCHANGED <<widgetVars, fixed, input, announced, stage, context, native,
                 display, localText, offered, sizeVars, events>>

\* _on_monitor_ready.
MonitorReady ==
  /\ stage = "loop" /\ clip = "bound" /\ clip' = "ready"
  /\ offered' = (localText # NoText)
  /\ UNCHANGED <<widgetVars, fixed, input, announced, stage, context, native,
                 display, localText, sizeVars, events>>

\* _on_desktop_resize.
DesktopResize ==
  /\ stage = "loop" /\ resets # <<>>
  /\ framebuffer' = Head(resets) /\ resets' = Tail(resets)
  /\ unreported' = FALSE
  /\ UNCHANGED <<outside, input, stage, context, native, desktop, layouts,
                 missed, events>>

-----------------------------------------------------------------------------
(* The server.                                                             *)

serverFrame == <<outside, input, stage, context, native, framebuffer>>

\* It reports the sizes it changes to.
TakesLayout ==
  /\ layouts # <<>> /\ layouts' = Tail(layouts)
  /\ desktop' = Head(layouts)
  /\ resets' = IF desktop' # desktop THEN Append(resets, desktop') ELSE resets
  /\ missed' = FALSE
  /\ unreported' = (unreported \/ (desktop' = desktop /\ framebuffer # desktop))
  /\ UNCHANGED <<serverFrame, events>>

RefusesLayout ==
  /\ Event
  /\ layouts # <<>> /\ layouts' = Tail(layouts)
  /\ missed' = TRUE /\ unreported' = TRUE
  /\ UNCHANGED <<serverFrame, desktop, resets>>

ChangesItself(n) ==
  /\ Event /\ stage = "loop" /\ n # desktop /\ n >= Least
  /\ desktop' = n /\ resets' = Append(resets, n)
  /\ missed' = TRUE
  /\ UNCHANGED <<serverFrame, layouts, unreported>>

-----------------------------------------------------------------------------
Next ==
  \/ Settled \/ RefreshResolution \/ OnConnected
  \/ \E n \in Sizes : WindowResized(n) \/ ChangesItself(n)
  \/ \E t \in Texts \union {NoText} : Copied(t)
  \/ NewContext \/ Configure \/ ApplyDesktopSize \/ LoadChannels \/ FreerdpConnects \/ ConnectRaises
  \/ DrainResize \/ DrainText \/ Disconnect
  \/ DisplayConnects \/ ClipboardConnects \/ MonitorReady \/ DesktopResize
  \/ TakesLayout \/ RefusesLayout

Spec == Init /\ [][Next]_vars

-----------------------------------------------------------------------------
Queued(kind) == \E i \in DOMAIN input : input[i].kind = kind

(* A context is given back on every way that a connection can end, and is  *)
(* not used once it has been.                                              *)
ContextEnds ==
  /\ (stage = "over") => native # "made"
  /\ context <=> native = "made"

(* What FreeRDP paints into is as large as what the server sends, as soon  *)
(* as nothing is on its way, whatever the window asked for before the      *)
(* channel was there.  (Not after a request that changed nothing at the    *)
(* server: the framebuffer has been resized, and nothing resizes it back.) *)
BufferFits ==
  (stage = "loop" /\ layouts = <<>> /\ resets = <<>> /\ ~unreported)
    => framebuffer = desktop

(* The desktop comes to have the window's size, unless the last request    *)
(* was dropped, because the channel was not there, or refused.             *)
SizeFollows ==
  (/\ stage = "loop" /\ fixed = 0 /\ ~debounce /\ ~Queued("resize")
   /\ layouts = <<>> /\ ~missed) => desktop = Clamped(window)

(* A paste is given what was copied last, wherever in the set-up of the    *)
(* channel it was copied, and the server knows whether there is a text.    *)
PasteIsNewest ==
  /\ (announced = "seen" /\ ~Queued("text")) => localText = clipboard
  /\ (clip = "ready") => (offered <=> localText # NoText)

DesktopFollows == ContextEnds /\ BufferFits /\ SizeFollows /\ PasteIsNewest
=============================================================================

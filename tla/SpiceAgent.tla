----------------------------- MODULE SpiceAgent -----------------------------
(***************************************************************************)
(* What an embedded SPICE session does through the guest's agent: offering *)
(* the host's clipboard and asking for a display of the widget's size      *)
(* (core/spice/spice_session.py, core/spice/spice_session_runner.py,       *)
(* widgets/spice_widget.py).                                               *)
(*                                                                         *)
(* The widget (Qt's thread) and the session (the loop's thread) talk over  *)
(* two queues: idle callbacks one way, queued signals the other.  The      *)
(* agent connects, announces its capabilities later, and may go away and   *)
(* come back.  A copy made in the guest reaches the client with a delay.   *)
(***************************************************************************)
EXTENDS Naturals, Sequences

CONSTANTS
  Texts,           \* texts the host's clipboard may hold
  NoText,          \* it holds no text
  Sizes,           \* sizes of the widget
  MaxAgentEvents   \* bound of the model: copies, resizes and agent starts

ASSUME AgentAssumption ==
  /\ NoText \notin Texts
  /\ Sizes # {}
  /\ MaxAgentEvents \in Nat

VARIABLES
  hostText,        \* the host's clipboard
  widgetSize,      \* the widget's size
  settling,        \* _resize_debounce_timer runs
  agentIdle,       \* idle callbacks on their way to the loop
  agentSignals,    \* signals on their way to the widget
  mainOpened,      \* the main channel is open
  greeted,         \* the widget has taken the connected signal
  agentState,      \* "absent", "connected", "able" once it has capabilities
  clipText,        \* _clipboard_text
  clipPending,     \* _clipboard_pending
  grabbed,         \* _clipboard_grabbed
  guestGrabs,      \* the guest's own copies the client does not know of yet
  clipOwner,       \* who owns the guest's clipboard
  guestSize,       \* the size last asked of the guest
  agentEvents

agentVars ==
  <<hostText, widgetSize, settling, agentIdle, agentSignals, mainOpened,
    greeted, agentState, clipText, clipPending, grabbed, guestGrabs, clipOwner,
    guestSize, agentEvents>>

agentWidgetVars == <<hostText, widgetSize, settling, greeted>>
clipVars   == <<clipText, clipPending, grabbed, clipOwner>>

MaybeText == Texts \union {NoText}
TextCall(t) == [kind |-> "text", text |-> t, size |-> 0]
SizeCall(s) == [kind |-> "size", text |-> NoText, size |-> s]
AgentCalls == {TextCall(t) : t \in MaybeText} \union {SizeCall(s) : s \in Sizes}

AgentTypeOK ==
  /\ hostText \in MaybeText /\ clipText \in MaybeText
  /\ widgetSize \in Sizes /\ guestSize \in Sizes \union {0}
  /\ settling \in BOOLEAN /\ mainOpened \in BOOLEAN /\ greeted \in BOOLEAN
  /\ agentIdle \in Seq(AgentCalls)
  /\ agentSignals \in Seq({"connected", "agent_connected"})
  /\ agentState \in {"absent", "connected", "able"}
  /\ clipPending \in BOOLEAN /\ grabbed \in BOOLEAN
  /\ guestGrabs \in 0..MaxAgentEvents
  /\ clipOwner \in {"nobody", "client", "guest"}
  /\ agentEvents \in 0..MaxAgentEvents

AgentInit ==
  /\ hostText \in MaybeText
  /\ widgetSize \in Sizes
  /\ settling = FALSE
  /\ agentIdle = <<>> /\ agentSignals = <<>>
  /\ mainOpened = FALSE /\ greeted = FALSE
  /\ agentState = "absent"
  /\ clipText = NoText /\ clipPending = FALSE /\ grabbed = FALSE
  /\ guestGrabs = 0
  /\ clipOwner = "nobody"
  /\ guestSize = 0
  /\ agentEvents = 0

AgentCount == agentEvents < MaxAgentEvents /\ agentEvents' = agentEvents + 1

-----------------------------------------------------------------------------
(* The widget.                                                             *)

\* _on_local_clipboard_changed.
HostCopies(t) ==
  /\ AgentCount
  /\ hostText' = t
  /\ agentIdle' = Append(agentIdle, TextCall(t))
  /\ UNCHANGED <<widgetSize, settling, agentSignals, mainOpened, greeted,
                 agentState, clipVars, guestGrabs, guestSize>>

\* resizeEvent: the timer is started again.
Resize(s) ==
  /\ AgentCount
  /\ widgetSize' = s
  /\ settling' = TRUE
  /\ UNCHANGED <<hostText, agentIdle, agentSignals, mainOpened, greeted,
                 agentState, clipVars, guestGrabs, guestSize>>

\* _on_resize_settled.
ResizeSettled ==
  /\ settling
  /\ settling' = FALSE
  /\ agentIdle' = Append(agentIdle, SizeCall(widgetSize))
  /\ UNCHANGED <<hostText, widgetSize, agentSignals, mainOpened, greeted,
                 agentState, clipVars, guestGrabs, guestSize, agentEvents>>

\* _on_connected: the clipboard at once, the size when it has settled.
OnConnected ==
  /\ agentSignals # <<>> /\ Head(agentSignals) = "connected"
  /\ agentSignals' = Tail(agentSignals)
  /\ greeted' = TRUE
  /\ agentIdle' = Append(agentIdle, TextCall(hostText))
  /\ settling' = TRUE
  /\ UNCHANGED <<hostText, widgetSize, mainOpened, agentState, clipVars,
                 guestGrabs, guestSize, agentEvents>>

\* _on_agent_connected: the size, at once.
OnAgentConnected ==
  /\ agentSignals # <<>> /\ Head(agentSignals) = "agent_connected"
  /\ agentSignals' = Tail(agentSignals)
  /\ agentIdle' = Append(agentIdle, SizeCall(widgetSize))
  /\ UNCHANGED <<agentWidgetVars, mainOpened, agentState, clipVars, guestGrabs,
                 guestSize, agentEvents>>

-----------------------------------------------------------------------------
(* The session, on the loop's thread.                                      *)

\* _on_main_channel_event, OPENED.
MainOpened ==
  /\ ~mainOpened
  /\ mainOpened' = TRUE
  /\ agentSignals' = Append(agentSignals, "connected")
  /\ UNCHANGED <<agentWidgetVars, agentIdle, agentState, clipVars, guestGrabs,
                 guestSize, agentEvents>>

\* announce_clipboard_text: without the capability the text waits.
AnnounceText(t) ==
  /\ clipText' = t
  /\ clipPending' = (t # NoText /\ agentState # "able")
  /\ IF agentState = "able"
     THEN /\ grabbed' = (t # NoText)
          /\ clipOwner' = IF t # NoText THEN "client"
                      ELSE IF grabbed /\ clipOwner = "client" THEN "nobody"
                      ELSE clipOwner
     ELSE UNCHANGED <<grabbed, clipOwner>>

ClipboardCall ==
  /\ agentIdle # <<>> /\ Head(agentIdle).kind = "text"
  /\ agentIdle' = Tail(agentIdle)
  /\ AnnounceText(Head(agentIdle).text)
  /\ UNCHANGED <<agentWidgetVars, agentSignals, mainOpened, agentState,
                 guestGrabs, guestSize, agentEvents>>

\* request_resize: nothing without the capability.
ResizeCall ==
  /\ agentIdle # <<>> /\ Head(agentIdle).kind = "size"
  /\ agentIdle' = Tail(agentIdle)
  /\ guestSize' = IF agentState = "able" THEN Head(agentIdle).size ELSE guestSize
  /\ UNCHANGED <<agentWidgetVars, agentSignals, mainOpened, agentState,
                 clipVars, guestGrabs, agentEvents>>

\* _on_agent_connected_changed, to true: no capability is known yet.
AgentConnects ==
  /\ mainOpened /\ agentState = "absent"
  /\ AgentCount
  /\ agentState' = "connected"
  /\ agentSignals' = Append(agentSignals, "agent_connected")
  /\ UNCHANGED <<agentWidgetVars, agentIdle, mainOpened, clipVars, guestGrabs,
                 guestSize>>

\* The capabilities arrive: _on_agent_update.
AgentUpdate ==
  /\ agentState = "connected"
  /\ agentState' = "able"
  /\ IF clipPending
     THEN /\ clipPending' = FALSE /\ grabbed' = TRUE /\ clipOwner' = "client"
          /\ UNCHANGED clipText
     ELSE UNCHANGED clipVars
  /\ UNCHANGED <<agentWidgetVars, agentIdle, agentSignals, mainOpened,
                 guestGrabs, guestSize, agentEvents>>

\* Mutant of AgentLeaves: a text that was offered is not pending again.
AgentLeavesForgets ==
  /\ agentState # "absent"
  /\ agentState' = "absent"
  /\ grabbed' = FALSE
  /\ clipOwner' = IF clipOwner = "client" THEN "nobody" ELSE clipOwner
  /\ UNCHANGED <<agentWidgetVars, agentIdle, agentSignals, mainOpened,
                 clipText, clipPending, guestGrabs, guestSize, agentEvents>>

\* _on_agent_connected_changed, to false: the agent's grab goes with it.
AgentLeaves ==
  /\ agentState # "absent"
  /\ agentState' = "absent"
  /\ grabbed' = FALSE
  /\ clipPending' = (clipText # NoText)
  /\ clipOwner' = IF clipOwner = "client" THEN "nobody" ELSE clipOwner
  /\ UNCHANGED <<agentWidgetVars, agentIdle, agentSignals, mainOpened,
                 clipText, guestGrabs, guestSize, agentEvents>>

\* Something is copied inside the guest; its agent tells the client ...
GuestCopies ==
  /\ AgentCount
  /\ clipOwner' = "guest"
  /\ guestGrabs' = IF agentState = "able" THEN guestGrabs + 1 ELSE guestGrabs
  /\ UNCHANGED <<agentWidgetVars, agentIdle, agentSignals, mainOpened,
                 agentState, clipText, clipPending, grabbed, guestSize>>

\* ... and the client learns of it: _on_clipboard_selection_grab.
GuestGrab ==
  /\ guestGrabs > 0
  /\ guestGrabs' = guestGrabs - 1
  /\ grabbed' = FALSE
  /\ UNCHANGED <<agentWidgetVars, agentIdle, agentSignals, mainOpened,
                 agentState, clipText, clipPending, clipOwner, guestSize,
                 agentEvents>>

AgentNext ==
  \/ \E t \in MaybeText : HostCopies(t)
  \/ \E s \in Sizes : Resize(s)
  \/ ResizeSettled \/ OnConnected \/ OnAgentConnected
  \/ MainOpened \/ ClipboardCall \/ ResizeCall
  \/ AgentConnects \/ AgentUpdate \/ AgentLeaves
  \/ GuestCopies \/ GuestGrab

AgentSpec == AgentInit /\ [][AgentNext]_agentVars

-----------------------------------------------------------------------------
TextQueued == \E i \in DOMAIN agentIdle : agentIdle[i].kind = "text"

(* What a paste in the guest is given (_on_clipboard_selection_request):   *)
(* NoText when it is refused.                                              *)
Pasted == clipText

(* The guest's clipboard follows the host's.  Once the widget has said     *)
(* hello and no text is on its way, a paste is given exactly what the      *)
(* host's clipboard holds, never a text copied earlier; and an agent whose *)
(* capabilities are known has been offered a text the host holds, unless   *)
(* the guest copied something itself: whether the text came before the     *)
(* agent, between its connection and its capabilities, or before the agent *)
(* was restarted.                                                          *)
ClipboardFollowsHost ==
  greeted /\ ~TextQueued =>
    /\ clipOwner = "client" => Pasted = hostText
    /\ agentState = "able" /\ hostText # NoText => clipOwner # "nobody"

(* "Without this, a resize request sent before the agent was ready would   *)
(* silently do nothing ... this is that retry, sent immediately once the   *)
(* agent is actually in a position to honor it" (spice_widget.py:156-161): *)
(* when nothing is on its way any more, an able agent has been asked for   *)
(* the widget's size.                                                      *)
AgentGetsTheSize ==
  greeted /\ agentState = "able" =>
    \/ settling \/ agentIdle # <<>> \/ agentSignals # <<>>
    \/ guestSize = widgetSize
=============================================================================

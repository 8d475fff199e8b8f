---------------------------- MODULE TerminalTab ----------------------------
(***************************************************************************)
(* A terminal tab of the shell launcher: widgets/terminal_widget.py and    *)
(* pty_backend.py, modules/shell_launcher/ui/main_view.py, and the tab     *)
(* menu of app.py.  The program's output is read by the window itself when *)
(* the pty can be polled, or by a thread on Windows, fed to pyte's screen, *)
(* and drawn when a timer fires.  What is written to the program is        *)
(* written by the window, which waits for the room; the program that       *)
(* echoes it waits for its output to be read.                              *)
(***************************************************************************)
EXTENDS Naturals, Sequences, FiniteSets
LOCAL INSTANCE SequencesExt

CONSTANTS Programs,        \* what a program may print, and bounds of the model:
                           \*   how much of it, and how much the user does
          InRoom, OutRoom  \* what the pty holds in either direction

\* A line; entering and leaving the alternate screen (mode 1049), saving and
\* restoring the cursor, a full reset, a question to the terminal, a private
\* variant pyte has no handler for, and a mode that changes what keys send.
Kinds == {"text", "enter", "leave", "save", "restore", "reset", "query", "private", "mode"}

\* Of the constants; an ASSUME of the module that instantiates this one.
ProgramsAssumption ==
  \A p \in Programs : p.kinds \subseteq Kinds /\ {p.prints, p.events} \subseteq Nat
RoomAssumption == {InRoom, OutRoom} \subseteq Nat \ {0}

VARIABLES
  windows, prints,     \* which system; the program's repertoire
  alive, owed, mode,   \* the program runs; an echo it has yet to write; its mode
  out, inq,            \* the pty: output not read yet, input not read yet
  reader, queue,       \* the thread of Windows; events posted to the window
  notifier,            \*   and the notifier of the others
  feeding, writing,    \* what the window is in the middle of
  rows, screen,        \* pyte's screen
  document, timer,     \* what is drawn; _render_timer
  tab, finished,       \* the tab; how often it was told of the end
  asked,               \* the question of _run_automation stands
  printed, fed,        \* history: all that was printed, all that was fed
  entered, left,       \*   the shell's screen when it was left, and come back to
  moved,               \*   the program moved saved cursors of the alternate screen
  stale,               \*   resized since the last drawing
  events

program == <<alive, owed, mode>>
pty == <<out, inq>>
window == <<notifier, feeding, writing>>
drawn == <<document, timer>>
lifetime == <<tab, finished>>
history == <<printed, entered, left, moved>>
vars == <<windows, prints, program, pty, reader, queue, window, rows, screen, drawn,
          lifetime, asked, history, fed, stale, events>>

ScreenSizes == {1, 2}
NoScreen == [lines |-> <<>>, cursor |-> 0]

TypeOK ==
  /\ windows \in BOOLEAN /\ prints \in Programs /\ owed \in {0, 1}
  /\ {alive, mode, notifier, timer, asked, moved, stale} \subseteq BOOLEAN
  /\ \A c \in Range(out) \union Range(feeding) \union Range(printed) : c.kind \in Kinds
  /\ Range(inq) \union Range(writing) \subseteq {"plain", "moded", "reply"}
  /\ reader \in {"none", "reading", "done"} /\ rows \in ScreenSizes
  /\ Len(out) <= OutRoom /\ Len(inq) <= InRoom
  /\ screen.under.is \in BOOLEAN /\ screen.mode \in BOOLEAN
  /\ tab \in {"open", "finished", "closed", "deleted"} /\ finished \in Nat
  /\ events \in 0..prints.events

\* TerminalWidget.__init__: lines and cursor of the buffer shown, the buffer it
\* stands for while in the alternate screen (_saved_buffer), pyte's savepoints.
Init ==
  /\ windows \in BOOLEAN /\ prints \in Programs
  /\ alive = TRUE /\ owed = 0 /\ mode = FALSE /\ out = <<>> /\ inq = <<>>
  /\ reader = (IF windows THEN "reading" ELSE "none") /\ queue = <<>> /\ notifier = ~windows
  /\ feeding = <<>> /\ writing = <<>> /\ rows = 2
  /\ screen = [lines |-> <<>>, cursor |-> 0, saves |-> <<>>, mode |-> FALSE,
               under |-> [is |-> FALSE, lines |-> <<>>]]
  /\ document = <<>> /\ timer = FALSE /\ tab = "open" /\ finished = 0 /\ asked = FALSE
  /\ printed = <<>> /\ fed = <<>> /\ entered = NoScreen /\ left = [was |-> NoScreen, is |-> NoScreen]
  /\ moved = FALSE /\ stale = FALSE /\ events = 0

-----------------------------------------------------------------------------
(* The program.                                                            *)

Writes(kind) ==
  LET c == [kind |-> kind, n |-> Len(printed) + 1]
  IN /\ alive /\ Len(out) < OutRoom /\ out' = Append(out, c) /\ printed' = Append(printed, c)

Prints(kind) ==
  /\ kind \in prints.kinds /\ owed = 0 /\ Len(printed) < prints.prints /\ Writes(kind)
  /\ mode' = (IF kind = "mode" THEN ~mode ELSE IF kind = "reset" THEN FALSE ELSE mode)
  /\ UNCHANGED <<windows, prints, alive, owed, inq, reader, queue, window, rows, screen,
                 drawn, lifetime, asked, fed, entered, left, moved, stale, events>>

\* It echoes what it is typed, but not the answer to its question.
Reads ==
  /\ alive /\ owed = 0 /\ inq # <<>> /\ inq' = Tail(inq)
  /\ owed' = (IF Head(inq) = "reply" THEN 0 ELSE 1)
  /\ UNCHANGED <<windows, prints, alive, mode, out, reader, queue, window, rows, screen,
                 drawn, lifetime, asked, history, fed, stale, events>>
Echoes ==
  /\ owed = 1 /\ Writes("text") /\ owed' = 0
  /\ UNCHANGED <<windows, prints, alive, mode, inq, reader, queue, window, rows, screen,
                 drawn, lifetime, asked, fed, entered, left, moved, stale, events>>

Exits ==
  /\ alive /\ alive' = FALSE /\ owed' = 0 /\ inq' = <<>>
  /\ UNCHANGED <<windows, prints, mode, out, reader, queue, window, rows, screen, drawn,
                 lifetime, asked, history, fed, stale, events>>

-----------------------------------------------------------------------------
(* pyte's screen, and what _TerminalScreen adds to it.                     *)

\* The part of the buffer that is on the screen; a line more scrolls it.
Visible(s) == SubSeq(s.lines, 1, IF Len(s.lines) < rows THEN Len(s.lines) ELSE rows)
Line(s, n) ==
  LET all == Append(Visible(s), n)
  IN [s EXCEPT !.lines = IF Len(all) > rows THEN Tail(all) ELSE all, !.cursor = n]

Save(s) == [s EXCEPT !.saves = Append(@, s.cursor)]
Restore(s) ==
  IF s.saves = <<>> THEN [s EXCEPT !.cursor = 0]
  ELSE [s EXCEPT !.cursor = Last(s.saves), !.saves = Front(@)]

Enter(s) ==
  IF s.under.is THEN s
  ELSE [Save(s) EXCEPT !.under = [is |-> TRUE, lines |-> s.lines], !.lines = <<>>]
Leave(s) ==
  IF ~s.under.is THEN s
  ELSE Restore([s EXCEPT !.under = [is |-> FALSE, lines |-> <<>>], !.lines = s.under.lines])
Reset(s) ==
  [s EXCEPT !.under = [is |-> FALSE, lines |-> <<>>], !.lines = <<>>, !.cursor = 0, !.mode = FALSE]

\* pyte drops lines from the top of the buffer shown; the one that was saved
\* keeps its own.
Resized(s, r) ==
  [s EXCEPT !.lines = IF r < rows THEN SubSeq(@, rows - r + 1, Len(@)) ELSE @]

\* A private variant of a sequence that has none is dropped, alone.
Fed(s, c) ==
  CASE c.kind = "text" -> Line(s, c.n)
    [] c.kind = "enter" -> Enter(s)
    [] c.kind = "leave" -> Leave(s)
    [] c.kind = "save" -> Save(s)
    [] c.kind = "restore" -> Restore(s)
    [] c.kind = "reset" -> Reset(s)
    [] c.kind = "mode" -> [s EXCEPT !.mode = ~@]
    [] OTHER -> s

-----------------------------------------------------------------------------
(* The output is read, fed and drawn.                                      *)

Free == writing = <<>> /\ feeding = <<>>

\* The write of PtyHandle goes on as there is room; to a program that is gone it
\* fails, which is ignored.
WriteGoesOn ==
  /\ writing # <<>>
  /\ IF alive
     THEN Len(inq) < InRoom /\ inq' = Append(inq, Head(writing)) /\ writing' = Tail(writing)
     ELSE writing' = <<>> /\ UNCHANGED inq
  /\ UNCHANGED <<windows, prints, program, out, reader, queue, notifier, feeding, rows, screen,
                 drawn, lifetime, asked, history, fed, stale, events>>

\* write_process_input: the answer to a question is written while it is fed. The
\* timer is started when all was.
Feed ==
  LET c == Head(feeding)
  IN /\ writing = <<>> /\ feeding # <<>>
     /\ screen' = Fed(screen, c) /\ feeding' = Tail(feeding) /\ fed' = Append(fed, c)
     /\ writing' = (IF c.kind = "query" THEN <<"reply">> ELSE <<>>)
     /\ timer' = (timer \/ Len(feeding) = 1)
     /\ entered' = (IF c.kind = "enter" /\ ~screen.under.is
                    THEN [lines |-> screen.lines, cursor |-> screen.cursor] ELSE entered)
     /\ left' = (IF c.kind = "leave" /\ screen.under.is
                 THEN [was |-> entered, is |-> [lines |-> screen'.lines, cursor |-> screen'.cursor]]
                 ELSE left)
     /\ moved' = ((c.kind \in {"save", "restore"} /\ screen.under.is) \/
                  (moved /\ c.kind # "enter"))
     /\ UNCHANGED <<windows, prints, program, pty, reader, queue, notifier, rows, document,
                    lifetime, asked, printed, stale, events>>

\* _on_output is given data, or told of the end: the notifier is disabled, and
\* _on_terminal_finished takes the tab away.
Given(data) == feeding' = data /\ UNCHANGED <<notifier, lifetime>>
Ends ==
  /\ notifier' = FALSE /\ finished' = finished + 1
  /\ tab' = (IF tab = "open" THEN "finished" ELSE tab) /\ UNCHANGED feeding
Deletion == [is |-> "delete", data |-> <<>>]

Activated ==
  /\ notifier /\ Free
  /\ \/ out # <<>> /\ Given(out) /\ out' = <<>> /\ UNCHANGED queue
     \/ out = <<>> /\ ~alive /\ Ends /\ queue' = Append(queue, Deletion) /\ UNCHANGED out
  /\ UNCHANGED <<windows, prints, program, inq, reader, writing, rows, screen, drawn, asked,
                 history, fed, stale, events>>

\* The thread: the widget may be gone, which ends it.
ReaderReads ==
  /\ reader = "reading"
  /\ \/ out # <<>> /\ tab # "deleted" /\ out' = <<>> /\ UNCHANGED reader
     \/ out = <<>> /\ ~alive /\ reader' = "done" /\ UNCHANGED out
     \/ out # <<>> /\ tab = "deleted" /\ out' = <<>> /\ reader' = "done"
  /\ queue' = (IF tab = "deleted" THEN queue ELSE Append(queue, [is |-> "data", data |-> out]))
  /\ UNCHANGED <<windows, prints, program, inq, window, rows, screen, drawn, lifetime, asked,
                 history, fed, stale, events>>

\* The window takes the events in the order they were posted; the deletion takes
\* those behind it along.
Delivered ==
  /\ queue # <<>> /\ Free
  /\ LET e == Head(queue)
     IN \/ /\ e.is = "data" /\ e.data # <<>> /\ Given(e.data) /\ queue' = Tail(queue)
           /\ UNCHANGED timer
        \/ /\ e.is = "data" /\ e.data = <<>> /\ Ends /\ queue' = Append(Tail(queue), Deletion)
           /\ UNCHANGED timer
        \/ /\ e.is = "delete" /\ tab' = "deleted" /\ queue' = <<>> /\ timer' = FALSE
           /\ UNCHANGED <<notifier, feeding, finished>>
  /\ UNCHANGED <<windows, prints, program, pty, reader, writing, rows, screen, document, asked,
                 history, fed, stale, events>>

Render ==
  /\ timer /\ Free /\ timer' = FALSE /\ document' = Visible(screen) /\ stale' = FALSE
  /\ UNCHANGED <<windows, prints, program, pty, reader, queue, window, rows, screen, lifetime,
                 asked, history, fed, events>>

-----------------------------------------------------------------------------
(* The user.                                                               *)

Event == events < prints.events /\ events' = events + 1 /\ Free
Sent == IF screen.mode THEN "moded" ELSE "plain"   \* encode_key

KeyPress ==
  /\ Event /\ tab = "open" /\ writing' = <<Sent>>
  /\ UNCHANGED <<windows, prints, program, pty, reader, queue, notifier, feeding, rows, screen,
                 drawn, lifetime, asked, history, fed, stale>>

\* _paste_clipboard: more than the pty holds.
Paste ==
  /\ Event /\ tab = "open" /\ writing' = [i \in 1..InRoom + 1 |-> Sent]
  /\ UNCHANGED <<windows, prints, program, pty, reader, queue, notifier, feeding, rows, screen,
                 drawn, lifetime, asked, history, fed, stale>>

\* "Run Automation": the question is answered when the tab may be gone.
AskAutomation ==
  /\ Event /\ tab = "open" /\ ~asked /\ asked' = TRUE
  /\ UNCHANGED <<windows, prints, program, pty, reader, queue, window, rows, screen, drawn,
                 lifetime, history, fed, stale>>
RunAutomation ==
  /\ asked /\ Free /\ asked' = FALSE /\ writing' = <<"plain">>
  /\ UNCHANGED <<windows, prints, program, pty, reader, queue, notifier, feeding, rows, screen,
                 drawn, lifetime, history, fed, stale, events>>

\* resizeEvent: the screen is not drawn again until the program writes.
Resize(r) ==
  /\ Event /\ tab = "open" /\ ~asked /\ r # rows
  /\ rows' = r /\ screen' = Resized(screen, r) /\ stale' = TRUE
  /\ UNCHANGED <<windows, prints, program, pty, reader, queue, window, drawn, lifetime, asked,
                 history, fed>>

\* try_close_tab and close_session: the program is killed.
CloseTab ==
  /\ Event /\ tab = "open" /\ ~asked /\ tab' = "closed" /\ notifier' = FALSE /\ timer' = FALSE
  /\ alive' = FALSE /\ owed' = 0 /\ inq' = <<>> /\ queue' = Append(queue, Deletion)
  /\ UNCHANGED <<windows, prints, mode, out, reader, feeding, writing, rows, screen, document,
                 finished, asked, history, fed, stale>>

Next ==
  \/ \E k \in Kinds : Prints(k)
  \/ Reads \/ Echoes \/ Exits \/ WriteGoesOn \/ Feed \/ Activated \/ ReaderReads \/ Delivered
  \/ Render \/ KeyPress \/ Paste \/ AskAutomation \/ RunAutomation \/ CloseTab
  \/ \E r \in ScreenSizes : Resize(r)

Spec == Init /\ [][Next]_vars

-----------------------------------------------------------------------------
(* The properties.                                                         *)

\* Nothing the program prints is lost, doubled or reordered on its way to the
\* screen, by reads that split it, or events that wait; until the tab is closed.
Posted == FlattenSeq([i \in DOMAIN queue |-> queue[i].data])
NothingLost == tab = "open" => fed \o feeding \o Posted \o out = printed

\* The tab goes by itself once all was fed, and is told so once.
EndsOnce ==
  /\ finished <= 1
  /\ tab = "finished" => fed = printed

\* The document is what is on the screen, or about to be; unless the size changed
\* and the program has not written since.
DrawnSoon ==
  tab = "open" /\ Free => timer \/ document = Visible(screen) \/ stale

\* Leaving the alternate screen brings back the shell's lines and its cursor,
\* whatever was printed and whatever size it got meanwhile (a smaller one shows
\* the oldest of them, where the newest are those it should show); unless the program
\* used the saved cursors, which are the shell's too.
ShellComesBack == left.is = left.was \/ moved

\* The window stands still for good, waiting for room the program makes only
\* when its output is read, only where it reads that itself.
Stuck ==
  /\ writing # <<>> /\ alive /\ Len(inq) = InRoom /\ owed = 1 /\ Len(out) = OutRoom
  /\ reader # "reading"
StuckByItself == Stuck => ~windows

\* With all that was printed fed, keys are sent as the program wants them.
KeysInMode == fed = printed => screen.mode = mode

TerminalFollows ==
  NothingLost /\ EndsOnce /\ DrawnSoon /\ ShellComesBack /\ StuckByItself /\ KeysInMode
=============================================================================

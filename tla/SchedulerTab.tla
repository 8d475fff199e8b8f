---------------------------- MODULE SchedulerTab ----------------------------
(***************************************************************************)
(* A tab of the scheduler manager (widgets/scheduler_manager_widget.py):   *)
(* its lists of tasks, channels and backups, which are loaded in the       *)
(* background, after every change, and the tasks on a timer too.  One load *)
(* of the tasks is enough at a time: _loading_tasks drops a second.        *)
(*                                                                         *)
(* What the server holds is known by how often it has changed.  Left out:  *)
(* how a connection is made (HelperTab), what the dialogs do before they   *)
(* are accepted (SchedulerDialogs), and the calls that change no list.     *)
(***************************************************************************)
EXTENDS Naturals, Sequences, Bags

CONSTANTS
  MaxEvents,     \* bound of the model: what the user does, ticks and failures
  MaxCalls       \* bound of the model: the calls under way at such a step

\* Of the constants; an ASSUME of the module that instantiates this one.
BoundsAssumption == {MaxEvents, MaxCalls} \subseteq Nat

VARIABLES
  connection,    \* its number; 0 is None
  connections,   \* how many there have been
  page,          \* of the stack: a message, or the lists
  autoRefresh,   \* _auto_refresh is running
  later,         \* the single shot after a task was started
  loadingTasks,  \* _loading_tasks
  requests,      \* the calls under way, with what those that have answers read
  openDialogs,   \* the modal dialogs, the last on top
  now,           \* how often the server has changed
  told,          \* the changes that each list was to be loaded again for
  listed,        \* what each list shows
  excused,       \* history: lists whose load was dropped, failed or overtaken
  stuck,         \* history: a load of the tasks that raised before it began
  steps

vars == <<connection, connections, page, autoRefresh, later, loadingTasks,
          requests, openDialogs, now, told, listed, excused, stuck, steps>>

Lists == {"tasks", "channels", "backups"}
Changes == {"task", "channel", "backup", "run"}
Kinds == Lists \union Changes \union {"status", "dialog"}

\* on is the connection it was asked on; 0 is whichever there is when it runs.
Request == [kind : Kinds, on : Nat, answer : {"waiting", "failed", "ok"},
            read : Nat]
Ask(kind) == [kind |-> kind, on |-> connection, answer |-> "waiting", read |-> 0]

TypeOK ==
  /\ {connection, connections, now, steps} \subseteq Nat
  /\ page \in {"message", "lists"}
  /\ {autoRefresh, later, loadingTasks, stuck} \subseteq BOOLEAN
  /\ IsABag(requests) /\ BagToSet(requests) \subseteq Request
  /\ openDialogs \in Seq([kind : {"task", "import"}, on : Nat])
  /\ {told, listed} \subseteq [Lists -> Nat]
  /\ excused \subseteq Lists

\* on_connected: the first status is being asked for.
Init ==
  /\ connection = 1 /\ connections = 1 /\ page = "message"
  /\ autoRefresh = FALSE /\ later = FALSE /\ loadingTasks = FALSE
  /\ requests = SetToBag({Ask("status")})
  /\ openDialogs = <<>>
  /\ now = 1 /\ told = [l \in Lists |-> 0] /\ listed = [l \in Lists |-> 0]
  /\ excused = {} /\ stuck = FALSE /\ steps = 0

-----------------------------------------------------------------------------
(* What the handlers share.                                                *)

\* refresh_tasks: its latch is set before a missing connection raises.
RefreshTasks ==
  /\ loadingTasks' = TRUE
  /\ stuck' = (stuck \/ (~loadingTasks /\ connection = 0))
  /\ excused' = IF loadingTasks THEN excused \union {"tasks"} ELSE excused

\* The calls of a handler that loads these lists, in this order: one that
\* finds no connection ends it.
Loads(lists) ==
  IF connection = 0 THEN {}
  ELSE {Ask(l) : l \in lists \ (IF loadingTasks THEN {"tasks"} ELSE {})}

\* A handler that loads the tasks first, and then others.
TasksAnd(others, rest) ==
  /\ RefreshTasks
  /\ requests' = rest (+) SetToBag(Loads({"tasks"} \union others))

User ==
  steps < MaxEvents /\ BagCardinality(requests) < MaxCalls /\ steps' = steps + 1

OnPage == page = "lists" /\ openDialogs = <<>>

-----------------------------------------------------------------------------
(* The connection.                                                         *)

\* connect_to_server, with before_reconnect.
Reconnect ==
  /\ User /\ connection # 0 /\ openDialogs = <<>>
  /\ connection' = 0 /\ autoRefresh' = FALSE /\ page' = "message"
  /\ UNCHANGED <<connections, later, loadingTasks, requests, openDialogs, now,
                 told, listed, excused, stuck>>

\* ok of connect_to_server, and on_connected.
Connected ==
  /\ connection = 0
  /\ connection' = connections + 1 /\ connections' = connections + 1
  /\ page' = "message"
  /\ requests' = requests (+) SetToBag({[Ask("status") EXCEPT !.on = connection']})
  /\ UNCHANGED <<autoRefresh, later, loadingTasks, openDialogs, now, told, listed,
                 excused, stuck, steps>>

Reaches(c) == connection # 0 /\ c.on \in {0, connection}

\* The server does what is asked, or it fails; a closed connection fails.
Serve(c) ==
  /\ BagIn(c, requests) /\ c.answer = "waiting" /\ Reaches(c)
  /\ now' = IF c.kind \in Changes THEN now + 1 ELSE now
  /\ requests' = (requests (-) SetToBag({c}))
                 (+) SetToBag({[c EXCEPT !.answer = "ok", !.read = now']})
  /\ UNCHANGED <<connection, connections, page, autoRefresh, later, loadingTasks,
                 openDialogs, told, listed, excused, stuck, steps>>

Fail(c) ==
  /\ BagIn(c, requests) /\ c.answer = "waiting"
  /\ IF Reaches(c) THEN steps < MaxEvents /\ steps' = steps + 1
     ELSE UNCHANGED steps
  /\ requests' = (requests (-) SetToBag({c}))
                 (+) SetToBag({[c EXCEPT !.answer = "failed"]})
  /\ UNCHANGED <<connection, connections, page, autoRefresh, later, loadingTasks,
                 openDialogs, now, told, listed, excused, stuck>>

-----------------------------------------------------------------------------
(* The user, and the timers.                                               *)

viewVars == <<connection, connections, page, autoRefresh, now, told, listed>>

\* refresh_tasks, by its button.
RefreshClicked ==
  /\ User /\ OnPage
  /\ TasksAnd({}, requests)
  /\ UNCHANGED <<viewVars, later, openDialogs>>

\* run_task, toggle_task, delete_task; a channel's and a backup's changes; and
\* _open_task_dialog, which loads first.
Asks(kind) ==
  /\ User /\ OnPage /\ connection # 0
  /\ \E on \in CASE kind = "dialog" -> {connection}
              [] kind = "backup" -> {0, connection}
              [] OTHER -> {0} :
       requests' = requests (+) SetToBag({[Ask(kind) EXCEPT !.on = on]})
  /\ UNCHANGED <<viewVars, later, openDialogs, loadingTasks, excused, stuck>>

\* _run_import.
OpenImport ==
  /\ User /\ OnPage /\ connection # 0
  /\ openDialogs' = <<[kind |-> "import", on |-> connection]>>
  /\ UNCHANGED <<viewVars, later, loadingTasks, requests, excused, stuck>>

Top == openDialogs[Len(openDialogs)]
CloseTop == openDialogs' = SubSeq(openDialogs, 1, Len(openDialogs) - 1)

\* The rest of show: to the connection that the task was loaded from.
SaveTask ==
  /\ openDialogs # <<>> /\ Top.kind = "task"
  /\ CloseTop
  /\ requests' = requests (+) SetToBag({[Ask("task") EXCEPT !.on = Top.on]})
  /\ UNCHANGED <<viewVars, later, loadingTasks, excused, stuck, steps>>

\* The rest of _run_import.
Imported ==
  /\ openDialogs # <<>> /\ Top.kind = "import" /\ connection = Top.on
  /\ CloseTop
  /\ now' = now + 1
  /\ told' = [l \in Lists |-> IF l = "backups" THEN told[l] ELSE now']
  /\ TasksAnd({"channels"}, requests)
  /\ UNCHANGED <<connection, connections, page, autoRefresh, listed, later, steps>>

Cancel ==
  /\ openDialogs # <<>> /\ CloseTop
  /\ UNCHANGED <<viewVars, later, loadingTasks, requests, excused, stuck, steps>>

\* _tick, on the tab of the tasks.
Tick ==
  /\ User /\ autoRefresh /\ connection # 0
  /\ TasksAnd({}, requests)
  /\ UNCHANGED <<viewVars, later, openDialogs>>

\* The single shot of started.
Later ==
  /\ later /\ later' = FALSE
  /\ IF connection = 0
     THEN UNCHANGED <<requests, loadingTasks, excused, stuck>>
     ELSE TasksAnd({}, requests)
  /\ UNCHANGED <<viewVars, openDialogs, steps>>

-----------------------------------------------------------------------------
(* The answers, on Qt's thread.                                            *)

Answer(c, kinds) == BagIn(c, requests) /\ c.answer = "ok" /\ c.kind \in kinds
Rest(c) == requests (-) SetToBag({c})
Told(lists, c) ==
  told' = [l \in Lists |-> IF l \in lists /\ c.read > told[l] THEN c.read
                           ELSE told[l]]

\* _on_first_status: with no connection, refresh_tasks ends it.
FirstStatus(c) ==
  /\ Answer(c, {"status"})
  /\ page' = "lists"
  /\ autoRefresh' = (autoRefresh \/ connection # 0)
  /\ TasksAnd({"channels", "backups"}, Rest(c))
  /\ UNCHANGED <<connection, connections, now, told, listed, later, openDialogs,
                 steps>>

\* show_tasks, with done of refresh_tasks; show_channels; show_backups.
ShowList(c) ==
  /\ Answer(c, Lists)
  /\ listed' = [listed EXCEPT ![c.kind] = c.read]
  /\ loadingTasks' = (loadingTasks /\ c.kind # "tasks")
  /\ excused' = IF c.read < listed[c.kind] THEN excused \union {c.kind}
                ELSE IF c.read >= told[c.kind] THEN excused \ {c.kind}
                ELSE excused
  /\ requests' = Rest(c)
  /\ UNCHANGED <<connection, connections, page, autoRefresh, now, told, later,
                 openDialogs, stuck, steps>>

\* _after_task_change.
AfterTaskChange(c) ==
  /\ Answer(c, {"task"})
  /\ Told({"tasks", "channels"}, c)
  /\ TasksAnd({"channels"}, Rest(c))
  /\ UNCHANGED <<connection, connections, page, autoRefresh, now, listed, later,
                 openDialogs, steps>>

\* started of run_task.
Started(c) ==
  /\ Answer(c, {"run"})
  /\ Told({"tasks"}, c)
  /\ later' = (later \/ connection # 0 \/ loadingTasks)
  /\ TasksAnd({}, Rest(c))
  /\ UNCHANGED <<connection, connections, page, autoRefresh, now, listed,
                 openDialogs, steps>>

\* _after_channel_change: with no connection, refresh_channels ends it.
AfterChannelChange(c) ==
  /\ Answer(c, {"channel"})
  /\ Told({"tasks", "channels"}, c)
  /\ IF connection = 0
     THEN requests' = Rest(c) /\ UNCHANGED <<loadingTasks, excused, stuck>>
     ELSE TasksAnd({"channels"}, Rest(c))
  /\ UNCHANGED <<connection, connections, page, autoRefresh, now, listed, later,
                 openDialogs, steps>>

\* refresh_backups after a change of one.
AfterBackupChange(c) ==
  /\ Answer(c, {"backup"})
  /\ Told({"backups"}, c)
  /\ requests' = Rest(c) (+) SetToBag(IF connection = 0 THEN {} ELSE {Ask("backups")})
  /\ UNCHANGED <<connection, connections, page, autoRefresh, now, listed, later,
                 loadingTasks, excused, stuck, openDialogs, steps>>

\* show of _open_task_dialog.
ShowDialog(c) ==
  /\ Answer(c, {"dialog"})
  /\ openDialogs' = Append(openDialogs, [kind |-> "task", on |-> c.on])
  /\ requests' = Rest(c)
  /\ UNCHANGED <<viewVars, later, loadingTasks, excused, stuck, steps>>

\* Mutant of Failed: the latch outlives a load that failed.
FailedLatched(c) ==
  /\ BagIn(c, requests) /\ c.answer = "failed"
  /\ requests' = Rest(c)
  /\ excused' = IF c.kind \in Lists THEN excused \union {c.kind} ELSE excused
  /\ UNCHANGED <<viewVars, later, loadingTasks, stuck, openDialogs, steps>>

\* failed of Busy, and of refresh_tasks.
Failed(c) ==
  /\ BagIn(c, requests) /\ c.answer = "failed"
  /\ requests' = Rest(c)
  /\ loadingTasks' = (loadingTasks /\ c.kind # "tasks")
  /\ excused' = IF c.kind \in Lists THEN excused \union {c.kind} ELSE excused
  /\ UNCHANGED <<viewVars, later, stuck, openDialogs, steps>>

-----------------------------------------------------------------------------
Next ==
  \/ Reconnect \/ Connected \/ RefreshClicked \/ OpenImport
  \/ SaveTask \/ Imported \/ Cancel \/ Tick \/ Later
  \/ \E kind \in Changes \union {"dialog"} : Asks(kind)
  \/ \E c \in BagToSet(requests) :
       \/ Serve(c) \/ Fail(c) \/ FirstStatus(c) \/ ShowList(c)
       \/ AfterTaskChange(c) \/ Started(c) \/ AfterChannelChange(c)
       \/ AfterBackupChange(c) \/ ShowDialog(c) \/ Failed(c)

Spec == Init /\ [][Next]_vars

-----------------------------------------------------------------------------
Loading(l) == \E c \in BagToSet(requests) : c.kind = l

(* Loads of the tasks are dropped only while one is under way: the latch    *)
(* does not outlive the load that set it, whatever fails or reconnects,    *)
(* but where a load found no connection and raised.                        *)
LatchHasItsLoad == loadingTasks => Loading("tasks") \/ stuck

(* A load is under way alone.                                              *)
OneLoad == BagCardinality([c \in {d \in BagToSet(requests) : d.kind = "tasks"} |->
                             requests[c]]) <= 1

(* After every change that the user was told of, each list it concerns     *)
(* shows it, or will: a load is under way, or one was dropped, failed or    *)
(* overtaken by an older answer, or the tab is connecting again and loads   *)
(* them when it has.                                                       *)
ListsCatchUp ==
  \A l \in Lists :
    told[l] > listed[l] => \/ Loading(l) \/ l \in excused \/ stuck
                            \/ page = "message" \/ connection = 0

ListsFollow == LatchHasItsLoad /\ OneLoad /\ ListsCatchUp
=============================================================================

--------------------------- MODULE HostingImport ---------------------------
(***************************************************************************)
(* The two import wizards of the hosting manager (widgets/                 *)
(* hosting_import.py): sites from a CloudPanel server, and everything of a *)
(* Zabbix server.  The server scans the source, and imports from it on its *)
(* own; the dialog starts that and polls its status, as others may who use *)
(* the server.  The next poll is set by an answer that says it runs, so a  *)
(* failed one ends the polls; answers may overtake one another; a dialog   *)
(* that is closed still takes the answers under way, and may go on to poll. *)
(***************************************************************************)
EXTENDS Naturals, Sequences, FiniteSets
LOCAL INSTANCE SequencesExt

CONSTANTS MaxEvents, MaxDialogs, MaxCalls   \* bounds of the model

\* Of the constants; an ASSUME of the module that instantiates this one.
BoundsAssumption == {MaxEvents, MaxDialogs, MaxCalls} \subseteq Nat

\* What a scan can find: a site that can be imported, one whose PHP is missing
\* unless another version is picked, and one that cannot be.  A Zabbix server
\* can be imported or not.
Plans == {"plain", "php", "barred"}
Wizards == {"cloudpanel", "zabbix"}

VARIABLES
  wizard,      \* which one; the two share no state
  scan, job,   \* on the server: what was found, {} for no scan; the import
  imported,    \*   and the sites it has made
  listed,      \* those in the Sites tab
  note,        \* import_note
  dialogs,     \* those made, of which the last may be open
  waiting,     \* calls the server has yet to serve,
  answers,     \*   and their answers, as they were made
  others,      \* history: someone else, or a dialog closed meanwhile, used the import
               \*   since the Sites tab was last loaded by hand
  events

vars == <<wizard, scan, job, imported, listed, note, dialogs, waiting, answers, others, events>>

States == {"none", "running", "over"}
Pages == {"loading", "connect", "choose", "running", "over"}
Whats == {"refresh", "scan", "start", "cancel", "clear", "forget", "note"}

NoJob == [state |-> "none", todo |-> 0, done |-> 0]
\* A call and its answer; "late" if one made after it has come before it.
Call(d, what, sites) ==
  [dialog |-> d, what |-> what, sites |-> sites, answer |-> "waiting", job |-> NoJob,
   scan |-> {}, late |-> FALSE]

TypeOK ==
  /\ wizard \in Wizards /\ scan \subseteq Plans
  /\ job.state \in States /\ {job.todo, job.done, imported, listed} \subseteq Nat
  /\ {note, others} \subseteq BOOLEAN
  /\ \A i \in DOMAIN dialogs :
       /\ dialogs[i].page \in Pages
       /\ {dialogs[i].scan, dialogs[i].ticked} \subseteq SUBSET Plans
       /\ {dialogs[i].open, dialogs[i].timer, dialogs[i].started, dialogs[i].rescan,
           dialogs[i].php, dialogs[i].busy, dialogs[i].misled, dialogs[i].lost} \subseteq BOOLEAN
  /\ \A q \in {waiting, answers} : \A i \in DOMAIN q :
       q[i].what \in Whats /\ q[i].answer \in {"waiting", "ok", "failed"}
  /\ events \in 0..MaxEvents

\* _ImportDialog.__init__.
NewDialog ==
  [open |-> TRUE, page |-> "loading", timer |-> FALSE, started |-> FALSE, rescan |-> FALSE,
   scan |-> {}, ticked |-> {}, php |-> FALSE, count |-> 0,   \* _done_count
   busy |-> FALSE,     \* a call of its own runs: it is disabled
   misled |-> FALSE,   \* history: an older answer came late, or its own was lost,
   lost |-> FALSE]     \*   a poll failed

Init ==
  /\ wizard \in Wizards /\ scan \in {{}, {"plain"}}
  /\ job \in {NoJob, [state |-> "running", todo |-> 1, done |-> 0]}
  /\ imported = 0 /\ listed = 0 /\ note = (job.state = "running" /\ wizard = "cloudpanel")
  /\ dialogs = <<>> /\ waiting = <<>> /\ answers = <<>> /\ others = FALSE /\ events = 0

server == <<scan, job, imported>>

-----------------------------------------------------------------------------
(* The dialog.                                                             *)

Open == dialogs # <<>> /\ dialogs[Len(dialogs)].open
Dialog == dialogs[Len(dialogs)]
Set(d) == dialogs' = [dialogs EXCEPT ![Len(dialogs)] = d]

\* call: the dialog is disabled until it is answered.
Calls(what, sites) ==
  /\ Len(waiting) + Len(answers) < MaxCalls
  /\ Set([Dialog EXCEPT !.busy = TRUE])
  /\ waiting' = Append(waiting, Call(Len(dialogs), what, sites))
Event == events < MaxEvents /\ events' = events + 1 /\ UNCHANGED wizard
OnPage(p) == Event /\ Open /\ ~Dialog.busy /\ Dialog.page = p

\* _show_connect, _show_choose, _show_scan, and _show_progress or _show_job.
Connect(d) == [d EXCEPT !.page = "connect", !.rescan = @ \/ wizard = "zabbix"]
Choose(d, found) ==
  [d EXCEPT !.page = "choose", !.scan = found, !.ticked = found \intersect {"plain"}, !.php = FALSE]
Progress(d, j) == [d EXCEPT !.page = IF j.state = "running" THEN "running" ELSE "over"]

\* import_sites, and the import of a Zabbix site.
OpenDialog ==
  /\ Event /\ ~Open /\ Len(dialogs) < MaxDialogs /\ Len(waiting) < MaxCalls
  /\ dialogs' = Append(dialogs, NewDialog)
  /\ waiting' = Append(waiting, Call(Len(dialogs) + 1, "refresh", {}))
  /\ UNCHANGED <<server, listed, note, answers, others>>

\* done: its own close button works also while it is disabled. The Sites tab is
\* then loaded again, and check_import asks whether an import runs.
Close ==
  /\ Event /\ Open
  /\ Set([Dialog EXCEPT !.open = FALSE, !.timer = FALSE])
  /\ listed' = imported /\ others' = FALSE
  /\ waiting' = waiting \o (IF wizard = "cloudpanel" THEN <<Call(Len(dialogs), "note", {})>> ELSE <<>>)
  /\ UNCHANGED <<server, note, answers>>

\* _scan.
Scan ==
  /\ OnPage("connect") /\ Calls("scan", {}) /\ UNCHANGED <<server, listed, note, answers, others>>

\* "Back to the Sites", with what was found before.
BackToSites ==
  /\ OnPage("connect") /\ wizard = "cloudpanel" /\ Dialog.scan # {}
  /\ Set(Choose(Dialog, Dialog.scan))
  /\ UNCHANGED <<server, listed, note, waiting, answers, others>>

\* "Scan Again", or "Back".
ScanAgain ==
  /\ OnPage("choose") /\ Set(Connect(Dialog))
  /\ UNCHANGED <<server, listed, note, waiting, answers, others>>

\* _blockers: picking another PHP version takes that one away.
Blocked(d, plan) == plan = "barred" \/ (plan = "php" /\ ~d.php)

\* _php_changed; and the check boxes that are enabled.
PickPhp(here) ==
  /\ OnPage("choose") /\ "php" \in Dialog.scan /\ (here \/ Dialog.php)
  /\ Set([Dialog EXCEPT !.php = here,
                        !.ticked = IF here THEN @ \union {"php"} ELSE @ \ {"php"}])
  /\ UNCHANGED <<server, listed, note, waiting, answers, others>>
Tick(plan) ==
  /\ OnPage("choose") /\ wizard = "cloudpanel" /\ plan \in Dialog.scan /\ ~Blocked(Dialog, plan)
  /\ Set([Dialog EXCEPT !.ticked = IF plan \in @ THEN @ \ {plan} ELSE @ \union {plan}])
  /\ UNCHANGED <<server, listed, note, waiting, answers, others>>

\* chosen, and _start.
Chosen(d) == {plan \in d.ticked : ~Blocked(d, plan)}
Start ==
  /\ OnPage("choose") /\ Chosen(Dialog) # {} /\ Calls("start", Chosen(Dialog))
  /\ UNCHANGED <<server, listed, note, answers, others>>

\* _cancel; _clear, and _again; _forget.
Cancel ==
  /\ OnPage("running") /\ Calls("cancel", {}) /\ UNCHANGED <<server, listed, note, answers, others>>
Clear ==
  /\ OnPage("over") /\ Calls("clear", {}) /\ UNCHANGED <<server, listed, note, answers, others>>
Forget ==
  /\ OnPage("choose") /\ wizard = "zabbix" /\ Calls("forget", {})
  /\ UNCHANGED <<server, listed, note, answers, others>>

\* The single-shot timer, of a dialog open or closed: refresh.
TimerFires(i) ==
  /\ dialogs[i].timer /\ Len(waiting) + Len(answers) < MaxCalls
  /\ dialogs' = [dialogs EXCEPT ![i].timer = FALSE]
  /\ waiting' = Append(waiting, Call(i, "refresh", {}))
  /\ UNCHANGED <<wizard, server, listed, note, answers, others, events>>

-----------------------------------------------------------------------------
(* The server, and the others who use it.                                  *)

\* A call is served: its answer is the status then. An import is not started
\* beside another, nor cleared while it runs; one that is cancelled ends soon.
Serve(i, found) ==
  LET c == waiting[i]
      refused == \/ c.what = "start" /\ job.state = "running"
                 \/ c.what = "clear" /\ job.state = "running"
  IN /\ waiting' = RemoveAt(waiting, i)
     /\ job' = CASE refused -> job
                 [] c.what = "start" /\ ~refused ->
                      [state |-> "running", todo |-> Cardinality(c.sites), done |-> 0]
                 [] c.what = "clear" /\ ~refused -> NoJob
                 [] OTHER -> job
     /\ scan' = (IF c.what = "scan" THEN found ELSE IF c.what = "forget" THEN {} ELSE scan)
     /\ found \in (IF c.what # "scan" THEN {{}}
                   ELSE IF wizard = "zabbix" THEN {{"plain"}, {"barred"}} ELSE {Plans, {"plain"}})
     /\ answers' = Append(answers, [c EXCEPT !.answer = IF refused THEN "failed" ELSE "ok",
                                             !.job = job', !.scan = scan'])
     /\ others' = (others \/ (c.what \in {"start", "clear"} /\ ~dialogs[c.dialog].open))
     /\ UNCHANGED <<wizard, imported, listed, note, dialogs, events>>

\* A call fails, before it is served or after.
CallFails(i) ==
  /\ Event
  /\ \/ /\ i \in DOMAIN waiting /\ waiting' = RemoveAt(waiting, i)
        /\ answers' = Append(answers, [waiting[i] EXCEPT !.answer = "failed"])
     \/ /\ i \in DOMAIN answers /\ answers[i].answer = "ok"
        /\ answers' = [answers EXCEPT ![i].answer = "failed"] /\ UNCHANGED waiting
  /\ UNCHANGED <<server, listed, note, dialogs, others>>

\* A site is imported, or fails and is removed again.
SiteEnds(made) ==
  /\ job.state = "running" /\ job.todo > 0
  /\ job' = [job EXCEPT !.todo = @ - 1, !.done = IF made THEN @ + 1 ELSE @]
  /\ imported' = (IF made THEN imported + 1 ELSE imported)
  /\ UNCHANGED <<wizard, scan, listed, note, dialogs, waiting, answers, others, events>>
JobEnds ==
  /\ job.state = "running" /\ job.todo = 0 /\ job' = [job EXCEPT !.state = "over"]
  /\ UNCHANGED <<wizard, scan, imported, listed, note, dialogs, waiting, answers, others, events>>
JobCancelled ==
  /\ job.state = "running" /\ \E i \in DOMAIN answers : answers[i].what = "cancel"
  /\ job' = [job EXCEPT !.state = "over", !.todo = 0]
  /\ UNCHANGED <<wizard, scan, imported, listed, note, dialogs, waiting, answers, others, events>>

\* Someone else starts an import, or clears its results.
OthersStart ==
  /\ Event /\ job.state # "running" /\ job' = [state |-> "running", todo |-> 1, done |-> 0]
  /\ others' = TRUE /\ UNCHANGED <<scan, imported, listed, note, dialogs, waiting, answers>>
OthersClear ==
  /\ Event /\ job.state = "over" /\ job' = NoJob
  /\ others' = TRUE /\ UNCHANGED <<scan, imported, listed, note, dialogs, waiting, answers>>

-----------------------------------------------------------------------------
(* The answers.                                                            *)

\* show_status: an import that runs is polled, and its page shown; after
\* _show_connect of the Zabbix wizard only once one was started. The CloudPanel
\* wizard has the Sites tab load again when the number of sites done differs.
ShowStatus(d, c) ==
  LET polled == [d EXCEPT !.timer = @ \/ c.job.state = "running",
                          !.lost = @ /\ c.job.state # "running"]
      shown == c.job.state # "none" /\ ~(wizard = "zabbix" /\ polled.rescan)
  IN IF shown
     THEN Progress([polled EXCEPT !.count = IF wizard = "cloudpanel" THEN c.job.done ELSE @], c.job)
     ELSE IF d.started THEN polled
     ELSE LET first == [polled EXCEPT !.started = TRUE]
          IN IF c.scan # {} THEN Choose(first, c.scan) ELSE Connect(first)

Told(d, after) == wizard = "cloudpanel" /\ after.count # d.count

\* Each call's own handler, and then the dialog is enabled again.
Handled(d, c) ==
  CASE c.what = "scan" -> Choose(d, c.scan)
    [] c.what = "start" -> ShowStatus([d EXCEPT !.count = 0, !.rescan = FALSE], c)
    [] c.what = "clear" ->
         IF wizard = "cloudpanel" /\ c.scan # {} THEN Choose(d, c.scan) ELSE Connect(d)
    [] c.what = "forget" -> Connect(d)
    [] OTHER -> ShowStatus(d, c)

\* The answers made before it that come after it are late.
Rest(i) ==
  [k \in 1..Len(answers) - 1 |->
     IF k < i THEN [answers[k] EXCEPT !.late = @ \/ answers[k].dialog = answers[i].dialog]
     ELSE answers[k + 1]]

Answered(i) ==
  LET c == answers[i]
      d == dialogs[c.dialog]
      free == [d EXCEPT !.busy = @ /\ c.what = "refresh", !.misled = @ \/ c.late]
      after == Handled(free, c)
  IN /\ c.answer = "ok" /\ c.what # "note" /\ answers' = Rest(i)
     /\ dialogs' = [dialogs EXCEPT ![c.dialog] = after]
     /\ listed' = (IF Told(IF c.what = "start" THEN [d EXCEPT !.count = 0] ELSE d, after)
                   THEN imported ELSE listed)
     /\ UNCHANGED <<wizard, server, note, waiting, others, events>>

\* check_import; a failure leaves the note as it is.
NoteAnswered(i) ==
  /\ answers[i].what = "note" /\ answers' = Rest(i)
  /\ note' = (IF answers[i].answer = "ok" THEN answers[i].job.state = "running" ELSE note)
  /\ UNCHANGED <<wizard, server, listed, dialogs, waiting, others, events>>

\* The error is shown; a poll that failed is not made again.
Failed(i) ==
  LET c == answers[i]
  IN /\ c.answer = "failed" /\ c.what # "note" /\ answers' = Rest(i)
     /\ dialogs' = [dialogs EXCEPT ![c.dialog].busy = @ /\ c.what = "refresh",
                                   ![c.dialog].lost = @ \/ (c.what = "refresh" /\ ~dialogs[c.dialog].timer),
                                   ![c.dialog].misled = @ \/ c.what # "refresh"]
     /\ UNCHANGED <<wizard, server, listed, note, waiting, others, events>>

Next ==
  \/ OpenDialog \/ Close \/ Scan \/ BackToSites \/ ScanAgain \/ Start
  \/ Cancel \/ Clear \/ Forget \/ JobEnds \/ JobCancelled \/ OthersStart \/ OthersClear
  \/ \E p \in Plans : Tick(p)
  \/ \E b \in BOOLEAN : SiteEnds(b) \/ PickPhp(b)
  \/ \E i \in DOMAIN dialogs : TimerFires(i)
  \/ \E i \in DOMAIN waiting : \E f \in SUBSET Plans : Serve(i, f)
  \/ \E i \in DOMAIN waiting \union DOMAIN answers : CallFails(i)
  \/ \E i \in DOMAIN answers : Answered(i) \/ NoteAnswered(i) \/ Failed(i)

Spec == Init /\ [][Next]_vars

-----------------------------------------------------------------------------
(* The properties.                                                         *)

Coming(d) ==
  {i \in DOMAIN waiting : waiting[i].dialog = d} \union {i \in DOMAIN answers : answers[i].dialog = d}
Quiet == Open /\ Coming(Len(dialogs)) = {} /\ ~Dialog.timer

\* A page that says an import runs is followed to its end: something that will
\* change it is under way, or a poll has failed, or the results were cleared by
\* someone else before they were read, or by itself before a late answer came:
\* a status without a job leaves the page as it is.
FollowedToItsEnd ==
  Open /\ Dialog.page = "running" =>
    Dialog.timer \/ Coming(Len(dialogs)) # {} \/ Dialog.lost \/ Dialog.misled \/ others

\* A dialog that waits for nothing shows what is there: an import that runs is
\* not offered to be started again, one that is over is reported; unless an answer
\* was lost or late, or someone else used it.
ShowsWhatRuns ==
  Quiet /\ job.state # "none" =>
    Dialog.page = job.state \/ Dialog.misled \/ Dialog.lost \/ others

\* The Sites tab then has every site that was imported; the same exceptions, and
\* where a count of an import before happens to be the same.
SitesAreListed ==
  Quiet /\ wizard = "cloudpanel" /\ Dialog.page = "over" =>
    listed = imported \/ Dialog.misled \/ Dialog.lost \/ others

\* Nothing that is blocked is asked for.
NothingBlocked ==
  \A i \in DOMAIN waiting :
    /\ "barred" \notin waiting[i].sites
    /\ "php" \in waiting[i].sites => dialogs[waiting[i].dialog].php

ImportFollowed == FollowedToItsEnd /\ ShowsWhatRuns /\ SitesAreListed /\ NothingBlocked
=============================================================================

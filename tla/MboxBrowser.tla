---------------------------- MODULE MboxBrowser ----------------------------
(***************************************************************************)
(* A tab of the mailbox browser: MboxBrowserWidget                         *)
(* (widgets/mbox_browser_widget.py) and the file its MboxReader holds open *)
(* (core/mbox_reader.py).                                                  *)
(*                                                                         *)
(* Actors: Qt's thread (the user, the search timer, the answers in the     *)
(* order the jobs ended) and the pool's threads, which index the file,     *)
(* search bodies and load messages.  The subject filter is left out: it    *)
(* is computed at once.                                                    *)
(***************************************************************************)
EXTENDS Naturals, Sequences

CONSTANTS
  Queries,
  Messages,
  Nothing,       \* no query, no message, no matches
  MaxMailEvents  \* bound of the model: what the user does

ASSUME MailAssumption ==
  /\ Nothing \notin Queries \union Messages
  /\ MaxMailEvents \in Nat

VARIABLES
  mailClosed,    \* _closed
  file,          \* the reader's file: not opened yet, open or closed
  reader,        \* self._reader is the reader
  query,         \* what the search box holds
  bodies,        \* "Search message bodies" is checked
  generation,    \* _search_generation
  timer,         \* the search timer runs
  searching,     \* the label says "Searching bodies..."
  matches,       \* the query that _body_matches answers
  selected,      \* _current_key
  preview,       \* the message the preview shows, or whose error
  mailJobs,      \* the jobs on the pool's threads
  mailAnswers,   \* their ends, waiting for Qt's thread
  mailEvents

mailVars == <<mailClosed, file, reader, query, bodies, generation, timer, searching,
          matches, selected, preview, mailJobs, mailAnswers, mailEvents>>

MailJob == [kind : {"open", "index"}]
         \union [kind : {"search"}, generation : Nat, query : Queries]
         \union [kind : {"load"}, id : Nat, message : Messages]

MailTypeOK ==
  /\ mailClosed \in BOOLEAN /\ reader \in BOOLEAN /\ bodies \in BOOLEAN
  /\ timer \in BOOLEAN /\ searching \in BOOLEAN
  /\ file \in {"unopened", "open", "closed"}
  /\ query \in Queries \union {Nothing}
  /\ matches \in Queries \union {Nothing}
  /\ selected \in Messages \union {Nothing}
  /\ preview \in Messages \union {Nothing}
  /\ generation \in Nat /\ mailEvents \in 0..MaxMailEvents
  /\ mailJobs \subseteq MailJob
  /\ mailAnswers \in Seq([job : MailJob, how : {"done", "error", "cancelled"}])

\* The tab opens, and the file is read at once.
MailInit ==
  /\ mailClosed = FALSE /\ reader = FALSE /\ file = "unopened"
  /\ query = Nothing /\ bodies = FALSE /\ generation = 0
  /\ timer = FALSE /\ searching = FALSE /\ matches = Nothing
  /\ selected = Nothing /\ preview = Nothing
  /\ mailJobs = {[kind |-> "open"]} /\ mailAnswers = <<>>
  /\ mailEvents = 0

-----------------------------------------------------------------------------
(* The user and the timer.                                                 *)

MailEvent ==
  /\ ~mailClosed /\ mailEvents < MaxMailEvents
  /\ mailEvents' = mailEvents + 1

\* _on_query_changed
QueryChanged ==
  /\ MailEvent /\ reader
  /\ \/ query' \in (Queries \union {Nothing}) \ {query} /\ bodies' = bodies
     \/ query' = query /\ bodies' = ~bodies
  /\ generation' = generation + 1
  /\ matches' = Nothing
  /\ timer' = (bodies' /\ query' # Nothing)
  /\ searching' = timer'
  /\ UNCHANGED <<mailClosed, file, reader, selected, preview, mailJobs,
                 mailAnswers>>

\* _start_body_search
StartBodySearch ==
  /\ timer
  /\ timer' = FALSE
  /\ mailJobs' =
       IF reader
         THEN mailJobs \union
                {[kind |-> "search", generation |-> generation, query |-> query]}
         ELSE mailJobs
  /\ UNCHANGED <<mailClosed, file, reader, query, bodies, generation, searching,
                 matches, selected, preview, mailAnswers, mailEvents>>

\* _on_current_item_changed
CurrentItemChanged ==
  /\ MailEvent /\ reader
  /\ \E m \in (Messages \union {Nothing}) \ {selected} :
       /\ selected' = m
       /\ preview' = IF m = Nothing THEN Nothing ELSE preview
       /\ mailJobs' = mailJobs \union
            {[kind |-> "load", id |-> mailEvents, message |-> x] : x \in {m} \ {Nothing}}
  /\ UNCHANGED <<mailClosed, file, reader, query, bodies, generation, timer,
                 searching, matches, mailAnswers>>

\* close_session; the search timer goes with the widget.
CloseMailSession ==
  /\ ~mailClosed
  /\ mailClosed' = TRUE
  /\ generation' = generation + 1
  /\ timer' = FALSE
  /\ reader' = FALSE
  /\ file' = IF reader THEN "closed" ELSE file
  /\ UNCHANGED <<query, bodies, searching, matches, selected, preview, mailJobs,
                 mailAnswers, mailEvents>>

-----------------------------------------------------------------------------
(* The pool's threads.                                                     *)

MailEnds(j, how) ==
  /\ mailJobs' = mailJobs \ {j}
  /\ mailAnswers' = Append(mailAnswers, [job |-> j, how |-> how])

MailPoolFrame ==
  UNCHANGED <<mailClosed, reader, query, bodies, generation, timer, searching,
              matches, selected, preview, mailEvents>>

\* open_and_index: a file that cannot be opened is an error ...
OpenFile ==
  \E j \in mailJobs :
    /\ j.kind = "open"
    /\ \/ /\ file' = "open"
          /\ mailJobs' = (mailJobs \ {j}) \union {[kind |-> "index"]}
          /\ UNCHANGED mailAnswers
       \/ MailEnds(j, "error") /\ UNCHANGED file
    /\ MailPoolFrame

\* ... and one that cannot be read, or whose tab was closed, is closed.
IndexFails ==
  \E j \in mailJobs :
    /\ j.kind = "index"
    /\ MailEnds(j, "error") \/ (mailClosed /\ MailEnds(j, "cancelled"))
    /\ file' = "closed"
    /\ MailPoolFrame

Indexed ==
  \E j \in mailJobs :
    /\ j.kind = "index"
    /\ MailEnds(j, "done")
    /\ UNCHANGED file
    /\ MailPoolFrame

\* search_bodies asks between two messages whether to go on; a file that is
\* closed meanwhile is an error.
SearchEnds ==
  \E j \in mailJobs :
    /\ j.kind = "search"
    /\ \/ MailEnds(j, "done") \/ MailEnds(j, "error")
       \/ j.generation # generation /\ MailEnds(j, "cancelled")
    /\ UNCHANGED file
    /\ MailPoolFrame

LoadEnds ==
  \E j \in mailJobs :
    /\ j.kind = "load"
    /\ MailEnds(j, "done") \/ MailEnds(j, "error")
    /\ UNCHANGED file
    /\ MailPoolFrame

-----------------------------------------------------------------------------
(* The answers.                                                            *)

TakesMail(kinds) ==
  /\ mailAnswers # <<>> /\ Head(mailAnswers).job.kind \in kinds
  /\ mailAnswers' = Tail(mailAnswers)

\* _on_loaded
Loaded ==
  /\ TakesMail({"index"}) /\ Head(mailAnswers).how = "done"
  /\ reader' = ~mailClosed
  /\ file' = IF mailClosed THEN "closed" ELSE file
  /\ UNCHANGED <<mailClosed, query, bodies, generation, timer, searching, matches,
                 selected, preview, mailJobs, mailEvents>>

\* _on_load_error only tells the user.
LoadError ==
  /\ TakesMail({"open", "index"}) /\ Head(mailAnswers).how # "done"
  /\ UNCHANGED <<mailClosed, file, reader, query, bodies, generation, timer,
                 searching, matches, selected, preview, mailJobs, mailEvents>>

\* Mutant of SearchAnswered: the matches of an earlier query are taken.
SearchAnsweredLate ==
  /\ TakesMail({"search"})
  /\ LET a == Head(mailAnswers)
         kept == ~mailClosed /\ a.how # "cancelled"
     IN  /\ matches' = IF kept /\ a.how = "done" THEN a.job.query ELSE matches
         /\ searching' = (searching /\ ~kept)
  /\ UNCHANGED <<mailClosed, file, reader, query, bodies, generation, timer,
                 selected, preview, mailJobs, mailEvents>>

\* _on_body_search_done and _on_body_search_error; both filter the list again.
SearchAnswered ==
  /\ TakesMail({"search"})
  /\ LET a == Head(mailAnswers)
         kept == a.job.generation = generation /\ ~mailClosed /\ a.how # "cancelled"
     IN  /\ matches' = IF kept /\ a.how = "done" THEN a.job.query ELSE matches
         /\ searching' = (searching /\ ~kept)
  /\ UNCHANGED <<mailClosed, file, reader, query, bodies, generation, timer,
                 selected, preview, mailJobs, mailEvents>>

\* _on_detail_loaded and _on_detail_error
DetailAnswered ==
  /\ TakesMail({"load"})
  /\ LET m == Head(mailAnswers).job.message
     IN  preview' = IF ~mailClosed /\ m = selected THEN m ELSE preview
  /\ UNCHANGED <<mailClosed, file, reader, query, bodies, generation, timer,
                 searching, matches, selected, mailJobs, mailEvents>>

-----------------------------------------------------------------------------
MailUserStep == QueryChanged \/ CurrentItemChanged \/ CloseMailSession
MailPoolStep == OpenFile \/ IndexFails \/ Indexed \/ SearchEnds \/ LoadEnds
MailAnswerStep == Loaded \/ LoadError \/ SearchAnswered \/ DetailAnswered

MailNext == MailUserStep \/ StartBodySearch \/ MailPoolStep \/ MailAnswerStep

MailSpec == MailInit /\ [][MailNext]_mailVars

-----------------------------------------------------------------------------
\* The jobs that have not been answered.
MailOut == mailJobs \union {mailAnswers[i].job : i \in DOMAIN mailAnswers}

\* An open file is the open tab's, or on its way to it.
FileAccounted ==
  file = "open" => reader \/ [kind |-> "index"] \in MailOut

\* The matches are those of the query in the box; while they are awaited, the
\* timer or a search of this query is on its way.
SearchIsCurrent ==
  /\ matches # Nothing => bodies /\ matches = query
  /\ searching /\ ~mailClosed =>
       timer \/ \E j \in MailOut : j.kind = "search" /\ j.generation = generation

\* The preview shows the selected message, or that message is on its way.
PreviewIsCurrent ==
  ~mailClosed /\ preview # selected =>
    \E j \in MailOut : j.kind = "load" /\ j.message = selected

(* However the indexing, the searches and the loads end around what the    *)
(* user types, selects and closes: the file is closed with its tab, and    *)
(* the tab shows what belongs to the query and the message chosen now.     *)
MailboxFollowsUser == FileAccounted /\ SearchIsCurrent /\ PreviewIsCurrent
=============================================================================

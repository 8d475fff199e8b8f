----------------------------- MODULE FtpBrowser -----------------------------
(***************************************************************************)
(* A tab of the FTP and SFTP browser: FtpBrowserWidget                     *)
(* (widgets/ftp_browser_widget.py) over its one SftpSession or FtpSession  *)
(* (core/ftp_client.py), which two threads must not use at once.           *)
(*                                                                         *)
(* Actors: Qt's thread, which handles the user and the answers, and the    *)
(* pool's threads, which make the calls.  The answers wait in the order    *)
(* the calls ended.  Left out: what the calls do on the server, the local  *)
(* pane (no call waits for it) and which folder the remote pane lists.     *)
(***************************************************************************)
EXTENDS Naturals, SequencesExt

CONSTANTS
  Children,     \* of every folder, its entries in the order they are listed
  Chosen,       \* the entries a user may choose to transfer
  NoEntry,
  MaxRequests,  \* bound of the model: transfers asked for
  MaxCalls      \* bound of the model: the user's other uses of the session

Folders == DOMAIN Children
Inside == UNION {Range(Children[f]) : f \in Folders}
Entries == Inside \union Chosen

\* A file chosen by itself needs no folder.
\* Of the constants; an ASSUME of the module that instantiates this one.
ChosenAssumption ==
  Chosen \intersect Inside = {} /\ NoEntry \notin Entries

VARIABLES
  session,     \* the connection as the tab knows it; _session_ready: "ready"
  initial,     \* _initial_uploads
  pending,     \* _pending_transfers
  inProgress,  \* _transfer_in_progress
  calls,       \* the calls that run on the pool's threads
  answers,     \* their answers, waiting for Qt's thread
  shown,       \* the remote pane has entries to choose from
  nextId,      \* _next_transfer_id
  requests,    \* transfers asked for
  others,      \* the user's other uses of the session
  tried,       \* folders whose creation has been tried, by request
  open         \* the tab is

vars == <<session, initial, pending, inProgress, calls, answers, shown, nextId,
          requests, others, tried, open>>

Directions ==
  {"upload", "download", "mkdir_remote", "mkdir_local", "scan_remote"}

\* Jobs are numbered in the order of the queue; a request's jobs share its
\* number.
Job == [id : Nat, direction : Directions, request : Nat, entry : Entries]
NoJob == [id |-> 0, direction |-> "upload", request |-> 0, entry |-> NoEntry]

\* "first" is the first listing and "panes" that of a queue run empty.  The
\* user's own "list" and "change" (a new folder, a renaming, ...) do not go
\* through the queue.
Call == [kind : {"connect", "first", "job", "panes", "list", "change", "close"},
         id : Nat, job : Job \union {NoJob}]

TypeOK ==
  /\ session \in {"connecting", "asking", "listing", "warned", "ready", "over"}
  /\ initial \in Chosen \union {NoEntry}
  /\ pending \in Seq(Job)
  /\ inProgress \in BOOLEAN /\ shown \in BOOLEAN /\ open \in BOOLEAN
  /\ calls \subseteq Call
  /\ answers \in Seq([call : Call, ok : BOOLEAN])
  /\ nextId \in Nat /\ requests \in Nat /\ others \in Nat
  /\ tried \subseteq Nat \X Folders

Use(kind, id) == [kind |-> kind, id |-> id, job |-> NoJob]

Init ==
  /\ session = "connecting"
  /\ initial \in Chosen \union {NoEntry}
  /\ pending = <<>> /\ inProgress = FALSE
  /\ calls = {Use("connect", 0)} /\ answers = <<>>
  /\ shown = FALSE
  /\ nextId = 0 /\ requests = 0 /\ others = 0
  /\ tried = {}
  /\ open = TRUE

-----------------------------------------------------------------------------
(* What a transfer is made of: steps, a direction and an entry each.       *)

IsFolder(e) == e \in Folders
IsFile(e) == e \notin Folders
Steps(direction, entries) ==
  [i \in DOMAIN entries |-> <<direction, entries[i]>>]

\* os.walk: a folder's folders, its files, and then what is in the folders.
LocalWalk[f \in Folders] ==
  LET dirs == SelectSeq(Children[f], IsFolder)
  IN  Steps("mkdir_remote", dirs)
      \o Steps("upload", SelectSeq(Children[f], IsFile))
      \o FlattenSeq([i \in DOMAIN dirs |-> LocalWalk[dirs[i]]])

\* _walk_remote_tree: every entry, a folder followed by what is in it.
RemoteWalk[f \in Folders] ==
  FlattenSeq([i \in DOMAIN Children[f] |->
    LET e == Children[f][i]
    IN  IF IsFolder(e) THEN <<<<"mkdir_local", e>>>> \o RemoteWalk[e]
                       ELSE <<<<"download", e>>>>])

Upload(e) ==
  IF IsFolder(e) THEN <<<<"mkdir_remote", e>>>> \o LocalWalk[e]
                 ELSE <<<<"upload", e>>>>

Download(e) ==
  IF IsFolder(e) THEN <<<<"mkdir_local", e>>, <<"scan_remote", e>>>>
                 ELSE <<<<"download", e>>>>

\* The jobs of the steps of a request, numbered on from nextId.
Jobs(request, steps) ==
  [i \in DOMAIN steps |->
     [id |-> nextId + i, direction |-> steps[i][1],
      request |-> request, entry |-> steps[i][2]]]

-----------------------------------------------------------------------------
(* The queue.                                                              *)

\* _process_transfer_queue: the state it finds, and what is running.
Process(queue, ready, busy, running) ==
  IF ready /\ ~busy /\ queue # <<>>
  THEN /\ pending' = Tail(queue)
       /\ inProgress' = TRUE
       /\ calls' = running \union
                     {[kind |-> "job", id |-> Head(queue).id,
                       job |-> Head(queue)]}
  ELSE /\ pending' = queue
       /\ inProgress' = busy
       /\ calls' = running

\* _enqueue_transfer, for each step.
Enqueue(request, steps) ==
  /\ nextId' = nextId + Len(steps)
  /\ Process(pending \o Jobs(request, steps), session = "ready", inProgress,
             calls)

\* A question or a warning is open: the window takes no other input.
Modal == session \in {"asking", "warned"}

Transfer(steps) ==
  /\ open /\ ~Modal /\ requests < MaxRequests
  /\ requests' = requests + 1
  /\ Enqueue(requests + 1, steps)
  /\ UNCHANGED <<session, initial, answers, shown, others, tried, open>>

UploadPaths == \E e \in Chosen : Transfer(Upload(e))

DownloadEntries == shown /\ \E e \in Chosen : Transfer(Download(e))

\* Refresh, another folder, New Folder, Rename, Delete, Change Permissions.
UseSession ==
  /\ open /\ ~Modal /\ others < MaxCalls
  /\ others' = others + 1
  /\ \E kind \in {"list", "change"} : calls' = calls \union {Use(kind, others)}
  /\ UNCHANGED <<session, initial, pending, inProgress, answers, shown,
                 nextId, requests, tried, open>>

CloseSession ==
  /\ open /\ ~Modal
  /\ open' = FALSE
  /\ calls' = calls \union {Use("close", 0)}
  /\ UNCHANGED <<session, initial, pending, inProgress, answers, shown,
                 nextId, requests, others, tried>>

-----------------------------------------------------------------------------
(* The pool's threads.                                                     *)

IsMkdir(job) == job.direction \in {"mkdir_remote", "mkdir_local"}

\* A folder that cannot be made on the server is taken to be there already.
CallEnds ==
  \E c \in calls, ok \in BOOLEAN :
    /\ c.job.direction = "mkdir_remote" => ok
    /\ calls' = calls \ {c}
    /\ answers' = IF c.kind = "close"
                    THEN answers
                    ELSE Append(answers, [call |-> c, ok |-> ok])
    /\ tried' = IF IsMkdir(c.job)
                  THEN tried \union {<<c.job.request, c.job.entry>>}
                  ELSE tried
    /\ UNCHANGED <<session, initial, pending, inProgress, shown, nextId,
                   requests, others, open>>

-----------------------------------------------------------------------------
(* The answers, on Qt's thread.                                            *)

Takes(kind, ok) ==
  /\ answers # <<>>
  /\ Head(answers).call.kind = kind /\ Head(answers).ok = ok
  /\ answers' = Tail(answers)

\* What connect() raises; OSError, a changed host key and the rest are one.
ConnectErrors == {"UnknownHostKeyError", "AuthenticationFailedError",
                  "FtpClientError"}

\* A key to trust or credentials to ask for are a question, if the tab is there
\* to ask it.  Any other error ends the attempt.
ConnectFails ==
  /\ Takes("connect", FALSE)
  /\ \E error \in ConnectErrors :
       session' = IF open /\ error # "FtpClientError" THEN "asking" ELSE "over"
  /\ UNCHANGED <<initial, pending, inProgress, calls, shown, nextId,
                 requests, others, tried, open>>

\* _prompt_trust_host_key, _retry_with_new_credentials
Retry ==
  /\ session = "asking"
  /\ session' = "connecting"
  /\ calls' = calls \union {Use("connect", 0)}
  /\ UNCHANGED <<initial, pending, inProgress, answers, shown, nextId,
                 requests, others, tried, open>>

GiveUp ==
  /\ session = "asking"
  /\ session' = "over"
  /\ UNCHANGED <<initial, pending, inProgress, calls, answers, shown,
                 nextId, requests, others, tried, open>>

\* _on_connected: the uploads asked for at the start are queued, and wait for
\* the first listing.
OnConnected ==
  /\ Takes("connect", TRUE)
  /\ session' = IF open THEN "listing" ELSE "over"
  /\ LET steps == IF open /\ initial # NoEntry THEN Upload(initial) ELSE <<>>
     IN  /\ nextId' = nextId + Len(steps)
         /\ pending' = pending \o Jobs(0, steps)
  /\ initial' = IF open THEN NoEntry ELSE initial
  /\ calls' = IF open THEN calls \union {Use("first", 0)} ELSE calls
  /\ UNCHANGED <<inProgress, shown, requests, others, tried, open>>

MarkReady(running) ==
  /\ session' = "ready"
  /\ Process(pending, TRUE, inProgress, running)

\* mark_ready_and_finish; in a closed tab set_entries raises before the mark.
FirstListed ==
  /\ Takes("first", TRUE)
  /\ shown' = (shown \/ open)
  /\ IF open THEN MarkReady(calls)
             ELSE UNCHANGED <<session, pending, inProgress, calls>>
  /\ UNCHANGED <<initial, nextId, requests, others, tried, open>>

\* ... while a listing that failed warns the user first, in an open tab.
FirstFails ==
  /\ Takes("first", FALSE)
  /\ IF open THEN session' = "warned" /\ UNCHANGED <<pending, inProgress,
                                                     calls>>
             ELSE MarkReady(calls)
  /\ UNCHANGED <<initial, shown, nextId, requests, others, tried, open>>

WarningClosed ==
  /\ session = "warned"
  /\ MarkReady(calls)
  /\ UNCHANGED <<initial, answers, shown, nextId, requests, others, tried,
                 open>>

\* A scan's jobs go to the end of the queue; in a closed tab the table they
\* are listed in is gone, and the queue stops there.
Found(job) == IF job.direction = "scan_remote" THEN RemoteWalk[job.entry] ELSE <<>>

RefreshAfter(queue) == IF queue = <<>> THEN {Use("panes", nextId)} ELSE {}

OnTransferDone ==
  /\ Takes("job", TRUE)
  /\ LET job   == Head(answers).call.job
         queue == pending \o Jobs(job.request, Found(job))
         reload == IF open THEN RefreshAfter(queue) ELSE {}
     IN  IF Found(job) # <<>> /\ ~open
           THEN /\ inProgress' = FALSE
                /\ UNCHANGED <<nextId, pending, calls>>
           ELSE /\ nextId' = nextId + Len(Found(job))
                /\ Process(queue, session = "ready", FALSE, calls \union reload)
  /\ UNCHANGED <<session, initial, shown, requests, others, tried, open>>

OnTransferFailed ==
  /\ Takes("job", FALSE)
  /\ Process(pending, session = "ready", FALSE, calls)
  /\ UNCHANGED <<session, initial, shown, nextId, requests, others, tried,
                 open>>

OnListed ==
  /\ \/ Takes("panes", TRUE) \/ Takes("list", TRUE)
  /\ shown' = (shown \/ open)
  /\ UNCHANGED <<session, initial, pending, inProgress, calls, nextId,
                 requests, others, tried, open>>

\* What the user changed is listed again.
OnChanged ==
  /\ Takes("change", TRUE)
  /\ calls' = IF open
                THEN calls \union {Use("list", MaxCalls + Head(answers).call.id)}
                ELSE calls
  /\ UNCHANGED <<session, initial, pending, inProgress, shown, nextId,
                 requests, others, tried, open>>

\* _on_error only tells the user.
OnError ==
  /\ Takes("panes", FALSE) \/ Takes("list", FALSE) \/ Takes("change", FALSE)
  /\ UNCHANGED <<session, initial, pending, inProgress, calls, shown,
                 nextId, requests, others, tried, open>>

-----------------------------------------------------------------------------
UserStep == UploadPaths \/ DownloadEntries \/ UseSession \/ CloseSession

TabStep ==
  \/ ConnectFails \/ Retry \/ GiveUp \/ OnConnected
  \/ FirstListed \/ FirstFails \/ WarningClosed
  \/ OnTransferDone \/ OnTransferFailed
  \/ OnListed \/ OnChanged \/ OnError

Next == UserStep \/ CallEnds \/ TabStep

Spec == Init /\ [][Next]_vars

-----------------------------------------------------------------------------
\* The connect, the first listing and the queue's jobs come one at a time.
OneAtATime ==
  \A c, d \in {e \in calls : e.kind \in {"connect", "first", "job"}} : c = d

\* The refresh of an empty queue meets only a job that was asked for later.
RefreshMeetsLaterJobs ==
  \A c, d \in calls : c.kind = "job" /\ d.kind = "panes" => d.id < c.id

\* The queue knows of the job that runs, and is not left waiting for nothing.
JobOut ==
  \/ \E c \in calls : c.kind = "job"
  \/ \E i \in DOMAIN answers : answers[i].call.kind = "job"

QueueMoves ==
  /\ inProgress = JobOut
  /\ open /\ session = "ready" /\ pending # <<>> => inProgress

\* Nothing is sent before the folder it goes to, of the same transfer.
FolderFirst ==
  \A c \in calls, f \in Folders :
    c.job.entry \in Range(Children[f]) => <<c.job.request, f>> \in tried

(* The tab's own uses of its connection (the connecting, the first         *)
(* listing, the jobs of the queue, and its refresh when the queue has run  *)
(* empty) do not overlap, whatever the user asks for meanwhile; a queue    *)
(* with jobs is moving; and a folder is made before what is in it.         *)
TransfersOneByOne ==
  OneAtATime /\ RefreshMeetsLaterJobs /\ QueueMoves /\ FolderFirst
=============================================================================

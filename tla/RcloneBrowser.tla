---------------------------- MODULE RcloneBrowser ----------------------------
(***************************************************************************)
(* A tab that browses one rclone remote (widgets/rclone_browser_widget.py  *)
(* and the calls of core/rclone_client.py it makes): the folder it is in,  *)
(* the rows of its table, and the listings, transfers and deletions that   *)
(* run in the background.  A listing and an upload of files read the       *)
(* folder when a thread of the pool runs them, and not when they are asked *)
(* for; and what is done to a row is done in the folder the tab is in.     *)
(*                                                                         *)
(* Left out: what files contain, their sizes and dates, and the progress   *)
(* of a download.                                                          *)
(***************************************************************************)
EXTENDS Naturals, SequencesExt, Bags

CONSTANTS
  Files, Folders,  \* names
  Picks,           \* lists of files of the disk, to upload
  MaxDepth,        \* bound of the model: of the folders
  MaxEvents,       \* bound of the model: what the user does, and failures
  MaxCalls         \* bound of the model: the calls under way at such a step

\* Of the constants; an ASSUME of the module that instantiates this one.
BoundsAssumption ==
  /\ {MaxDepth, MaxEvents, MaxCalls} \subseteq Nat
  /\ Files \intersect Folders = {}
  /\ Picks \subseteq Seq(Files) \ {<<>>}

VARIABLES
  there,     \* what the remote has: the paths of its files and folders
  path,      \* _path: the folder the tab is in
  rows,      \* of the table; of is the folder that was listed, the tab has not
  needle,    \* the search field
  closed,
  calls,
  begins,    \* history: how many listings have begun
  newest,    \* history: the last of them that has been answered
  excused,   \* history: the last listing failed, or an older one came after it
  late,      \* history: the rows were brought by an answer for another folder
  wandered,  \* history: the tab left its folder while files were uploaded
  astray,    \* history: a file went elsewhere than the status bar said
  events

history == <<begins, newest, excused, late, wandered, astray>>
vars == <<there, path, rows, needle, closed, calls, history, events>>

Names == Files \union Folders
Changes == {"upload", "folder", "delete"}
Paths == UNION {[1..n -> Names] : n \in 0..MaxDepth + 1}

\* said is the folder the status bar named; at the one it is done in.
Call == [kind : Changes \union {"list", "download"}, names : Seq(Names),
         said : Paths, begun : BOOLEAN, at : Paths, turn : Nat,
         answer : {"waiting", "failed", "ok"}, found : SUBSET Names]
Ask(kind, names, folder) ==
  [kind |-> kind, names |-> names, said |-> folder,
   begun |-> kind \notin {"list", "upload"}, at |-> folder, turn |-> 0,
   answer |-> "waiting", found |-> {}]

TypeOK ==
  /\ there \subseteq Paths /\ path \in Paths
  /\ rows \in [of : Paths, names : SUBSET Names]
  /\ needle \in Names \union {""}
  /\ {closed, excused, late, wandered, astray} \subseteq BOOLEAN
  /\ IsABag(calls) /\ BagToSet(calls) \subseteq Call
  /\ {begins, newest, events} \subseteq Nat

\* __init__, with its _reload.
Init ==
  /\ there \in {{<<d>>, <<f>>, <<d, f>>} : d \in Folders, f \in Files}
  /\ path = <<>> /\ rows = [of |-> <<>>, names |-> {}]
  /\ needle = "" /\ closed = FALSE
  /\ calls = SetToBag({Ask("list", <<>>, <<>>)})
  /\ begins = 0 /\ newest = 0 /\ excused = FALSE /\ late = FALSE
  /\ wandered = FALSE /\ astray = FALSE /\ events = 0

User ==
  /\ ~closed /\ events < MaxEvents /\ events' = events + 1
  /\ BagCardinality(calls) < MaxCalls

\* _apply_filter hides the other rows.
Visible == {n \in rows.names : needle \in {"", n}}

-----------------------------------------------------------------------------
(* The user.                                                               *)

\* _reload: the table is emptied.
Reload(folder, rest) ==
  /\ rows' = [of |-> folder, names |-> {}] /\ late' = FALSE
  /\ calls' = rest (+) SetToBag({Ask("list", <<>>, folder)})

ChangeDirectory(folder) ==
  /\ User
  /\ needle' = "" /\ path' = folder
  /\ Reload(folder, calls)
  /\ wandered' = (wandered \/ \E c \in BagToSet(calls) : c.kind = "upload")
  /\ UNCHANGED <<there, closed, begins, newest, excused, astray>>

\* _on_item_double_clicked: a folder's row.
Open(n) ==
  /\ n \in Visible \intersect Folders /\ Len(path) < MaxDepth
  /\ ChangeDirectory(Append(path, n))

\* _go_up, and _navigate_to by the breadcrumb.
GoTo(folder) == IsStrictPrefix(folder, path) /\ ChangeDirectory(folder)

Refresh ==
  /\ User /\ Reload(path, calls)
  /\ UNCHANGED <<there, path, needle, closed, begins, newest, excused, wandered, astray>>

Search(text) ==
  /\ User /\ needle' = text
  /\ UNCHANGED <<there, path, rows, closed, calls, history>>

Sends(kind, names) ==
  /\ User /\ calls' = calls (+) SetToBag({Ask(kind, names, path)})
  /\ UNCHANGED <<there, path, rows, needle, closed, history>>

\* _download and _delete_entry, of a row.
Download(n) == n \in Visible \ Folders /\ Sends("download", <<n>>)
Delete(n) == n \in Visible /\ Sends("delete", <<n>>)

\* Whatever is chosen on the disk, which need not be in the table.
UploadFiles(names) == Sends("upload", names)
UploadFolder(n) == Len(path) < MaxDepth /\ Sends("folder", <<n>>)

\* try_close_tab: what is under way goes on.
Close ==
  /\ ~closed /\ closed' = TRUE
  /\ UNCHANGED <<there, path, rows, needle, calls, history, events>>

-----------------------------------------------------------------------------
(* The threads of the pool, and rclone.                                    *)

Becomes(c, d) == calls' = (calls (-) SetToBag({c})) (+) SetToBag({d})
tabFrame == <<path, rows, needle, closed, newest, excused, late, wandered>>

\* The thread comes to the call, or to the next file of an upload: it reads _path.
Begin(c) ==
  /\ ~c.begun
  /\ begins' = IF c.kind = "list" THEN begins + 1 ELSE begins
  /\ Becomes(c, [c EXCEPT !.begun = TRUE, !.at = path, !.turn = begins'])
  /\ UNCHANGED <<there, tabFrame, astray, events>>

Waits(c) == c.begun /\ c.answer = "waiting"
Target(c) == Append(c.at, Head(c.names))
Above(folder) == {SubSeq(folder, 1, i) : i \in 1..Len(folder)}
IsThere(p) == p = <<>> \/ p \in there

\* copyto, copy, and deletefile or purge: what the remote has after them.
After(c) ==
  CASE c.kind = "upload" -> {there \union Above(Target(c))}
    [] c.kind = "folder" ->
         {there \union Above(Append(Target(c), f)) : f \in Files}
    [] c.kind = "delete" -> {{p \in there : ~IsPrefix(Target(c), p)}}
    [] OTHER -> {there}

Possible(c) ==
  CASE c.kind = "list" -> IsThere(c.at)
    [] c.kind \in {"delete", "download"} -> IsThere(Target(c))
    [] OTHER -> TRUE

Astray(c) == astray' = (astray \/ (there' # there /\ c.at # c.said))

Serve(c) ==
  /\ Waits(c) /\ Possible(c)
  /\ there' \in After(c) /\ Astray(c)
  /\ Becomes(c, IF c.kind = "upload" /\ Len(c.names) > 1
                THEN [c EXCEPT !.names = Tail(@), !.begun = FALSE]
                ELSE [c EXCEPT !.answer = "ok",
                               !.found = {n \in Names : c.kind = "list"
                                                         /\ Append(c.at, n) \in there}])
  /\ UNCHANGED <<tabFrame, begins, events>>

\* rclone fails; or it is killed by its timeout, and may have been done.
Fail(c) ==
  /\ Waits(c)
  /\ IF Possible(c) THEN events < MaxEvents /\ events' = events + 1 ELSE UNCHANGED events
  /\ there' \in {there} \union After(c) /\ Astray(c)
  /\ Becomes(c, [c EXCEPT !.answer = "failed"])
  /\ UNCHANGED <<tabFrame, begins>>

-----------------------------------------------------------------------------
(* The answers.                                                            *)

Rest(c) == calls (-) SetToBag({c})
Later(m, n) == IF m > n THEN m ELSE n

\* _on_listing_loaded: the rows of a tab that was closed are gone.
ShowListing(c) ==
  /\ c.answer = "ok" /\ c.kind = "list" /\ calls' = Rest(c)
  /\ IF closed THEN UNCHANGED <<rows, late>>
     ELSE rows' = [of |-> c.at, names |-> c.found] /\ late' = (c.at # path)
  /\ newest' = Later(newest, c.turn) /\ excused' = (c.turn < newest)
  /\ UNCHANGED <<there, path, needle, closed, begins, wandered, astray, events>>

\* _on_upload_done and _on_delete_done, with _reload_if_open.
Done(c) ==
  /\ c.answer = "ok" /\ c.kind \in Changes
  /\ IF closed THEN calls' = Rest(c) /\ UNCHANGED <<rows, late>>
     ELSE Reload(path, Rest(c))
  /\ UNCHANGED <<there, path, needle, closed, begins, newest, excused, wandered, astray, events>>

Downloaded(c) ==
  /\ c.answer = "ok" /\ c.kind = "download" /\ calls' = Rest(c)
  /\ UNCHANGED <<there, path, rows, needle, closed, history, events>>

\* _on_error: nothing is listed again, although a change may have been made.
Failed(c) ==
  /\ c.answer = "failed" /\ calls' = Rest(c)
  /\ IF c.kind \in Changes
     THEN begins' = begins + 1 /\ newest' = begins' /\ excused' = TRUE
     ELSE /\ newest' = Later(newest, c.turn) /\ UNCHANGED begins
          /\ excused' = (excused \/ (c.kind = "list" /\ c.turn >= newest))
  /\ UNCHANGED <<there, path, rows, needle, closed, late, wandered, astray, events>>

Next ==
  \/ \E n \in Names : Open(n) \/ Download(n) \/ Delete(n)
  \/ \E folder \in Paths : GoTo(folder)
  \/ Refresh
  \/ \E text \in Names \union {""} : text # needle /\ Search(text)
  \/ \E names \in Picks : UploadFiles(names)
  \/ \E n \in Folders : UploadFolder(n)
  \/ Close
  \/ \E c \in BagToSet(calls) :
       \/ Begin(c) \/ Serve(c) \/ Fail(c) \/ ShowListing(c) \/ Done(c)
       \/ Downloaded(c) \/ Failed(c)

Spec == Init /\ [][Next]_vars

-----------------------------------------------------------------------------
(* Once nothing is under way the table shows what the folder has that the  *)
(* tab is in.  (Not when the last listing failed or was overtaken by an     *)
(* older one, nor after a change that failed: it may have been made.)      *)
TableCatchesUp ==
  (~closed /\ {c \in BagToSet(calls) : c.kind # "download"} = {} /\ ~excused)
    => rows = [of |-> path,
               names |-> IF IsThere(path)
                         THEN {n \in Names : Append(path, n) \in there} ELSE {}]

(* What is done to a row is done to the file or folder it stands for: the  *)
(* rows are those of the folder the tab is in, unless an answer for one it *)
(* has left came late.                                                     *)
RowsAreOfTheFolder == rows.names # {} /\ ~late => rows.of = path

(* A file goes to the folder the status bar names, unless the tab has left *)
(* that folder while the upload was under way.                             *)
UploadsAsSaid == astray => wandered

RemoteFollows == TableCatchesUp /\ RowsAreOfTheFolder /\ UploadsAsSaid
=============================================================================

----------------------------- MODULE StressTest -----------------------------
(***************************************************************************)
(* One run of the SFTP or FTP server test (core/sftp_stress_test.py, which *)
(* core/ftp_stress_test.py derives from, and the tab of                    *)
(* widgets/sftp_server_test_widget.py): the folder it makes on the server, *)
(* the workers that fill it, and the tasks that remove it.                 *)
(*                                                                         *)
(* Actors: Qt's thread (the tab's state and the answers delivered to it),  *)
(* the pool's tasks (prepare and the wind-downs), one thread for each      *)
(* worker, and the server, which may end any connection.                   *)
(*                                                                         *)
(* Folders and files are the numbers of Paths; the server lists a folder   *)
(* in their order.  What a file holds does not matter here.                *)
(***************************************************************************)
EXTENDS Naturals, Sequences, FiniteSetsExt

CONSTANTS
  Paths,      \* 1 is the test folder
  Dirs,       \* those of Paths that are folders
  Within,     \* the folder each other path is in
  Owner,      \* the worker each other path belongs to
  Home,       \* the folder of each worker
  Wipers,     \* the tasks that may be asked to remove the folder
  MaxDrops    \* bound of the model: connections the server ends

Root == 1
Workers == DOMAIN Home

\* Of the constants; an ASSUME of the module that instantiates this one.
StressAssumption ==
  /\ Root \in Dirs /\ Dirs \subseteq Paths /\ Paths \subseteq Nat
  /\ \A p \in Paths \ {Root} : Within[p] \in Dirs /\ Within[p] < p

VARIABLES
  state,      \* _state of the tab
  closed,     \* _closed
  current,    \* the tab's _test is this run
  cleanup,    \* the test's configuration asks for its folder to be removed
  prepare,    \* prepare(): "off", "runs", "made", "ok" or "failed"
  root,       \* the run's root is set
  stopped,    \* _stop is set
  worker,     \* each worker: "off", "out", "in" (connected) or "over"
  tree,       \* the paths that exist on the server
  wiper,      \* each wind-down: "off", "join", "list", "walk", "ok", "failed" or "done"
  frames,     \* its recursion: the folders it is in, with what it listed there
  drops       \* connections the server has ended

vars == <<state, closed, current, cleanup, prepare, root, stopped, worker, tree,
          wiper, frames, drops>>

tabVars    == <<state, closed, current, cleanup>>
workerVars == <<stopped, worker>>
wipeVars   == <<wiper, frames>>

States == {"IDLE", "STARTING", "RUNNING", "STOPPING"}

TypeOK ==
  /\ state \in States
  /\ closed \in BOOLEAN /\ current \in BOOLEAN /\ cleanup \in BOOLEAN
  /\ prepare \in {"off", "runs", "made", "ok", "failed"}
  /\ root \in BOOLEAN /\ stopped \in BOOLEAN
  /\ worker \in [Workers -> {"off", "out", "in", "over"}]
  /\ tree \subseteq Paths
  /\ wiper \in [Wipers -> {"off", "join", "list", "walk", "ok", "failed", "done"}]
  /\ \A t \in Wipers : \A i \in DOMAIN frames[t] :
       frames[t][i].dir \in Dirs /\ frames[t][i].left \subseteq Paths
  /\ drops \in 0..MaxDrops

Init ==
  /\ state = "IDLE" /\ closed = FALSE /\ current = FALSE /\ cleanup \in BOOLEAN
  /\ prepare = "off" /\ root = FALSE
  /\ stopped = FALSE /\ worker = [w \in Workers |-> "off"]
  /\ tree = {}
  /\ wiper = [t \in Wipers |-> "off"] /\ frames = [t \in Wipers |-> <<>>]
  /\ drops = 0

-----------------------------------------------------------------------------
(* prepare(), in the pool.                                                 *)

\* start, of the tab's first run and of another one after a failed prepare.
\* (A run that follows a finished one has a folder of its own.)
Start ==
  /\ state = "IDLE" /\ ~closed /\ ~current /\ prepare = "off"
  /\ state' = "STARTING"
  /\ current' = TRUE
  /\ prepare' = "runs"
  /\ stopped' = FALSE
  /\ UNCHANGED <<closed, cleanup, root, worker, tree, wipeVars, drops>>

\* The folder is made ...
Prepare ==
  /\ prepare = "runs"
  /\ tree' = {Root}
  /\ prepare' = "made"
  /\ UNCHANGED <<tabVars, root, workerVars, wipeVars, drops>>

\* ... and only once its connection is closed does the run know it.
Prepared ==
  /\ prepare = "made"
  /\ root' = TRUE
  /\ prepare' = "ok"
  /\ UNCHANGED <<tabVars, workerVars, tree, wipeVars, drops>>

\* No connection, an unknown host key, a folder that cannot be made.
PrepareFails ==
  /\ prepare = "runs"
  /\ prepare' = "failed"
  /\ UNCHANGED <<tabVars, root, workerVars, tree, wipeVars, drops>>

-----------------------------------------------------------------------------
(* Qt's thread.                                                            *)

Free == {t \in Wipers : wiper[t] = "off"}

\* run_in_background of wind_down, or of cleanup alone.
Wind(first) == \E t \in Free : wiper' = [wiper EXCEPT ![t] = first]

OnPrepared ==
  /\ prepare = "ok"
  /\ prepare' = "off"
  /\ CASE closed -> /\ IF cleanup THEN Wind("list") ELSE UNCHANGED wiper
                    /\ UNCHANGED <<state, worker>>
       [] ~closed /\ state # "STARTING" -> Wind("join") /\ UNCHANGED <<state, worker>>
       [] ~closed /\ state = "STARTING" -> /\ worker' = [w \in Workers |-> "out"]
                                           /\ state' = "RUNNING"
                                           /\ UNCHANGED wiper
  /\ UNCHANGED <<closed, current, cleanup, root, stopped, tree, frames, drops>>

(* _on_prepare_error: an unknown host key is asked about while the run is  *)
(* still starting, and prepare is tried again once it is trusted.          *)
OnPrepareError ==
  /\ prepare = "failed"
  /\ \/ /\ current /\ state = "STARTING"
        /\ prepare' = "runs"
        /\ UNCHANGED <<state, current>>
     \/ /\ current
        /\ prepare' = "off"
        /\ state' = "IDLE" /\ current' = FALSE
     \/ /\ ~current
        /\ prepare' = "off"
        /\ UNCHANGED <<state, current>>
  /\ UNCHANGED <<closed, cleanup, root, workerVars, tree, wipeVars, drops>>

Stop ==
  /\ current /\ state \in {"STARTING", "RUNNING"}
  /\ stopped' = TRUE
  /\ state' = "STOPPING"
  /\ IF state = "RUNNING" THEN Wind("join") ELSE UNCHANGED wiper
  /\ UNCHANGED <<closed, current, cleanup, prepare, root, worker, tree, frames, drops>>

\* _on_finished, of a wind-down that _finish started.
OnFinished(t) ==
  /\ wiper[t] \in {"ok", "failed"}
  /\ wiper' = [wiper EXCEPT ![t] = "done"]
  /\ state' = IF current THEN "IDLE" ELSE state
  /\ UNCHANGED <<closed, current, cleanup, prepare, root, workerVars, tree, frames, drops>>

CloseSession ==
  /\ ~closed
  /\ closed' = TRUE
  /\ current' = FALSE
  /\ IF ~current \/ state = "IDLE"
     THEN UNCHANGED <<stopped, wiper>>
     ELSE /\ stopped' = TRUE
          /\ IF root THEN Wind("join") ELSE UNCHANGED wiper
  /\ UNCHANGED <<state, cleanup, prepare, root, worker, tree, frames, drops>>

-----------------------------------------------------------------------------
(* A worker's thread: _Worker.run, one operation at a step.                *)

Become(w, how) ==
  /\ worker' = [worker EXCEPT ![w] = how]
  /\ UNCHANGED <<tabVars, prepare, root, stopped, wipeVars>>

\* _connect makes the worker's folder, unless it is there already.
Connect(w) ==
  /\ worker[w] = "out" /\ ~stopped
  /\ Become(w, "in")
  /\ tree' = tree \union {Home[w]}
  /\ UNCHANGED drops

\* upload, mkdir, and what is left of an upload that fails or is cancelled.
Create(w) ==
  /\ worker[w] = "in"
  /\ \E p \in {q \in Paths \ ({Root} \union tree) : Owner[q] = w /\ Within[q] \in tree} :
       tree' = tree \union {p}
  /\ UNCHANGED <<tabVars, prepare, root, workerVars, wipeVars, drops>>

Empty(p) == \A q \in tree \ {Root} : Within[q] # p

\* delete, of a file or of an empty folder.
Delete(w) ==
  /\ worker[w] = "in"
  /\ \E p \in {q \in tree \ {Root} : Owner[q] = w /\ q # Home[w] /\ Empty(q)} :
       tree' = tree \ {p}
  /\ UNCHANGED <<tabVars, prepare, root, workerVars, wipeVars, drops>>

Rename(w) ==
  /\ worker[w] = "in"
  /\ \E old \in {q \in tree \ Dirs : Owner[q] = w} :
     \E new \in {q \in Paths \ (Dirs \union tree) : Owner[q] = w /\ Within[q] \in tree} :
       tree' = (tree \ {old}) \union {new}
  /\ UNCHANGED <<tabVars, prepare, root, workerVars, wipeVars, drops>>

LoseConnection(w) ==
  /\ worker[w] = "in" /\ drops < MaxDrops
  /\ Become(w, "out")
  /\ drops' = drops + 1
  /\ UNCHANGED tree

\* The loop sees _stop, between two operations or inside a transfer.
WorkerEnds(w) ==
  /\ worker[w] \in {"out", "in"} /\ stopped
  /\ Become(w, "over")
  /\ UNCHANGED <<tree, drops>>

-----------------------------------------------------------------------------
(* wind_down: join, then cleanup, which is remove_tree over a connection   *)
(* of its own.  Any call of remove_tree that fails ends it.                *)

Inside(d) == {p \in tree \ {Root} : Within[p] = d}
Frame(d)  == [dir |-> d, left |-> Inside(d)]
Top(t)    == frames[t][Len(frames[t])]
Above(t)  == SubSeq(frames[t], 1, Len(frames[t]) - 1)

Wipe(t, how, stack) ==
  /\ wiper' = [wiper EXCEPT ![t] = how]
  /\ frames' = [frames EXCEPT ![t] = stack]
  /\ UNCHANGED <<tabVars, prepare, root, workerVars>>

\* Mutant of Joined: the workers are told to stop, and not waited for.
JoinedAtOnce(t) ==
  /\ wiper[t] = "join"
  /\ Wipe(t, IF cleanup THEN "list" ELSE "ok", <<>>)
  /\ UNCHANGED <<tree, drops>>

Joined(t) ==
  /\ wiper[t] = "join"
  /\ \A w \in Workers : worker[w] \in {"off", "over"}
  /\ Wipe(t, IF cleanup THEN "list" ELSE "ok", <<>>)
  /\ UNCHANGED <<tree, drops>>

ListRoot(t) ==
  /\ wiper[t] = "list"
  /\ IF Root \in tree THEN Wipe(t, "walk", <<Frame(Root)>>) ELSE Wipe(t, "failed", <<>>)
  /\ UNCHANGED <<tree, drops>>

\* The next entry of the folder: a file is removed, a folder is gone into.
WipeEntry(t) ==
  /\ wiper[t] = "walk" /\ Top(t).left # {}
  /\ LET p    == Min(Top(t).left)
         rest == Append(Above(t), [Top(t) EXCEPT !.left = @ \ {p}])
     IN CASE p \notin tree -> Wipe(t, "failed", <<>>) /\ UNCHANGED tree
          [] p \in tree \ Dirs -> Wipe(t, "walk", rest) /\ tree' = tree \ {p}
          [] p \in tree \intersect Dirs ->
               Wipe(t, "walk", Append(rest, Frame(p))) /\ UNCHANGED tree
  /\ UNCHANGED drops

\* Its entries are done: the folder itself.
WipeFolder(t) ==
  /\ wiper[t] = "walk" /\ Top(t).left = {}
  /\ LET d == Top(t).dir
     IN IF d \notin tree \/ Inside(d) # {}
        THEN Wipe(t, "failed", <<>>) /\ UNCHANGED tree
        ELSE /\ tree' = tree \ {d}
             /\ Wipe(t, IF d = Root THEN "ok" ELSE "walk", Above(t))
  /\ UNCHANGED drops

\* The server ends the wind-down's connection, or refuses it.
WipeDropped(t) ==
  /\ wiper[t] \in {"list", "walk"} /\ drops < MaxDrops
  /\ Wipe(t, "failed", <<>>)
  /\ drops' = drops + 1
  /\ UNCHANGED tree

-----------------------------------------------------------------------------
WorkerStep(w) ==
  \/ Connect(w) \/ Create(w) \/ Delete(w) \/ Rename(w)
  \/ LoseConnection(w) \/ WorkerEnds(w)

WiperStep(t) ==
  \/ Joined(t) \/ ListRoot(t) \/ WipeEntry(t) \/ WipeFolder(t)
  \/ WipeDropped(t) \/ OnFinished(t)

Next ==
  \/ Start \/ Prepare \/ Prepared \/ PrepareFails
  \/ OnPrepared \/ OnPrepareError
  \/ Stop \/ CloseSession
  \/ \E w \in Workers : WorkerStep(w)
  \/ \E t \in Wipers : WiperStep(t)

Spec == Init /\ [][Next]_vars

-----------------------------------------------------------------------------
(* Nothing is under way any more: the run was stopped, or its tab closed,  *)
(* its tasks are over and what they reported has been taken note of.       *)
Quiet ==
  /\ prepare = "off"
  /\ \A w \in Workers : worker[w] \in {"off", "over"}
  /\ \A t \in Wipers : wiper[t] \in {"off", "done"}

(* A run whose folder is to be removed leaves nothing on the server,       *)
(* however Stop and closing the tab fall against prepare, the workers and  *)
(* an earlier wind-down: two wind-downs may remove the same tree at once,  *)
(* each failing on what the other has removed, but never both.  (Unless    *)
(* the server ended a connection: no wind-down is tried again.)            *)
NothingIsLeft == Quiet /\ cleanup /\ drops = 0 => tree = {}
=============================================================================

------------------------------ MODULE MountManager ------------------------------
(***************************************************************************)
(* Mounted cloud remotes: MountManager (core/rclone_mount.py) and the       *)
(* CloudStorageView that drives it.  mount() and unmount() run on           *)
(* thread-pool threads, mount_point() and unmount_all() on the main thread, *)
(* all of them on one table without a lock; each mount is an `rclone mount` *)
(* process that may die on its own at any time.                             *)
(*                                                                         *)
(* One step is one access to the table, to a process or to its control API. *)
(* A mount folder is mounted while the rclone process that serves it lives: *)
(* _stop's kill and _force_unmount always succeed here.                     *)
(***************************************************************************)
EXTENDS Naturals, FiniteSets

CONSTANTS
    Remotes,    \* rclone remotes
    Procs,      \* numbers for rclone processes; a dead one's is used again
    Files,      \* files saved in a mounted folder, at most once per process
    Jobs,       \* pool threads the view's operations run on
    None        \* Python's None

ASSUME MountAssumption ==
    /\ IsFiniteSet(Remotes) /\ IsFiniteSet(Procs) /\ IsFiniteSet(Jobs)
    /\ Procs \subseteq Nat /\ None \notin Remotes \cup Procs
    /\ "quit" \notin Jobs

VARIABLES
    mounts,         \* manager._mounts
    proc,           \* the rclone processes
    upload,         \* each process's uploads
    deaf,           \* processes whose control API does not answer
    busy,           \* the keys of _mount_busy
    configured,     \* the remotes in rclone's configuration
    th,             \* the pool threads, and the main thread in unmount_all
    main, menu,     \* the main thread; the context menu, open or None
    entangled,      \* history: remotes removed while another operation of
                    \* theirs was under way
    late            \* history: remotes registered after the quit began

historyVars == <<entangled, late>>
rcloneVars == <<proc, upload, deaf>>
viewVars == <<busy, main, menu>>
vars == <<mounts, rcloneVars, viewVars, configured, th, historyVars>>

QuitThread == "quit"
Threads == Jobs \cup {QuitThread}

Idle == [kind |-> "none", r |-> None, pc |-> "idle", p |-> None,
         owed |-> {}, timedOut |-> FALSE]
Start(kind, r) ==
    [Idle EXCEPT !.kind = kind, !.r = r,
                 !.pc = IF kind = "mount" THEN "check" ELSE "get"]

Loop == [at |-> "loop", left |-> {}, looked |-> None, then |-> "none", r |-> None]
Refresh(then, r) ==
    [Loop EXCEPT !.at = "refresh", !.left = Remotes, !.then = then, !.r = r]

NoProcess == [st |-> "gone", r |-> None]
NoUploads == [f \in Files |-> "unsaved"]
Live(p) == proc[p].st # "gone"
Active(t) == th[t].pc \notin {"idle", "done", "failed"}
Pending(p) == {f \in Files : upload[p][f] = "queued"}
Quitting == main.at \in {"unmount_all", "wait_for_pool", "exited"}

Init ==
    /\ mounts = [r \in Remotes |-> None]
    /\ proc = [p \in Procs |-> NoProcess]
    /\ upload = [p \in Procs |-> NoUploads]
    /\ deaf = {} /\ busy = {} /\ configured = Remotes
    /\ th = [t \in Threads |-> Idle]
    /\ main = Loop /\ menu = None
    /\ entangled = {} /\ late = {}

-------------------------------------------------------------------------------
(* rclone and the user's other programs. *)

Appear(p) ==
    /\ proc[p].st = "starting" /\ proc[p].r \in configured
    /\ proc' = [proc EXCEPT ![p].st = "mounted"]
    /\ UNCHANGED <<upload, deaf>>

End(p) ==
    /\ proc' = [proc EXCEPT ![p] = NoProcess]
    /\ upload' = [upload EXCEPT ![p] = NoUploads]
    /\ deaf' = deaf \ {p}

\* An error at the start, a network failure, an external unmount.
Die(p) == Live(p) /\ End(p)

Save(p, f) ==
    /\ proc[p].st = "mounted" /\ upload[p][f] = "unsaved"
    /\ upload' = [upload EXCEPT ![p][f] = "queued"]
    /\ UNCHANGED <<proc, deaf>>

Upload(p, f) ==
    /\ proc[p].st = "mounted" /\ upload[p][f] = "queued"
    /\ upload' = [upload EXCEPT ![p][f] = "stored"]
    /\ UNCHANGED <<proc, deaf>>

GoDeaf(p) ==
    /\ Live(p) /\ p \notin deaf
    /\ deaf' = deaf \cup {p}
    /\ UNCHANGED <<proc, upload>>

Rclone ==
    /\ \E p \in Procs :
         Appear(p) \/ Die(p) \/ GoDeaf(p) \/ \E f \in Files : Save(p, f) \/ Upload(p, f)
    /\ UNCHANGED <<mounts, viewVars, configured, th, historyVars>>

-------------------------------------------------------------------------------
(* mount(), on a pool thread. *)

At(t, pc) == th[t].pc = pc
Goto(t, pc) == th' = [th EXCEPT ![t].pc = pc]
Leave(t, pc) == th' = [th EXCEPT ![t] = [Start(@.kind, @.r) EXCEPT !.pc = pc]]

\* is_mounted: an entry whose process is dead is looked at here and deleted
\* in a step of its own.
Check(t) ==
    LET p == mounts[th[t].r] IN
    /\ At(t, "check")
    /\ Goto(t, CASE p = None -> "launch" [] p # None /\ Live(p) -> "done"
                 [] OTHER -> "purge")
    /\ UNCHANGED <<mounts, rcloneVars>>

\* `del self._mounts[remote_name]`: a KeyError if another thread popped it.
Purge(t) ==
    /\ At(t, "purge")
    /\ Goto(t, IF mounts[th[t].r] = None THEN "failed" ELSE "launch")
    /\ mounts' = [mounts EXCEPT ![th[t].r] = None]
    /\ UNCHANGED rcloneVars

Mounted(r) == \E p \in Procs : proc[p].st = "mounted" /\ proc[p].r = r

\* A process nothing refers to any more gives its name to the next one.
Unused(p) ==
    /\ ~Live(p) /\ \A t \in Threads : th[t].p # p
    /\ \A r \in Remotes : mounts[r] # p

\* rclone or FUSE is missing, or the folder is a mount point or not empty.
Refuse(t) ==
    /\ At(t, "launch") /\ Goto(t, "failed")
    /\ UNCHANGED <<mounts, rcloneVars>>

Launch(t) ==
    /\ At(t, "launch") /\ ~Mounted(th[t].r)
    /\ \E p \in Procs :
         /\ Unused(p)
         /\ \A q \in Procs : Unused(q) => p <= q
         /\ proc' = [proc EXCEPT ![p] = [st |-> "starting", r |-> th[t].r]]
         /\ th' = [th EXCEPT ![t].pc = "wait", ![t].p = p]
    /\ UNCHANGED <<mounts, upload, deaf>>

SawExit(t) ==
    /\ At(t, "wait") /\ ~Live(th[t].p) /\ Leave(t, "failed")
    /\ UNCHANGED <<mounts, rcloneVars>>

Register(t) ==
    /\ At(t, "wait") /\ Mounted(th[t].r) /\ Live(th[t].p)
    /\ mounts' = [mounts EXCEPT ![th[t].r] = th[t].p]
    /\ late' = IF Quitting THEN late \cup {th[t].r} ELSE late
    /\ Leave(t, "done")
    /\ UNCHANGED rcloneVars

\* _stop: nothing to do for a process that has ended.
StopProcess(p) == IF Live(p) THEN End(p) ELSE UNCHANGED rcloneVars

\* Mutant of GiveUp: the process of a mount that timed out is left running.
GiveUpOnly(t) ==
    /\ At(t, "wait") /\ Leave(t, "failed")
    /\ UNCHANGED <<mounts, rcloneVars>>

GiveUp(t) ==
    /\ At(t, "wait")
    /\ StopProcess(th[t].p) /\ Leave(t, "failed")
    /\ UNCHANGED mounts

-------------------------------------------------------------------------------
(* unmount(), on a pool thread or within unmount_all, and the deletion that *)
(* follows it in _unmount_and_delete.                                       *)

After(t) == IF th[t].kind = "remove" THEN "delete" ELSE "done"

Get(t) ==
    LET p == mounts[th[t].r] IN
    /\ At(t, "get")
    /\ th' = [th EXCEPT ![t] =
         IF p = None THEN [@ EXCEPT !.pc = After(t)]
         ELSE [@ EXCEPT !.pc = "drain", !.p = p,
                        !.owed = IF Live(p) THEN Pending(p) ELSE {}]]
    /\ UNCHANGED <<mounts, rcloneVars>>

\* Mutant of Drained: the uploads are not asked for.
DrainSkipped(t) ==
    /\ At(t, "drain") /\ Goto(t, "pop")
    /\ UNCHANGED <<mounts, rcloneVars>>

\* An API that does not answer counts as no uploads.
Drained(t) ==
    /\ At(t, "drain")
    /\ ~Live(th[t].p) \/ Pending(th[t].p) = {} \/ th[t].p \in deaf
    /\ Goto(t, "pop")
    /\ UNCHANGED <<mounts, rcloneVars>>

DrainTimesOut(t) ==
    /\ At(t, "drain")
    /\ th' = [th EXCEPT ![t].pc = "pop", ![t].timedOut = TRUE]
    /\ UNCHANGED <<mounts, rcloneVars>>

Pop(t) ==
    /\ At(t, "pop") /\ Goto(t, "stop")
    /\ mounts' = [mounts EXCEPT ![th[t].r] = None]
    /\ UNCHANGED rcloneVars

Stop(t) ==
    /\ At(t, "stop") /\ Leave(t, After(t))
    /\ StopProcess(th[t].p)
    /\ UNCHANGED mounts

\* rclone_client.delete_remote, which may fail.
Delete(t) ==
    /\ At(t, "delete")
    /\ \/ Goto(t, "done") /\ configured' = configured \ {th[t].r}
       \/ Goto(t, "failed") /\ UNCHANGED configured
    /\ UNCHANGED <<mounts, rcloneVars>>

ThreadStep(t) ==
    /\ \/ /\ \/ Check(t) \/ Purge(t) \/ Refuse(t) \/ Launch(t) \/ SawExit(t) \/ GiveUp(t)
             \/ Get(t) \/ Drained(t) \/ DrainTimesOut(t) \/ Pop(t) \/ Stop(t)
          /\ UNCHANGED <<configured, late>>
       \/ Register(t) /\ UNCHANGED configured
       \/ Delete(t) /\ UNCHANGED late
    /\ UNCHANGED <<viewVars, entangled>>

-------------------------------------------------------------------------------
(* The view.  A handler that calls mount_point() looks at the entries one   *)
(* by one and deletes those whose process is dead; then it goes on with     *)
(* main.then.                                                               *)

Dead(r) == mounts[r] # None /\ ~Live(mounts[r])

FreeJob(j) == th[j].pc = "idle"

\* run_in_background.
Run(j, kind, r) ==
    /\ th' = [th EXCEPT ![j] = Start(kind, r)]
    /\ entangled' =
         IF \E i \in Jobs : /\ Active(i) /\ th[i].r = r
                            /\ "remove" \in {kind, th[i].kind}
         THEN entangled \cup {r} ELSE entangled

\* del in mount_point(): a KeyError ends the handler if a pool thread has
\* popped the entry since it was looked at.
LookAtDead ==
    /\ main.at = "refresh"
    /\ \E q \in main.left : /\ Dead(q)
                            /\ main' = [main EXCEPT !.at = "purge", !.looked = q]
    /\ UNCHANGED <<mounts, busy, menu, th, entangled>>

PurgeDead ==
    /\ main.at = "purge"
    /\ mounts' = [mounts EXCEPT ![main.looked] = None]
    /\ main' = IF mounts[main.looked] = None THEN Loop
               ELSE [main EXCEPT !.at = "refresh", !.looked = None,
                                 !.left = @ \ {main.looked}]
    /\ UNCHANGED <<busy, menu, th, entangled>>

Offer(r) == IF r \in busy THEN "none"
            ELSE IF mounts[r] = None THEN "mount" ELSE "unmount"

LookDone ==
    /\ main.at = "refresh" /\ \A q \in main.left : ~Dead(q)
    /\ main' = Loop
    /\ CASE main.then = "none" -> UNCHANGED <<menu, th, entangled>>
         [] main.then = "menu" -> /\ menu' = [r |-> main.r, offer |-> Offer(main.r)]
                                  /\ UNCHANGED <<th, entangled>>
         [] OTHER -> /\ UNCHANGED menu
                     /\ \E j \in Jobs : FreeJob(j) /\ Run(j, main.then, main.r)
    /\ UNCHANGED <<mounts, busy>>

\* An item stays in the tree until its removal is reported.
Shown(r) == \/ r \in configured
            \/ \E j \in Jobs : th[j].kind = "remove" /\ th[j].r = r

OpenMenu(r) ==
    /\ main = Loop /\ menu = None /\ Shown(r)
    /\ main' = [Refresh("menu", r) EXCEPT !.left = {r}]
    /\ UNCHANGED <<mounts, busy, menu, th, entangled>>

\* Mutant of ChooseOffered: _mount_busy is keyed by its value.
ChooseOfferedByLabel ==
    /\ main = Loop /\ menu # None /\ menu.offer # "none"
    /\ \E j \in Jobs : FreeJob(j)
    /\ busy' = busy \cup {menu.offer}
    /\ main' = Refresh(menu.offer, menu.r)
    /\ menu' = None
    /\ UNCHANGED <<mounts, th, entangled>>

\* _mount_remote, _unmount_remote.
ChooseOffered ==
    /\ main = Loop /\ menu # None /\ menu.offer # "none"
    /\ \E j \in Jobs : FreeJob(j)
    /\ busy' = busy \cup {menu.r}
    /\ main' = Refresh(menu.offer, menu.r)
    /\ menu' = None
    /\ UNCHANGED <<mounts, th, entangled>>

\* _remove_remote; the menu never disables it.
ChooseRemove ==
    /\ main = Loop /\ menu # None
    /\ \E j \in Jobs : FreeJob(j) /\ Run(j, "remove", menu.r)
    /\ menu' = None
    /\ UNCHANGED <<mounts, busy, main>>

CloseMenu ==
    /\ main = Loop /\ menu # None /\ menu' = None
    /\ UNCHANGED <<mounts, busy, main, th, entangled>>

\* The list of remotes is read in the background and shown when it arrives.
UserRefresh ==
    /\ main = Loop /\ menu = None
    /\ main' = Refresh("none", None)
    /\ UNCHANGED <<mounts, busy, menu, th, entangled>>

\* Mutant of Deliver: on_error leaves the remote in _mount_busy.
DeliverErrorOnly(j) ==
    /\ main = Loop /\ th[j].pc \in {"done", "failed"}
    /\ th' = [th EXCEPT ![j] = Idle]
    /\ main' = Refresh("none", None)
    /\ busy' = IF th[j].pc = "done" /\ th[j].kind # "remove" THEN busy \ {th[j].r} ELSE busy
    /\ UNCHANGED <<mounts, menu, entangled>>

\* _on_mounted, _on_mount_changed, _on_mount_error, _on_remote_removed,
\* _on_task_error.
Deliver(j) ==
    /\ main = Loop /\ th[j].pc \in {"done", "failed"}
    /\ th' = [th EXCEPT ![j] = Idle]
    /\ IF th[j].kind = "remove"
       THEN /\ main' = IF th[j].pc = "done" THEN Refresh("none", None) ELSE Loop
            /\ UNCHANGED busy
       ELSE main' = Refresh("none", None) /\ busy' = busy \ {th[j].r}
    /\ UNCHANGED <<mounts, menu, entangled>>

\* Mutant of Quit: unmount_all leaves mounts with uploads alone.
QuitSparingUploads ==
    /\ main = Loop /\ menu = None
    /\ main' = [Loop EXCEPT !.at = "unmount_all",
                            !.left = {r \in Remotes : mounts[r] # None
                                                      /\ Pending(mounts[r]) = {}}]
    /\ UNCHANGED <<mounts, busy, menu, th, entangled>>

\* aboutToQuit.
Quit ==
    /\ main = Loop /\ menu = None
    /\ main' = [Loop EXCEPT !.at = "unmount_all",
                            !.left = {r \in Remotes : mounts[r] # None}]
    /\ UNCHANGED <<mounts, busy, menu, th, entangled>>

UnmountNext(r) ==
    /\ main.at = "unmount_all" /\ r \in main.left /\ ~Active(QuitThread)
    /\ th' = [th EXCEPT ![QuitThread] = Start("quit", r)]
    /\ main' = [main EXCEPT !.left = @ \ {r}]
    /\ UNCHANGED <<mounts, busy, menu, entangled>>

AllUnmounted ==
    /\ main.at = "unmount_all" /\ main.left = {} /\ ~Active(QuitThread)
    /\ main' = [main EXCEPT !.at = "wait_for_pool"]
    /\ UNCHANGED <<mounts, busy, menu, th, entangled>>

\* QThreadPool's destructor waits for every thread.
Exit ==
    /\ main.at = "wait_for_pool" /\ \A j \in Jobs : ~Active(j)
    /\ main' = [main EXCEPT !.at = "exited"]
    /\ UNCHANGED <<mounts, busy, menu, th, entangled>>

Handler == LookAtDead \/ PurgeDead \/ LookDone
User == \/ \E r \in Remotes : OpenMenu(r)
        \/ ChooseOffered \/ ChooseRemove \/ CloseMenu \/ UserRefresh \/ Quit
Shutdown == (\E r \in Remotes : UnmountNext(r)) \/ AllUnmounted \/ Exit

View ==
    /\ Handler \/ User \/ Shutdown \/ \E j \in Jobs : Deliver(j)
    /\ UNCHANGED <<rcloneVars, configured, late>>

AddRemote(r) ==
    /\ main = Loop /\ r \notin configured
    /\ configured' = configured \cup {r}
    /\ UNCHANGED <<mounts, rcloneVars, viewVars, th, historyVars>>

Exited == main.at = "exited" /\ UNCHANGED vars

Next == \/ Rclone \/ View \/ Exited
        \/ \E t \in Threads : ThreadStep(t)
        \/ \E r \in Remotes : AddRemote(r)

Spec == Init /\ [][Next]_vars

\* A pool thread and the main thread keep running, and a queued result is
\* delivered in its turn, whatever the user does in between.
Fairness ==
    /\ \A t \in Threads : WF_vars(ThreadStep(t))
    /\ WF_vars((Handler \/ Shutdown) /\ UNCHANGED <<rcloneVars, configured, late>>)
    /\ \A j \in Jobs : SF_vars(Deliver(j) /\ UNCHANGED <<rcloneVars, configured, late>>)

FairSpec == Spec /\ Fairness

-------------------------------------------------------------------------------
TypeOK ==
    /\ mounts \in [Remotes -> Procs \cup {None}]
    /\ proc \in [Procs -> [st : {"gone", "starting", "mounted"},
                           r : Remotes \cup {None}]]
    /\ upload \in [Procs -> [Files -> {"unsaved", "queued", "stored"}]]
    /\ deaf \subseteq Procs /\ busy \subseteq Remotes /\ configured \subseteq Remotes
    /\ th \in [Threads ->
         [kind : {"none", "mount", "unmount", "remove", "quit"},
          r : Remotes \cup {None},
          pc : {"idle", "check", "purge", "launch", "wait", "get", "drain", "pop",
                "stop", "delete", "done", "failed"},
          p : Procs \cup {None}, owed : SUBSET Files, timedOut : BOOLEAN]]
    /\ main \in [at : {"loop", "refresh", "purge", "unmount_all", "wait_for_pool", "exited"},
                 left : SUBSET Remotes, looked : Remotes \cup {None},
                 then : {"none", "menu", "mount", "unmount"}, r : Remotes \cup {None}]
    /\ menu = None \/ menu \in [r : Remotes, offer : {"none", "mount", "unmount"}]
    /\ entangled \subseteq Remotes /\ late \subseteq Remotes

Held(p) == \E t \in Threads : th[t].p = p /\ th[t].pc \in {"wait", "drain", "pop", "stop"}

\* "Tracks the `rclone mount` processes this app started": a live rclone
\* process is in the table under its remote, or in the hands of the thread
\* that is starting or stopping it - unless its remote was removed while
\* another of its operations was under way.
NoOrphan ==
    \A p \in Procs : Live(p) =>
        \/ mounts[proc[p].r] = p \/ Held(p) \/ proc[p].r \in entangled

\* No folder is served by two rclone processes, although the table is
\* written only once a mount is up: _mount_busy keeps a second operation on
\* the remote away (removals again excepted).
OneProcessPerRemote ==
    \A p, q \in Procs :
        Live(p) /\ Live(q) /\ proc[p].r = proc[q].r => p = q \/ proc[p].r \in entangled

\* Every rclone process is one the app knows of, and a remote has one at most.
ProcessesAccounted == NoOrphan /\ OneProcessPerRemote

\* unmount() stops rclone only when what was saved before it was called has
\* been uploaded - or its deadline has passed, or rclone did not answer.
UploadsFinishFirst ==
    [][\A t \in Threads :
         th[t].pc = "stop" /\ th'[t].pc # "stop" /\ Live(th[t].p)
         /\ ~th[t].timedOut /\ th[t].p \notin deaf
         => th[t].owed \cap Pending(th[t].p) = {}]_vars

\* What survives the app came up after unmount_all had taken its list: a
\* mount the user had asked for just before quitting.
OnlyLateMountsSurvive ==
    main.at = "exited" =>
        \A p \in Procs : Live(p) => proc[p].r \in late \cup entangled

\* "Mounts don't outlive the app": the module's docstring.
MountsEndWithTheApp ==
    main.at = "exited" => \A p \in Procs : Live(p) => proc[p].r \in entangled

\* An operation that runs ends and gives the remote's menu entries back; and
\* quitting ends: unmount_all drains and the pool's threads come to an end.
BusyResolves ==
    \A r \in Remotes :
        (r \in busy /\ \E j \in Jobs : th[j].r = r /\ th[j].kind # "remove")
            ~> (r \notin busy \/ Quitting)
QuitEnds == Quitting ~> main.at = "exited"
EverythingEnds == BusyResolves /\ QuitEnds
===============================================================================

------------------------- MODULE MountManagerProofs -------------------------
(***************************************************************************)
(* Proofs about MountManager, for any remotes, processes and pool threads: *)
(* the type invariant, that every rclone process is accounted for, what    *)
(* may survive the app, and that uploads end before rclone is stopped.     *)
(***************************************************************************)
EXTENDS MountManager, FiniteSetTheorems, TLAPS

(* What a thread does fits where it is, and which process it holds.        *)
MountPCs == {"check", "purge", "launch", "wait"}
HoldPCs == {"wait", "drain", "pop", "stop"}
StopPCs == {"get", "drain", "pop", "stop", "delete"}
Menial == {"mount", "unmount"}
Shape ==
  \A t \in Threads :
    /\ th[t].pc = "idle" <=> th[t].kind = "none"
    /\ th[t].pc # "idle" => th[t].r \in Remotes
    /\ th[t].pc \in MountPCs => th[t].kind = "mount"
    /\ th[t].pc \in StopPCs => th[t].kind # "mount"
    /\ th[t].p # None <=> th[t].pc \in HoldPCs
    /\ t = QuitThread => th[t].kind \in {"none", "quit"}
    /\ t \in Jobs => th[t].kind # "quit"

(* A process that is referred to keeps its name and serves its remote.     *)
Names ==
  /\ \A r \in Remotes : mounts[r] # None /\ Live(mounts[r]) => proc[mounts[r]].r = r
  /\ \A t \in Threads : th[t].p # None /\ Live(th[t].p) => proc[th[t].p].r = th[t].r
  /\ \A p \in Procs : Live(p) => proc[p].r \in Remotes

(* _mount_busy admits one mount or unmount per remote, from the choice in  *)
(* the menu to the delivery of its result.                                 *)
Busy ==
  /\ \A j \in Jobs : th[j].kind \in Menial => th[j].r \in busy
  /\ \A i, j \in Jobs :
       th[i].kind \in Menial /\ th[j].kind \in Menial /\ th[i].r = th[j].r => i = j
  /\ menu # None /\ menu.offer # "none" => menu.r \notin busy
  /\ menu # None /\ menu.offer = "mount" => mounts[menu.r] = None
  /\ main.then = "menu" => main.r \in Remotes
  /\ main.then \in Menial =>
       /\ main.at \in {"refresh", "purge"} /\ menu = None
       /\ main.r \in busy
       /\ \A j \in Jobs : th[j].kind \in Menial => th[j].r # main.r
       /\ main.then = "mount" => mounts[main.r] = None

(* Of the pool's threads one at most works on a remote, ...                *)
Alone ==
  \A i, j \in Jobs :
    Active(i) /\ Active(j) /\ th[i].r = th[j].r /\ th[i].r \notin entangled => i = j

(* ... and while it mounts it, the table has no entry and the quit leaves  *)
(* it alone.                                                               *)
Mounting ==
  \A t \in Jobs :
    th[t].pc \in MountPCs /\ th[t].r \notin entangled =>
      /\ mounts[th[t].r] = None /\ th[t].pc # "purge"
      /\ main.at = "unmount_all" => th[t].r \notin main.left
      /\ Active(QuitThread) => th[QuitThread].r # th[t].r

(* All that refers to a process of one remote refers to the same one.      *)
Agree ==
  \A t \in Threads :
    th[t].p # None /\ th[t].r \notin entangled =>
      /\ mounts[th[t].r] \in {None, th[t].p}
      /\ \A u \in Threads : th[u].p # None /\ th[u].r = th[t].r => th[u].p = th[t].p

(* Between the look at a dead entry and its deletion nobody mounts.        *)
Purging ==
  main.at = "purge" =>
    /\ main.looked \in Remotes
    /\ main.looked \notin entangled =>
         /\ mounts[main.looked] # None => ~Live(mounts[main.looked])
         /\ \A t \in Jobs : th[t].pc \in MountPCs => th[t].r # main.looked

(* unmount_all comes to every entry it found.                              *)
Covered(r) ==
  \/ r \in main.left
  \/ Active(QuitThread) /\ th[QuitThread].r = r /\ th[QuitThread].pc \in {"get", "drain", "pop"}
Unmounting ==
  /\ Active(QuitThread) => main.at = "unmount_all"
  /\ \A r \in Remotes \ (late \cup entangled) :
       mounts[r] # None =>
         /\ main.at \notin {"wait_for_pool", "exited"}
         /\ main.at = "unmount_all" => Covered(r)
  /\ main.at = "exited" => \A t \in Threads : ~Active(t)

IInv ==
  /\ TypeOK /\ Shape /\ Names /\ Busy
  /\ Alone /\ Mounting /\ Agree /\ Purging /\ Unmounting
  /\ NoOrphan

-----------------------------------------------------------------------------
(* What the steps do, as far as the invariant is concerned.                *)

Moves(t, pc, p) ==
  /\ \A u \in Threads : u # t => th'[u] = th[u]
  /\ th'[t].kind = th[t].kind /\ th'[t].r = th[t].r /\ th'[t].pc = pc /\ th'[t].p = p

NoStart ==
  \A q \in Procs : proc'[q].st # "gone" => Live(q) /\ proc'[q].r = proc[q].r

Still == UNCHANGED <<busy, main, menu, entangled>>

\* A step that only changes where the thread is.
Progress(t) ==
  /\ Still /\ NoStart /\ UNCHANGED <<mounts, late>>
  /\ Moves(t, th'[t].pc, th[t].p)
  /\ th[t].pc \in {"check", "launch", "get", "drain", "delete"}
  /\ th'[t].pc # "idle"
  /\ th'[t].pc \in MountPCs => th[t].pc \in MountPCs
  /\ th'[t].pc \in StopPCs => th[t].pc \in StopPCs
  /\ th'[t].pc \in HoldPCs <=> th[t].pc \in HoldPCs
  /\ th'[t].pc = "purge" => mounts[th[t].r] # None
  /\ th[t].pc \in {"get", "drain", "pop"} =>
       th'[t].pc \in {"drain", "pop"} \/ mounts[th[t].r] = None

\* It lets go of a process that has ended, or ends it.
Releases(t) ==
  /\ Still /\ NoStart /\ UNCHANGED <<mounts, late>>
  /\ Moves(t, th'[t].pc, None)
  /\ th[t].pc \in {"wait", "stop"} /\ th'[t].pc \in {"failed", "done", "delete"}
  /\ th'[t].pc = "delete" => th[t].pc = "stop"
  /\ proc'[th[t].p].st = "gone"

\* It starts a process.
Launches(t) ==
  /\ Still /\ UNCHANGED <<mounts, late>>
  /\ th[t].pc = "launch"
  /\ \E p \in Procs :
       /\ Unused(p) /\ Moves(t, "wait", p)
       /\ proc'[p].r = th[t].r
       /\ \A q \in Procs : q # p => proc'[q] = proc[q]

\* It enters its process in the table.
Registers(t) ==
  /\ Still /\ NoStart
  /\ th[t].pc = "wait" /\ Moves(t, "done", None)
  /\ \A r \in Remotes : mounts'[r] = IF r = th[t].r THEN th[t].p ELSE mounts[r]
  /\ late' = IF Quitting THEN late \cup {th[t].r} ELSE late

\* It takes a process from the table's entry.
Grabs(t) ==
  /\ Still /\ NoStart /\ UNCHANGED <<mounts, late>>
  /\ th[t].pc = "get" /\ mounts[th[t].r] # None /\ Moves(t, "drain", mounts[th[t].r])

\* It deletes the entry.
Drops(t) ==
  /\ Still /\ NoStart /\ UNCHANGED late
  /\ Moves(t, th'[t].pc, th[t].p)
  /\ \/ th[t].pc = "pop" /\ th'[t].pc = "stop"
     \/ th[t].pc = "purge" /\ th'[t].pc \in {"failed", "launch"}
  /\ \A r \in Remotes : mounts'[r] = IF r = th[t].r THEN None ELSE mounts[r]

ThreadEffect(t) ==
  Progress(t) \/ Releases(t) \/ Launches(t) \/ Registers(t) \/ Grabs(t) \/ Drops(t)

Outside ==
  NoStart /\ UNCHANGED <<mounts, th, busy, main, menu, entangled, late>>

LEMMA Basics ==
  /\ None \notin Remotes /\ None \notin Procs /\ QuitThread \notin Jobs /\ QuitThread \in Threads
  /\ Jobs \subseteq Threads /\ \A t \in Threads : t \in Jobs \/ t = QuitThread
  BY MountAssumption DEF QuitThread, Threads

LEMMA ThreadFacts ==
  ASSUME TypeOK, NEW t \in Threads
  PROVE  /\ DOMAIN th = Threads /\ DOMAIN mounts = Remotes /\ DOMAIN proc = Procs
         /\ th[t].kind \in {"none", "mount", "unmount", "remove", "quit"}
         /\ th[t].r \in Remotes \cup {None} /\ th[t].p \in Procs \cup {None}
         /\ th[t].pc \in {"idle", "check", "purge", "launch", "wait", "get", "drain", "pop",
                          "stop", "delete", "done", "failed"}
  BY DEF TypeOK

LEMMA GotoMoves ==
  ASSUME TypeOK, NEW t \in Threads, NEW pc, Goto(t, pc)
  PROVE  Moves(t, pc, th[t].p)
  BY DEF TypeOK, Goto, Moves

LEMMA LeaveMoves ==
  ASSUME TypeOK, NEW t \in Threads, NEW pc, Leave(t, pc)
  PROVE  Moves(t, pc, None)
<1>1. th' = [th EXCEPT ![t] = [Start(th[t].kind, th[t].r) EXCEPT !.pc = pc]]
  BY DEF Leave, TypeOK
<1>2. th'[t] = [Start(th[t].kind, th[t].r) EXCEPT !.pc = pc]
      /\ \A u \in Threads : u # t => th'[u] = th[u]
  BY <1>1 DEF TypeOK
<1>3. /\ th'[t].kind = th[t].kind /\ th'[t].r = th[t].r /\ th'[t].pc = pc /\ th'[t].p = None
  BY <1>2 DEF Start, Idle
<1> QED
  BY <1>2, <1>3 DEF Moves

LEMMA StopEnds ==
  ASSUME TypeOK, NEW p \in Procs, StopProcess(p)
  PROVE  NoStart /\ proc'[p].st = "gone"
<1>1. CASE Live(p)
  <2>1. proc' = [proc EXCEPT ![p] = NoProcess]
    BY <1>1 DEF StopProcess, End
  <2> QED
    BY <2>1 DEF NoStart, NoProcess, Live, TypeOK
<1>2. CASE ~Live(p)
  BY <1>2 DEF StopProcess, rcloneVars, NoStart, Live
<1> QED
  BY <1>1, <1>2

LEMMA ThreadEffects ==
  ASSUME TypeOK, Shape, NEW t \in Threads, ThreadStep(t)
  PROVE  ThreadEffect(t)
<1>0. /\ Still
      /\ th[t].p # None <=> th[t].pc \in HoldPCs
      /\ th[t].p \in Procs \cup {None}
      /\ th[t].kind \in {"none", "mount", "unmount", "remove", "quit"}
      /\ None \notin Procs
  BY ThreadFacts, Basics DEF ThreadStep, Still, viewVars, Shape
<1>1. CASE Check(t) /\ late' = late
  <2>1. PICK pc \in {"launch", "done", "purge"} :
          /\ Goto(t, pc) /\ (pc = "purge" => mounts[th[t].r] # None) /\ th[t].pc = "check"
          /\ UNCHANGED <<mounts, rcloneVars>>
    BY <1>1 DEF Check, At
  <2>2. Moves(t, pc, th[t].p) /\ NoStart
    BY <2>1, GotoMoves DEF rcloneVars, NoStart, Live
  <2>3. Progress(t)
    BY <1>0, <1>1, <2>1, <2>2 DEF Progress, Moves, MountPCs, StopPCs, HoldPCs
  <2> QED
    BY <2>3 DEF ThreadEffect
<1>2. CASE Purge(t) /\ late' = late
  <2>1. PICK pc \in {"failed", "launch"} :
          /\ Goto(t, pc) /\ th[t].pc = "purge" /\ UNCHANGED rcloneVars
          /\ mounts' = [mounts EXCEPT ![th[t].r] = None]
    BY <1>2 DEF Purge, At
  <2>2. Moves(t, pc, th[t].p) /\ NoStart
    BY <2>1, GotoMoves DEF rcloneVars, NoStart, Live
  <2>3. \A r \in Remotes : mounts'[r] = IF r = th[t].r THEN None ELSE mounts[r]
    BY <2>1 DEF TypeOK
  <2>4. Drops(t)
    BY <1>0, <1>2, <2>1, <2>2, <2>3 DEF Drops, Moves
  <2> QED
    BY <2>4 DEF ThreadEffect
<1>3. CASE Refuse(t) /\ late' = late
  <2>1. /\ Goto(t, "failed") /\ th[t].pc = "launch" /\ UNCHANGED <<mounts, rcloneVars>>
    BY <1>3 DEF Refuse, At
  <2>2. Moves(t, "failed", th[t].p) /\ NoStart
    BY <2>1, GotoMoves DEF rcloneVars, NoStart, Live
  <2>3. Progress(t)
    BY <1>0, <1>3, <2>1, <2>2 DEF Progress, Moves, MountPCs, StopPCs, HoldPCs
  <2> QED
    BY <2>3 DEF ThreadEffect
<1>4. CASE Launch(t) /\ late' = late
  <2>1. PICK p \in Procs :
          /\ Unused(p) /\ th[t].pc = "launch" /\ UNCHANGED mounts
          /\ proc' = [proc EXCEPT ![p] = [st |-> "starting", r |-> th[t].r]]
          /\ th' = [th EXCEPT ![t].pc = "wait", ![t].p = p]
    BY <1>4 DEF Launch, At
  <2>2. Moves(t, "wait", p)
    BY <2>1 DEF TypeOK, Moves
  <2>3. proc'[p].r = th[t].r /\ \A q \in Procs : q # p => proc'[q] = proc[q]
    BY <2>1 DEF TypeOK
  <2>4. Launches(t)
    BY <1>0, <1>4, <2>1, <2>2, <2>3 DEF Launches
  <2> QED
    BY <2>4 DEF ThreadEffect
<1>5. CASE SawExit(t) /\ late' = late
  <2>1. /\ th[t].pc = "wait" /\ ~Live(th[t].p) /\ Leave(t, "failed")
        /\ UNCHANGED <<mounts, rcloneVars>>
    BY <1>5 DEF SawExit, At
  <2>2. Moves(t, "failed", None) /\ NoStart /\ proc'[th[t].p].st = "gone"
    BY <2>1, LeaveMoves DEF rcloneVars, NoStart, Live
  <2>3. Releases(t)
    BY <1>0, <1>5, <2>1, <2>2 DEF Releases, Moves
  <2> QED
    BY <2>3 DEF ThreadEffect
<1>6. CASE Register(t)
  <2>1. /\ th[t].pc = "wait" /\ Leave(t, "done") /\ UNCHANGED rcloneVars
        /\ mounts' = [mounts EXCEPT ![th[t].r] = th[t].p]
        /\ late' = IF Quitting THEN late \cup {th[t].r} ELSE late
    BY <1>6 DEF Register, At
  <2>2. Moves(t, "done", None) /\ NoStart
    BY <2>1, LeaveMoves DEF rcloneVars, NoStart, Live
  <2>3. \A r \in Remotes : mounts'[r] = IF r = th[t].r THEN th[t].p ELSE mounts[r]
    BY <2>1 DEF TypeOK
  <2>4. Registers(t)
    BY <1>0, <2>1, <2>2, <2>3 DEF Registers
  <2> QED
    BY <2>4 DEF ThreadEffect
<1>7. CASE GiveUp(t) /\ late' = late
  <2>1. /\ th[t].pc = "wait" /\ StopProcess(th[t].p) /\ Leave(t, "failed") /\ UNCHANGED mounts
    BY <1>7 DEF GiveUp, At
  <2>2. th[t].p \in Procs
    BY <1>0, <2>1 DEF HoldPCs
  <2>3. Moves(t, "failed", None) /\ NoStart /\ proc'[th[t].p].st = "gone"
    BY <2>1, <2>2, LeaveMoves, StopEnds
  <2>4. Releases(t)
    BY <1>0, <1>7, <2>1, <2>3 DEF Releases, Moves
  <2> QED
    BY <2>4 DEF ThreadEffect
<1>8. CASE Get(t) /\ late' = late
  <2>1. th[t].pc = "get" /\ UNCHANGED <<mounts, rcloneVars>>
    BY <1>8 DEF Get, At
  <2>2. NoStart
    BY <2>1 DEF rcloneVars, NoStart, Live
  <2>3. CASE mounts[th[t].r] = None
    <3>1. PICK pc \in {"delete", "done"} : th' = [th EXCEPT ![t].pc = pc]
      BY <1>8, <2>3 DEF Get, After, TypeOK
    <3>2. Moves(t, pc, th[t].p)
      BY <3>1 DEF Moves, TypeOK
    <3>3. Progress(t)
      BY <1>0, <1>8, <2>1, <2>2, <2>3, <3>2 DEF Progress, Moves, MountPCs, StopPCs, HoldPCs
    <3> QED
      BY <3>3 DEF ThreadEffect
  <2>4. CASE mounts[th[t].r] # None
    <3>1. Moves(t, "drain", mounts[th[t].r])
      BY <1>8, <2>4 DEF Get, Moves, TypeOK
    <3>2. Grabs(t)
      BY <1>0, <1>8, <2>1, <2>2, <2>4, <3>1 DEF Grabs
    <3> QED
      BY <3>2 DEF ThreadEffect
  <2> QED
    BY <2>3, <2>4
<1>9. CASE (Drained(t) \/ DrainTimesOut(t)) /\ late' = late
  <2>1. th[t].pc = "drain" /\ UNCHANGED <<mounts, rcloneVars>>
    BY <1>9 DEF Drained, DrainTimesOut, At
  <2>2. Moves(t, "pop", th[t].p) /\ NoStart
    BY <1>9, <2>1 DEF Drained, DrainTimesOut, Goto, Moves, TypeOK, rcloneVars, NoStart, Live
  <2>3. Progress(t)
    BY <1>0, <1>9, <2>1, <2>2 DEF Progress, Moves, MountPCs, StopPCs, HoldPCs
  <2> QED
    BY <2>3 DEF ThreadEffect
<1>10. CASE Pop(t) /\ late' = late
  <2>1. /\ Goto(t, "stop") /\ th[t].pc = "pop" /\ UNCHANGED rcloneVars
        /\ mounts' = [mounts EXCEPT ![th[t].r] = None]
    BY <1>10 DEF Pop, At
  <2>2. Moves(t, "stop", th[t].p) /\ NoStart
    BY <2>1, GotoMoves DEF rcloneVars, NoStart, Live
  <2>3. \A r \in Remotes : mounts'[r] = IF r = th[t].r THEN None ELSE mounts[r]
    BY <2>1 DEF TypeOK
  <2>4. Drops(t)
    BY <1>0, <1>10, <2>1, <2>2, <2>3 DEF Drops, Moves
  <2> QED
    BY <2>4 DEF ThreadEffect
<1>11. CASE Stop(t) /\ late' = late
  <2>1. /\ th[t].pc = "stop" /\ StopProcess(th[t].p) /\ UNCHANGED mounts
    BY <1>11 DEF Stop, At
  <2>2. PICK pc \in {"delete", "done"} : Leave(t, pc)
    BY <1>11 DEF Stop, After
  <2>3. th[t].p \in Procs
    BY <1>0, <2>1 DEF HoldPCs
  <2>4. Moves(t, pc, None) /\ NoStart /\ proc'[th[t].p].st = "gone"
    BY <2>1, <2>2, <2>3, LeaveMoves, StopEnds
  <2>5. Releases(t)
    BY <1>0, <1>11, <2>1, <2>4 DEF Releases, Moves
  <2> QED
    BY <2>5 DEF ThreadEffect
<1>12. CASE Delete(t) /\ late' = late
  <2>1. PICK pc \in {"done", "failed"} : Goto(t, pc)
    BY <1>12 DEF Delete
  <2>2. th[t].pc = "delete" /\ UNCHANGED <<mounts, rcloneVars>>
    BY <1>12 DEF Delete, At
  <2>3. Moves(t, pc, th[t].p) /\ NoStart
    BY <2>1, <2>2, GotoMoves DEF rcloneVars, NoStart, Live
  <2>4. Progress(t)
    BY <1>0, <1>12, <2>2, <2>3 DEF Progress, Moves, MountPCs, StopPCs, HoldPCs
  <2> QED
    BY <2>4 DEF ThreadEffect
<1> QED
  BY <1>1, <1>2, <1>3, <1>4, <1>5, <1>6, <1>7, <1>8, <1>9, <1>10, <1>11, <1>12 DEF ThreadStep

LEMMA RcloneStartsNothing ==
  ASSUME TypeOK, Rclone
  PROVE  Outside
<1>1. UNCHANGED <<mounts, th, busy, main, menu, entangled, late>>
  BY DEF Rclone, viewVars, historyVars
<1>2. ASSUME NEW p \in Procs, Appear(p) PROVE NoStart
  BY <1>2 DEF Appear, NoStart, Live, TypeOK
<1>3. ASSUME NEW p \in Procs, Die(p) PROVE NoStart
  <2>1. proc' = [proc EXCEPT ![p] = NoProcess]
    BY <1>3 DEF Die, End
  <2> QED
    BY <2>1 DEF NoProcess, NoStart, Live, TypeOK
<1>4. ASSUME proc' = proc PROVE NoStart
  BY <1>4 DEF NoStart, Live
<1>5. NoStart
  BY <1>2, <1>3, <1>4 DEF Rclone, GoDeaf, Save, Upload
<1> QED
  BY <1>1, <1>5 DEF Outside

ViewAction ==
  LookAtDead \/ PurgeDead \/ LookDone \/ User \/ Shutdown \/ \E j \in Jobs : Deliver(j)

LEMMA Steps ==
  ASSUME TypeOK, Shape, [Next]_vars
  PROVE  \/ Outside
         \/ \E t \in Threads : ThreadEffect(t)
         \/ ViewAction /\ UNCHANGED <<proc, late>>
<1>1. CASE Exited \/ UNCHANGED vars \/ \E r \in Remotes : AddRemote(r)
  BY <1>1 DEF Exited, vars, AddRemote, Outside, NoStart, Live, rcloneVars, viewVars, historyVars
<1>2. CASE Rclone
  BY <1>2, RcloneStartsNothing
<1>3. CASE View
  BY <1>3 DEF View, Handler, ViewAction, rcloneVars
<1>4. ASSUME NEW t \in Threads, ThreadStep(t)
      PROVE  ThreadEffect(t)
  BY <1>4, ThreadEffects
<1> QED
  BY <1>1, <1>2, <1>3, <1>4 DEF Next

(* What a handler of the view does.                                        *)

\* It finds an entry whose process is dead.
Looks ==
  /\ UNCHANGED <<mounts, th, busy, menu, entangled>>
  /\ main.at = "refresh" /\ main'.at = "purge"
  /\ main'.then = main.then /\ main'.r = main.r
  /\ main'.looked \in Remotes /\ mounts[main'.looked] # None /\ ~Live(mounts[main'.looked])

\* It deletes the entry.
Deletes ==
  /\ UNCHANGED <<th, busy, menu, entangled>>
  /\ main.at = "purge"
  /\ \/ main'.at = "loop" /\ main'.then = "none"
     \/ main'.at = "refresh" /\ main'.then = main.then /\ main'.r = main.r
  /\ \A r \in Remotes : mounts'[r] = IF r = main.looked THEN None ELSE mounts[r]

\* It shows or hides the menu, or looks at the table.
Turns ==
  /\ UNCHANGED <<mounts, th, busy, entangled>>
  /\ main.at \in {"loop", "refresh"} /\ main'.at \in {"loop", "refresh"}
  /\ main'.then \notin Menial
  /\ main'.then = "menu" => main'.r \in Remotes
  /\ \/ menu' = None
     \/ menu' = menu
     \/ menu'.r = main.r /\ menu'.offer = Offer(main.r)

\* It marks a remote as busy.
Marks ==
  /\ UNCHANGED <<mounts, th, entangled>>
  /\ main.at = "loop" /\ main'.at = "refresh"
  /\ menu # None /\ menu.offer \in Menial /\ menu.r \in Remotes /\ menu' = None
  /\ main'.then = menu.offer /\ main'.r = menu.r
  /\ busy' = busy \cup {menu.r}

\* It hands work to a pool thread.
Assigned(j, kind, r) ==
  /\ th[j].pc = "idle" /\ r \in Remotes
  /\ \A u \in Threads : u # j => th'[u] = th[u]
  /\ th'[j].kind = kind /\ th'[j].r = r /\ th'[j].p = None
  /\ th'[j].pc = IF kind = "mount" THEN "check" ELSE "get"
Entangles(kind, r) ==
  entangled' = IF \E i \in Jobs : Active(i) /\ th[i].r = r /\ "remove" \in {kind, th[i].kind}
               THEN entangled \cup {r} ELSE entangled
RunsChosen(j) ==
  /\ UNCHANGED <<mounts, busy, menu>>
  /\ main.at = "refresh" /\ main.then \in Menial
  /\ main'.at = "loop" /\ main'.then = "none"
  /\ Assigned(j, main.then, main.r) /\ Entangles(main.then, main.r)
RunsRemoval(j) ==
  /\ UNCHANGED <<mounts, busy, main>>
  /\ main = Loop /\ menu # None /\ menu' = None
  /\ Assigned(j, "remove", menu.r) /\ Entangles("remove", menu.r)

\* It takes a result.
Delivers(j) ==
  /\ UNCHANGED <<mounts, menu, entangled>>
  /\ main.at = "loop" /\ main'.at \in {"loop", "refresh"} /\ main'.then = "none"
  /\ th[j].pc \in {"done", "failed"}
  /\ \A u \in Threads : u # j => th'[u] = th[u]
  /\ th'[j] = Idle
  /\ busy' = IF th[j].kind = "remove" THEN busy ELSE busy \ {th[j].r}

\* It quits.
Quits ==
  /\ UNCHANGED <<mounts, th, busy, menu, entangled>>
  /\ main.at = "loop" /\ main'.at = "unmount_all" /\ main'.then = "none"
  /\ main'.left = {r \in Remotes : mounts[r] # None}
Unmounts(r) ==
  /\ UNCHANGED <<mounts, busy, menu, entangled>>
  /\ main.at = "unmount_all" /\ r \in main.left /\ ~Active(QuitThread)
  /\ main'.at = "unmount_all" /\ main'.then = main.then /\ main'.r = main.r
  /\ main'.left = main.left \ {r}
  /\ \A u \in Threads : u # QuitThread => th'[u] = th[u]
  /\ th'[QuitThread].kind = "quit" /\ th'[QuitThread].r = r
  /\ th'[QuitThread].pc = "get" /\ th'[QuitThread].p = None
Drains ==
  /\ UNCHANGED <<mounts, th, busy, menu, entangled>>
  /\ main.at = "unmount_all" /\ main.left = {} /\ ~Active(QuitThread)
  /\ main'.at = "wait_for_pool" /\ main'.then = main.then /\ main'.r = main.r
Exits ==
  /\ UNCHANGED <<mounts, th, busy, menu, entangled>>
  /\ main.at = "wait_for_pool" /\ \A j \in Jobs : ~Active(j)
  /\ main'.at = "exited" /\ main'.then = main.then /\ main'.r = main.r

ViewEffect ==
  \/ Looks \/ Deletes \/ Turns \/ Marks \/ Quits \/ Drains \/ Exits
  \/ \E j \in Jobs : RunsChosen(j) \/ RunsRemoval(j) \/ Delivers(j)
  \/ \E r \in Remotes : Unmounts(r)

LEMMA MainFacts ==
  /\ Loop.at = "loop" /\ Loop.then = "none" /\ Loop.r = None
  /\ \A x, r : /\ Refresh(x, r).at = "refresh" /\ Refresh(x, r).then = x
               /\ Refresh(x, r).r = r
  /\ \A k, r : /\ Start(k, r).kind = k /\ Start(k, r).r = r /\ Start(k, r).p = None
               /\ Start(k, r).pc = IF k = "mount" THEN "check" ELSE "get"
  /\ Idle.kind = "none" /\ Idle.pc = "idle" /\ Idle.p = None
  BY DEF Loop, Refresh, Start, Idle

LEMMA RunAssigns ==
  ASSUME TypeOK, NEW j \in Jobs, NEW kind, NEW r \in Remotes, FreeJob(j), Run(j, kind, r)
  PROVE  Assigned(j, kind, r) /\ Entangles(kind, r)
<1>1. th' = [th EXCEPT ![j] = Start(kind, r)] /\ j \in Threads
  BY Basics DEF Run
<1>2. th'[j] = Start(kind, r) /\ \A u \in Threads : u # j => th'[u] = th[u]
  BY <1>1 DEF TypeOK
<1>3. Assigned(j, kind, r)
  BY <1>2, MainFacts DEF Assigned, FreeJob
<1> QED
  BY <1>3 DEF Run, Entangles

LEMMA ViewEffects ==
  ASSUME TypeOK, Busy, Purging, ViewAction
  PROVE  ViewEffect
<1> USE MainFacts
<1>0. /\ main \in [at : {"loop", "refresh", "purge", "unmount_all", "wait_for_pool", "exited"},
                   left : SUBSET Remotes, looked : Remotes \cup {None},
                   then : {"none", "menu", "mount", "unmount"}, r : Remotes \cup {None}]
      /\ menu = None \/ menu \in [r : Remotes, offer : {"none", "mount", "unmount"}]
      /\ busy \subseteq Remotes
  BY DEF TypeOK
<1>1. CASE LookAtDead
  <2>1. PICK q \in main.left : Dead(q) /\ main' = [main EXCEPT !.at = "purge", !.looked = q]
    BY <1>1 DEF LookAtDead
  <2>2. Looks
    BY <1>0, <1>1, <2>1 DEF LookAtDead, Looks, Dead
  <2> QED
    BY <2>2 DEF ViewEffect
<1>2. CASE PurgeDead
  <2>1. main.looked \in Remotes /\ main.at = "purge"
    BY <1>2 DEF PurgeDead, Purging
  <2>2. \A r \in Remotes : mounts'[r] = IF r = main.looked THEN None ELSE mounts[r]
    BY <1>2, <2>1 DEF PurgeDead, TypeOK
  <2>3. \/ main'.at = "loop" /\ main'.then = "none"
        \/ main'.at = "refresh" /\ main'.then = main.then /\ main'.r = main.r
    BY <1>0, <1>2 DEF PurgeDead
  <2>4. Deletes
    BY <1>2, <2>1, <2>2, <2>3 DEF PurgeDead, Deletes
  <2> QED
    BY <2>4 DEF ViewEffect
<1>3. CASE LookDone
  <2>1. /\ main.at = "refresh" /\ main' = Loop /\ UNCHANGED <<mounts, busy>>
    BY <1>3 DEF LookDone
  <2>2. CASE main.then = "none"
    <3>1. Turns
      BY <1>3, <2>1, <2>2 DEF LookDone, Turns, Menial
    <3> QED
      BY <3>1 DEF ViewEffect
  <2>3. CASE main.then = "menu"
    <3>1. menu' = [r |-> main.r, offer |-> Offer(main.r)] /\ UNCHANGED <<th, entangled>>
      BY <1>3, <2>3 DEF LookDone
    <3>2. Turns
      BY <2>1, <3>1 DEF Turns, Menial
    <3> QED
      BY <3>2 DEF ViewEffect
  <2>4. CASE main.then \in Menial
    <3>1. PICK j \in Jobs : FreeJob(j) /\ Run(j, main.then, main.r)
      BY <1>3, <2>4 DEF LookDone, Menial
    <3>2. menu' = menu /\ main.r \in Remotes
      BY <1>0, <1>3, <2>4 DEF LookDone, Menial, Busy
    <3>3. RunsChosen(j)
      BY <2>1, <2>4, <3>1, <3>2, RunAssigns DEF RunsChosen
    <3> QED
      BY <3>3 DEF ViewEffect
  <2> QED
    BY <1>0, <2>2, <2>3, <2>4 DEF Menial
<1>4. CASE (\E r \in Remotes : OpenMenu(r)) \/ CloseMenu \/ UserRefresh
  <2>1. ASSUME NEW r \in Remotes, OpenMenu(r)
        PROVE  Turns
    <3>1. main' = [Refresh("menu", r) EXCEPT !.left = {r}]
      BY <2>1 DEF OpenMenu
    <3>2. main'.at = "refresh" /\ main'.then = "menu" /\ main'.r = r
      BY <3>1 DEF Refresh, Loop
    <3> QED
      BY <2>1, <3>2 DEF OpenMenu, Turns, Menial
  <2>2. ASSUME CloseMenu \/ UserRefresh
        PROVE  Turns
    BY <2>2 DEF CloseMenu, UserRefresh, Turns, Menial
  <2> QED
    BY <1>4, <2>1, <2>2 DEF ViewEffect
<1>5. CASE ChooseOffered
  <2>1. Marks
    BY <1>0, <1>5 DEF ChooseOffered, Marks, Menial
  <2> QED
    BY <2>1 DEF ViewEffect
<1>6. CASE ChooseRemove
  <2>1. PICK j \in Jobs : FreeJob(j) /\ Run(j, "remove", menu.r)
    BY <1>6 DEF ChooseRemove
  <2>2. menu.r \in Remotes
    BY <1>0, <1>6 DEF ChooseRemove
  <2>3. RunsRemoval(j)
    BY <1>6, <2>1, <2>2, RunAssigns DEF ChooseRemove, RunsRemoval
  <2> QED
    BY <2>3 DEF ViewEffect
<1>7. ASSUME NEW j \in Jobs, Deliver(j)
      PROVE  ViewEffect
  <2>1. th' = [th EXCEPT ![j] = Idle] /\ j \in Threads
    BY <1>7, Basics DEF Deliver
  <2>2. th'[j] = Idle /\ \A u \in Threads : u # j => th'[u] = th[u]
    BY <2>1 DEF TypeOK
  <2>3. Delivers(j)
    BY <1>7, <2>2 DEF Deliver, Delivers
  <2> QED
    BY <2>3 DEF ViewEffect
<1>8. CASE Quit
  <2>1. main' = [Loop EXCEPT !.at = "unmount_all", !.left = {r \in Remotes : mounts[r] # None}]
    BY <1>8 DEF Quit
  <2>2. /\ main'.at = "unmount_all" /\ main'.then = "none"
        /\ main'.left = {r \in Remotes : mounts[r] # None}
    BY <2>1 DEF Loop
  <2>3. Quits
    BY <1>8, <2>2 DEF Quit, Quits
  <2> QED
    BY <2>3 DEF ViewEffect
<1>9. ASSUME NEW r \in Remotes, UnmountNext(r)
      PROVE  ViewEffect
  <2>1. th' = [th EXCEPT ![QuitThread] = Start("quit", r)] /\ QuitThread \in Threads
    BY <1>9, Basics DEF UnmountNext
  <2>2. th'[QuitThread] = Start("quit", r) /\ \A u \in Threads : u # QuitThread => th'[u] = th[u]
    BY <2>1 DEF TypeOK
  <2>3. /\ main'.at = "unmount_all" /\ main'.left = main.left \ {r}
        /\ main'.then = main.then /\ main'.r = main.r
    BY <1>0, <1>9 DEF UnmountNext
  <2>4. Unmounts(r)
    BY <1>9, <2>2, <2>3 DEF UnmountNext, Unmounts
  <2> QED
    BY <2>4 DEF ViewEffect
<1>10. CASE AllUnmounted \/ Exit
  <2>1. Drains \/ Exits
    BY <1>0, <1>10 DEF AllUnmounted, Exit, Drains, Exits
  <2> QED
    BY <2>1 DEF ViewEffect
<1> QED
  BY <1>1, <1>2, <1>3, <1>4, <1>5, <1>6, <1>7, <1>8, <1>9, <1>10
  DEF ViewAction, User, Shutdown

-----------------------------------------------------------------------------
(* Types.                                                                  *)

ThreadType ==
  [kind : {"none", "mount", "unmount", "remove", "quit"},
   r : Remotes \cup {None},
   pc : {"idle", "check", "purge", "launch", "wait", "get", "drain", "pop",
         "stop", "delete", "done", "failed"},
   p : Procs \cup {None}, owed : SUBSET Files, timedOut : BOOLEAN]

LEMMA StartType ==
  /\ Idle \in ThreadType
  /\ \A kind \in {"mount", "unmount", "remove", "quit"}, r \in Remotes :
       Start(kind, r) \in ThreadType
  BY DEF Idle, Start, ThreadType

LEMMA LeaveType ==
  ASSUME TypeOK, NEW t \in Threads, NEW pc \in {"done", "failed", "delete"}, Leave(t, pc)
  PROVE  th' \in [Threads -> ThreadType]
<1>1. th' = [th EXCEPT ![t] = [Start(th[t].kind, th[t].r) EXCEPT !.pc = pc]]
      /\ th \in [Threads -> ThreadType]
  BY DEF Leave, TypeOK, ThreadType
<1>2. [Start(th[t].kind, th[t].r) EXCEPT !.pc = pc] \in ThreadType
  BY <1>1 DEF Start, Idle, ThreadType
<1> QED
  BY <1>1, <1>2

RcloneType ==
  /\ proc \in [Procs -> [st : {"gone", "starting", "mounted"}, r : Remotes \cup {None}]]
  /\ upload \in [Procs -> [Files -> {"unsaved", "queued", "stored"}]]
  /\ deaf \subseteq Procs

LEMMA StopType ==
  ASSUME TypeOK, NEW p \in Procs, StopProcess(p) \/ End(p)
  PROVE  RcloneType'
<1>1. NoProcess \in [st : {"gone", "starting", "mounted"}, r : Remotes \cup {None}]
      /\ NoUploads \in [Files -> {"unsaved", "queued", "stored"}]
  BY DEF NoProcess, NoUploads
<1>2. CASE End(p)
  BY <1>1, <1>2 DEF End, TypeOK, RcloneType
<1>3. CASE UNCHANGED rcloneVars
  BY <1>3 DEF rcloneVars, TypeOK, RcloneType
<1> QED
  BY <1>2, <1>3 DEF StopProcess

LEMMA ThreadStepType ==
  ASSUME TypeOK, Shape, NEW t \in Threads, ThreadStep(t)
  PROVE  TypeOK'
<1>0. /\ th \in [Threads -> ThreadType] /\ th[t] \in ThreadType
      /\ mounts \in [Remotes -> Procs \cup {None}]
      /\ RcloneType
      /\ busy \subseteq Remotes /\ configured \subseteq Remotes
      /\ entangled \subseteq Remotes /\ late \subseteq Remotes
  BY DEF TypeOK, ThreadType, RcloneType
<1>a. /\ th[t].pc # "idle" => th[t].r \in Remotes
      /\ th[t].pc \in HoldPCs => th[t].p \in Procs
  BY <1>0 DEF Shape, ThreadType
<1>b. UNCHANGED <<busy, main, menu, entangled>> /\ configured' \subseteq Remotes
  BY <1>0 DEF ThreadStep, viewVars, Delete
<1>c. ASSUME NEW pc \in {"idle", "check", "purge", "launch", "wait", "get", "drain", "pop",
                         "stop", "delete", "done", "failed"}, Goto(t, pc)
      PROVE  th' \in [Threads -> ThreadType]
  BY <1>0, <1>c DEF Goto, ThreadType
<1>d. UNCHANGED rcloneVars => RcloneType'
  BY <1>0 DEF rcloneVars, RcloneType
<1> SUFFICES /\ th' \in [Threads -> ThreadType]
             /\ mounts' \in [Remotes -> Procs \cup {None}]
             /\ RcloneType' /\ late' \subseteq Remotes
  BY <1>b DEF TypeOK, ThreadType, RcloneType
<1>1. CASE Check(t) /\ late' = late
  <2>1. PICK pc \in {"launch", "done", "purge"} : Goto(t, pc)
    BY <1>1 DEF Check
  <2> QED
    BY <1>0, <1>1, <1>c, <1>d, <2>1 DEF Check
<1>2. CASE Purge(t) /\ late' = late
  <2>1. PICK pc \in {"failed", "launch"} : Goto(t, pc)
    BY <1>2 DEF Purge
  <2> QED
    BY <1>0, <1>2, <1>c, <1>d, <2>1 DEF Purge
<1>3. CASE (Refuse(t) \/ Drained(t)) /\ late' = late
  BY <1>0, <1>3, <1>c, <1>d DEF Refuse, Drained
<1>4. CASE Launch(t) /\ late' = late
  <2>1. PICK p \in Procs :
          /\ proc' = [proc EXCEPT ![p] = [st |-> "starting", r |-> th[t].r]]
          /\ th' = [th EXCEPT ![t].pc = "wait", ![t].p = p]
    BY <1>4 DEF Launch
  <2>2. th' \in [Threads -> ThreadType]
    BY <1>0, <2>1 DEF ThreadType
  <2>3. RcloneType'
    BY <1>0, <1>4, <2>1 DEF Launch, RcloneType, ThreadType
  <2> QED
    BY <1>0, <1>4, <2>2, <2>3 DEF Launch
<1>5. CASE SawExit(t) /\ late' = late
  BY <1>0, <1>5, <1>d, LeaveType DEF SawExit
<1>6. CASE Register(t)
  <2>1. th[t].r \in Remotes /\ th[t].p \in Procs
    BY <1>a, <1>6 DEF Register, At, HoldPCs
  <2>2. mounts' \in [Remotes -> Procs \cup {None}] /\ late' \subseteq Remotes
    BY <1>0, <1>6, <2>1 DEF Register
  <2> QED
    BY <1>6, <1>d, <2>2, LeaveType DEF Register
<1>7. CASE GiveUp(t) /\ late' = late
  <2>1. th[t].p \in Procs
    BY <1>a, <1>7 DEF GiveUp, At, HoldPCs
  <2> QED
    BY <1>0, <1>7, <2>1, LeaveType, StopType DEF GiveUp
<1>8. CASE Get(t) /\ late' = late
  <2>1. At(t, "get") /\ UNCHANGED <<mounts, rcloneVars>>
    BY <1>8 DEF Get
  <2>2. CASE mounts[th[t].r] = None
    <3>1. PICK pc \in {"delete", "done"} : th' = [th EXCEPT ![t].pc = pc]
      BY <1>0, <1>8, <2>2 DEF Get, After
    <3>2. th' \in [Threads -> ThreadType]
      BY <1>0, <3>1 DEF ThreadType
    <3> QED
      BY <1>0, <1>8, <1>d, <2>1, <3>2
  <2>3. CASE mounts[th[t].r] # None
    <3>1. mounts[th[t].r] \in Procs
      BY <1>0, <1>a, <2>1, <2>3 DEF At
    <3>2. PICK owed \in SUBSET Files :
            th' = [th EXCEPT ![t] = [th[t] EXCEPT !.pc = "drain", !.p = mounts[th[t].r],
                                                  !.owed = owed]]
      BY <1>8, <2>3 DEF Get, Pending
    <3>3. [th[t] EXCEPT !.pc = "drain", !.p = mounts[th[t].r], !.owed = owed] \in ThreadType
      BY <1>0, <3>1 DEF ThreadType
    <3>4. th' \in [Threads -> ThreadType]
      BY <1>0, <3>2, <3>3
    <3> QED
      BY <1>0, <1>8, <1>d, <2>1, <3>4
  <2> QED
    BY <2>2, <2>3
<1>9. CASE DrainTimesOut(t) /\ late' = late
  <2>1. th' \in [Threads -> ThreadType]
    BY <1>0, <1>9 DEF DrainTimesOut, ThreadType
  <2> QED
    BY <1>0, <1>9, <1>d, <2>1 DEF DrainTimesOut
<1>10. CASE Pop(t) /\ late' = late
  <2>1. mounts' \in [Remotes -> Procs \cup {None}]
    BY <1>0, <1>10 DEF Pop
  <2> QED
    BY <1>0, <1>10, <1>c, <1>d, <2>1 DEF Pop
<1>11. CASE Stop(t) /\ late' = late
  <2>1. th[t].p \in Procs
    BY <1>a, <1>11 DEF Stop, At, HoldPCs
  <2>2. PICK pc \in {"delete", "done"} : Leave(t, pc)
    BY <1>11 DEF Stop, After
  <2> QED
    BY <1>0, <1>11, <2>1, <2>2, LeaveType, StopType DEF Stop
<1>12. CASE Delete(t) /\ late' = late
  <2>1. PICK pc \in {"done", "failed"} : Goto(t, pc)
    BY <1>12 DEF Delete
  <2> QED
    BY <1>0, <1>12, <1>c, <1>d, <2>1 DEF Delete
<1> QED
  BY <1>1, <1>2, <1>3, <1>4, <1>5, <1>6, <1>7, <1>8, <1>9, <1>10, <1>11, <1>12 DEF ThreadStep

MainType ==
  [at : {"loop", "refresh", "purge", "unmount_all", "wait_for_pool", "exited"},
   left : SUBSET Remotes, looked : Remotes \cup {None},
   then : {"none", "menu", "mount", "unmount"}, r : Remotes \cup {None}]
MenuOK == menu = None \/ menu \in [r : Remotes, offer : {"none", "mount", "unmount"}]

LEMMA RunType ==
  ASSUME TypeOK, NEW j \in Jobs, NEW kind \in {"mount", "unmount", "remove"}, NEW r \in Remotes,
         Run(j, kind, r)
  PROVE  th' \in [Threads -> ThreadType] /\ entangled' \subseteq Remotes
<1>1. th \in [Threads -> ThreadType] /\ entangled \subseteq Remotes
  BY DEF TypeOK, ThreadType
<1>2. th' = [th EXCEPT ![j] = Start(kind, r)] /\ Start(kind, r) \in ThreadType
  BY StartType DEF Run
<1>3. th' \in [Threads -> ThreadType]
  BY <1>1, <1>2
<1>4. entangled' \subseteq Remotes
  BY <1>1 DEF Run
<1> QED
  BY <1>3, <1>4

LEMMA ViewType ==
  ASSUME TypeOK, Busy, View
  PROVE  TypeOK'
<1>0. /\ th \in [Threads -> ThreadType] /\ main \in MainType /\ MenuOK
      /\ mounts \in [Remotes -> Procs \cup {None}]
      /\ busy \subseteq Remotes /\ entangled \subseteq Remotes
      /\ Loop \in MainType /\ Idle \in ThreadType
      /\ \A x \in {"none", "menu", "mount", "unmount"}, r \in Remotes \cup {None} :
           Refresh(x, r) \in MainType
  BY StartType DEF TypeOK, ThreadType, MainType, MenuOK, Loop, Refresh
<1>a. UNCHANGED <<rcloneVars, configured, late>>
  BY DEF View
<1> SUFFICES /\ th' \in [Threads -> ThreadType] /\ main' \in MainType /\ MenuOK'
             /\ mounts' \in [Remotes -> Procs \cup {None}]
             /\ busy' \subseteq Remotes /\ entangled' \subseteq Remotes
  BY <1>a DEF TypeOK, ThreadType, MainType, MenuOK, rcloneVars
<1>1. CASE LookAtDead
  <2>1. PICK q \in Remotes : main' = [main EXCEPT !.at = "purge", !.looked = q]
    BY <1>0, <1>1 DEF LookAtDead, MainType
  <2>2. main' \in MainType
    BY <1>0, <2>1 DEF MainType
  <2> QED
    BY <1>0, <1>1, <2>2 DEF LookAtDead, MenuOK
<1>2. CASE PurgeDead
  <2>1. main' \in MainType
    BY <1>0, <1>2 DEF PurgeDead, MainType
  <2>2. mounts' \in [Remotes -> Procs \cup {None}]
    BY <1>0, <1>2 DEF PurgeDead
  <2> QED
    BY <1>0, <1>2, <2>1, <2>2 DEF PurgeDead, MenuOK
<1>3. CASE LookDone
  <2>1. main' \in MainType /\ UNCHANGED <<mounts, busy>>
    BY <1>0, <1>3 DEF LookDone
  <2>2. CASE main.then = "none"
    BY <1>0, <1>3, <2>1, <2>2 DEF LookDone, MenuOK
  <2>3. CASE main.then = "menu"
    <3>1. menu' = [r |-> main.r, offer |-> Offer(main.r)] /\ UNCHANGED <<th, entangled>>
      BY <1>3, <2>3 DEF LookDone
    <3>2. main.r \in Remotes
      BY <2>3 DEF Busy
    <3>3. MenuOK'
      BY <3>1, <3>2 DEF MenuOK, Offer
    <3> QED
      BY <1>0, <2>1, <3>1, <3>3
  <2>4. CASE main.then \in Menial
    <3>1. PICK j \in Jobs : Run(j, main.then, main.r)
      BY <1>3, <2>4 DEF LookDone, Menial
    <3>2. menu' = menu /\ main.r \in Remotes /\ main.then \in {"mount", "unmount", "remove"}
      BY <1>0, <1>3, <2>4 DEF LookDone, Menial, Busy
    <3> QED
      BY <1>0, <2>1, <3>1, <3>2, RunType DEF MenuOK
  <2> QED
    BY <1>0, <2>2, <2>3, <2>4 DEF Menial, MainType
<1>4. ASSUME NEW r \in Remotes, OpenMenu(r)
      PROVE  main' \in MainType
  <2>1. Refresh("menu", r) \in MainType
    BY <1>0
  <2> QED
    BY <1>4, <2>1 DEF OpenMenu, MainType
<1>5. CASE \E r \in Remotes : OpenMenu(r)
  BY <1>0, <1>4, <1>5 DEF OpenMenu, MenuOK
<1>6. CASE CloseMenu \/ UserRefresh
  BY <1>0, <1>6 DEF CloseMenu, UserRefresh, MenuOK
<1>7. CASE ChooseOffered
  <2>1. menu.r \in Remotes /\ menu.offer \in {"none", "mount", "unmount"}
    BY <1>0, <1>7 DEF ChooseOffered, MenuOK
  <2> QED
    BY <1>0, <1>7, <2>1 DEF ChooseOffered, MenuOK
<1>8. CASE ChooseRemove
  <2>1. PICK j \in Jobs : Run(j, "remove", menu.r)
    BY <1>8 DEF ChooseRemove
  <2>2. menu.r \in Remotes
    BY <1>0, <1>8 DEF ChooseRemove, MenuOK
  <2>3. th' \in [Threads -> ThreadType] /\ entangled' \subseteq Remotes
    BY <2>1, <2>2, RunType
  <2> QED
    BY <1>0, <1>8, <2>3 DEF ChooseRemove, MenuOK
<1>9. ASSUME NEW j \in Jobs, Deliver(j)
      PROVE  th' \in [Threads -> ThreadType] /\ main' \in MainType /\ busy' \subseteq Remotes
  <2>1. th' = [th EXCEPT ![j] = Idle]
    BY <1>9 DEF Deliver
  <2>2. th' \in [Threads -> ThreadType]
    BY <1>0, <2>1
  <2>3. main' = Refresh("none", None) \/ main' = Loop
    BY <1>9 DEF Deliver
  <2>4. busy' = busy \/ busy' = busy \ {th[j].r}
    BY <1>9 DEF Deliver
  <2> QED
    BY <1>0, <2>2, <2>3, <2>4
<1>14. CASE \E j \in Jobs : Deliver(j)
  BY <1>0, <1>9, <1>14 DEF Deliver, MenuOK
<1>10. CASE Quit
  <2>1. main' = [Loop EXCEPT !.at = "unmount_all", !.left = {r \in Remotes : mounts[r] # None}]
    BY <1>10 DEF Quit
  <2>2. main' \in MainType
    BY <1>0, <2>1 DEF MainType
  <2> QED
    BY <1>0, <1>10, <2>2 DEF Quit, MenuOK
<1>11. ASSUME NEW r \in Remotes, UnmountNext(r)
       PROVE  th' \in [Threads -> ThreadType] /\ main' \in MainType
  <2>1. main' \in MainType
    BY <1>0, <1>11 DEF UnmountNext, MainType
  <2>2. Start("quit", r) \in ThreadType
    BY StartType
  <2> QED
    BY <1>0, <1>11, <2>1, <2>2 DEF UnmountNext
<1>12. CASE \E r \in Remotes : UnmountNext(r)
  BY <1>0, <1>11, <1>12 DEF UnmountNext, MenuOK
<1>13. CASE AllUnmounted \/ Exit
  <2>1. main' \in MainType
    BY <1>0, <1>13 DEF AllUnmounted, Exit, MainType
  <2> QED
    BY <1>0, <1>13, <2>1 DEF AllUnmounted, Exit, MenuOK
<1> QED
  BY <1>1, <1>2, <1>3, <1>5, <1>6, <1>7, <1>8, <1>10, <1>12, <1>13, <1>14
  DEF View, Handler, User, Shutdown

LEMMA NextType ==
  ASSUME TypeOK, Shape, Busy, [Next]_vars
  PROVE  TypeOK'
<1>1. CASE Rclone
  <2>1. UNCHANGED <<mounts, viewVars, configured, th, historyVars>>
    BY <1>1 DEF Rclone
  <2>2. ASSUME NEW p \in Procs, Appear(p) \/ Die(p) \/ GoDeaf(p)
        PROVE  RcloneType'
    <3>1. CASE Appear(p)
      BY <3>1 DEF Appear, TypeOK, RcloneType
    <3>2. CASE Die(p)
      BY <3>2, StopType DEF Die
    <3>3. CASE GoDeaf(p)
      BY <3>3 DEF GoDeaf, TypeOK, RcloneType
    <3> QED
      BY <2>2, <3>1, <3>2, <3>3
  <2>3. ASSUME NEW p \in Procs, NEW f \in Files, Save(p, f) \/ Upload(p, f)
        PROVE  RcloneType'
    <3>1. PICK x \in {"queued", "stored"} : upload' = [upload EXCEPT ![p][f] = x]
      BY <2>3 DEF Save, Upload
    <3>2. upload' \in [Procs -> [Files -> {"unsaved", "queued", "stored"}]]
      BY <3>1 DEF TypeOK
    <3> QED
      BY <2>3, <3>2 DEF Save, Upload, TypeOK, RcloneType
  <2>4. RcloneType'
    BY <1>1, <2>2, <2>3 DEF Rclone
  <2> QED
    BY <2>1, <2>4 DEF TypeOK, RcloneType, viewVars, historyVars
<1>2. CASE View
  BY <1>2, ViewType
<1>3. CASE \E t \in Threads : ThreadStep(t)
  BY <1>3, ThreadStepType
<1>4. CASE \E r \in Remotes : AddRemote(r)
  BY <1>4 DEF AddRemote, TypeOK, rcloneVars, viewVars, historyVars
<1>5. CASE UNCHANGED vars
  BY <1>5 DEF TypeOK, vars, rcloneVars, viewVars, historyVars
<1> QED
  BY <1>1, <1>2, <1>3, <1>4, <1>5 DEF Next, Exited

-----------------------------------------------------------------------------
(* Threads and names.                                                      *)

LEMMA StepCases ==
  ASSUME IInv, [Next]_vars
  PROVE  \/ Outside
         \/ \E t \in Threads : ThreadEffect(t)
         \/ ViewEffect /\ UNCHANGED <<proc, late>>
  BY Steps, ViewEffects DEF IInv

LEMMA ThreadMoves ==
  ASSUME NEW t \in Threads, ThreadEffect(t)
  PROVE  /\ Still
         /\ \A u \in Threads : u # t => th'[u] = th[u]
         /\ th'[t].kind = th[t].kind /\ th'[t].r = th[t].r
         /\ Active(t) /\ th'[t].pc # "idle"
         /\ th'[t].pc \in MountPCs => th[t].pc \in MountPCs
         /\ th'[t].pc \in StopPCs => th[t].pc \in StopPCs
<1> USE DEF Moves, Active, MountPCs, StopPCs
<1>1. CASE Progress(t)
  BY <1>1 DEF Progress
<1>2. CASE Releases(t)
  BY <1>2 DEF Releases
<1>3. CASE Launches(t)
  BY <1>3 DEF Launches
<1>4. CASE Registers(t)
  BY <1>4 DEF Registers
<1>5. CASE Grabs(t)
  BY <1>5 DEF Grabs
<1>6. CASE Drops(t)
  BY <1>6 DEF Drops
<1> QED
  BY <1>1, <1>2, <1>3, <1>4, <1>5, <1>6 DEF ThreadEffect

ShapeOf(t) ==
  /\ th[t].pc = "idle" <=> th[t].kind = "none"
  /\ th[t].pc # "idle" => th[t].r \in Remotes
  /\ th[t].pc \in MountPCs => th[t].kind = "mount"
  /\ th[t].pc \in StopPCs => th[t].kind # "mount"
  /\ th[t].p # None <=> th[t].pc \in HoldPCs
  /\ t = QuitThread => th[t].kind \in {"none", "quit"}
  /\ t \in Jobs => th[t].kind # "quit"

LEMMA NextShape ==
  ASSUME IInv, [Next]_vars
  PROVE  Shape'
<1>0. Shape /\ \A t \in Threads : ShapeOf(t)
  BY DEF IInv, Shape, ShapeOf
<1> SUFFICES ASSUME NEW u \in Threads
             PROVE  ShapeOf(u)'
  BY DEF Shape, ShapeOf
<1>a. ASSUME th'[u] = th[u]
      PROVE  ShapeOf(u)'
  BY <1>0, <1>a DEF ShapeOf
<1>1. ASSUME NEW t \in Threads, ThreadEffect(t)
      PROVE  ShapeOf(u)'
  <2>1. CASE u # t
    BY <1>1, <1>a, <2>1, ThreadMoves
  <2>2. th'[t].p # None <=> th'[t].pc \in HoldPCs
    <3> USE DEF Moves, HoldPCs
    <3>0. th[t].p # None <=> th[t].pc \in HoldPCs
      BY <1>0 DEF ShapeOf
    <3>1. CASE Progress(t)
      BY <3>0, <3>1 DEF Progress
    <3>2. CASE Releases(t)
      BY <3>2 DEF Releases
    <3>3. CASE Launches(t)
      BY <3>3, Basics DEF Launches
    <3>4. CASE Registers(t)
      BY <3>4 DEF Registers
    <3>5. CASE Grabs(t)
      BY <3>5 DEF Grabs
    <3>6. CASE Drops(t)
      BY <3>0, <3>6 DEF Drops
    <3> QED
      BY <1>1, <3>1, <3>2, <3>3, <3>4, <3>5, <3>6 DEF ThreadEffect
  <2>3. ShapeOf(t)'
    BY <1>0, <1>1, <2>2, ThreadMoves DEF ShapeOf, Active
  <2> QED
    BY <2>1, <2>3
<1>2. CASE Outside
  BY <1>2, <1>a DEF Outside
<1>3. CASE ViewEffect
  <2>1. ASSUME NEW j \in Jobs, NEW kind \in {"mount", "unmount", "remove"}, NEW r,
               Assigned(j, kind, r)
        PROVE  ShapeOf(u)'
    <3>1. CASE u # j
      BY <1>a, <2>1, <3>1 DEF Assigned
    <3>2. CASE u = j
      BY <2>1, <3>2, Basics DEF Assigned, ShapeOf, MountPCs, StopPCs, HoldPCs
    <3> QED
      BY <3>1, <3>2
  <2>2. ASSUME NEW j \in Jobs, RunsChosen(j) \/ RunsRemoval(j)
        PROVE  ShapeOf(u)'
    BY <2>1, <2>2 DEF RunsChosen, RunsRemoval, Menial
  <2>3. ASSUME NEW j \in Jobs, Delivers(j)
        PROVE  ShapeOf(u)'
    <3>1. CASE u # j
      BY <1>a, <2>3, <3>1 DEF Delivers
    <3>2. CASE u = j
      BY <2>3, <3>2, MainFacts DEF Delivers, ShapeOf, MountPCs, StopPCs, HoldPCs
    <3> QED
      BY <3>1, <3>2
  <2>4. ASSUME NEW r \in Remotes, Unmounts(r)
        PROVE  ShapeOf(u)'
    <3>1. CASE u # QuitThread
      BY <1>a, <2>4, <3>1 DEF Unmounts
    <3>2. CASE u = QuitThread
      BY <2>4, <3>2, Basics DEF Unmounts, ShapeOf, MountPCs, StopPCs, HoldPCs
    <3> QED
      BY <3>1, <3>2
  <2>5. CASE Looks \/ Deletes \/ Turns \/ Marks \/ Quits \/ Drains \/ Exits
    BY <1>a, <2>5 DEF Looks, Deletes, Turns, Marks, Quits, Drains, Exits
  <2> QED
    BY <1>3, <2>2, <2>3, <2>4, <2>5 DEF ViewEffect
<1> QED
  BY <1>1, <1>2, <1>3, StepCases

\* What a step of the view does to the threads and to the table.
LEMMA ViewThreads ==
  ASSUME TypeOK, Shape, ViewEffect
  PROVE  /\ \A u \in Threads :
              \/ th'[u] = th[u]
              \/ ~Active(u) /\ th'[u].p = None /\ th[u].p = None
         /\ \A r \in Remotes : mounts'[r] = mounts[r] \/ mounts'[r] = None
<1>0. \A u \in Threads : ~Active(u) => th[u].p = None
  BY DEF Shape, Active, HoldPCs
<1>1. ASSUME NEW j \in Jobs, RunsChosen(j) \/ RunsRemoval(j)
      PROVE  /\ mounts' = mounts /\ th[j].pc = "idle" /\ th'[j].p = None
             /\ \A u \in Threads : u # j => th'[u] = th[u]
  BY <1>1 DEF RunsChosen, RunsRemoval, Assigned
<1>2. ASSUME NEW j \in Jobs, Delivers(j)
      PROVE  /\ mounts' = mounts /\ th[j].pc \in {"done", "failed"} /\ th'[j].p = None
             /\ \A u \in Threads : u # j => th'[u] = th[u]
  BY <1>2, MainFacts DEF Delivers
<1>3. ASSUME NEW r \in Remotes, Unmounts(r)
      PROVE  /\ mounts' = mounts /\ ~Active(QuitThread) /\ th'[QuitThread].p = None
             /\ \A u \in Threads : u # QuitThread => th'[u] = th[u]
  BY <1>3 DEF Unmounts
<1>4. CASE \E j \in Jobs : RunsChosen(j) \/ RunsRemoval(j) \/ Delivers(j)
  BY <1>0, <1>1, <1>2, <1>4, Basics DEF Active
<1>5. CASE \E r \in Remotes : Unmounts(r)
  BY <1>0, <1>3, <1>5, Basics
<1>6. CASE Looks \/ Deletes \/ Turns \/ Marks \/ Quits \/ Drains \/ Exits
  BY <1>6 DEF Looks, Deletes, Turns, Marks, Quits, Drains, Exits
<1> QED
  BY <1>4, <1>5, <1>6 DEF ViewEffect

LEMMA NextNames ==
  ASSUME IInv, [Next]_vars
  PROVE  Names'
<1>0. /\ Names /\ TypeOK /\ Shape
      /\ \A t \in Threads : th[t].p \in Procs \cup {None}
      /\ \A r \in Remotes : mounts[r] \in Procs \cup {None}
      /\ None \notin Procs
  BY Basics, ThreadFacts DEF IInv, TypeOK
<1> USE DEF Live
<1>1. CASE Outside
  BY <1>0, <1>1 DEF Names, Outside, NoStart
<1>2. CASE ViewEffect /\ UNCHANGED <<proc, late>>
  BY <1>0, <1>2, ViewThreads DEF Names
<1>3. ASSUME NEW t \in Threads, ThreadEffect(t)
      PROVE  Names'
  <2>0. /\ \A u \in Threads : u # t => th'[u] = th[u]
        /\ th'[t].r = th[t].r /\ th[t].r \in Remotes
    BY <1>0, <1>3, ThreadMoves DEF Shape, Active
  <2>1. CASE Progress(t)
    <3>1. th'[t].p = th[t].p
      BY <2>1 DEF Progress, Moves
    <3> QED
      BY <1>0, <2>0, <2>1, <3>1 DEF Progress, NoStart, Names
  <2>2. CASE Releases(t)
    <3>1. th'[t].p = None
      BY <2>2 DEF Releases, Moves
    <3> QED
      BY <1>0, <2>0, <2>2, <3>1 DEF Releases, NoStart, Names
  <2>3. CASE Launches(t)
    <3>1. PICK p \in Procs :
            /\ Unused(p) /\ Moves(t, "wait", p)
            /\ proc'[p].r = th[t].r
            /\ \A q \in Procs : q # p => proc'[q] = proc[q]
      BY <2>3 DEF Launches
    <3>2. mounts' = mounts /\ th'[t].p = p
      BY <2>3, <3>1 DEF Launches, Moves
    <3>3. (\A r \in Remotes : mounts[r] # p) /\ \A u \in Threads : th[u].p # p
      BY <3>1 DEF Unused
    <3>4. \A r \in Remotes : mounts'[r] # None /\ proc'[mounts'[r]].st # "gone"
                               => proc'[mounts'[r]].r = r
      BY <1>0, <3>1, <3>2, <3>3 DEF Names
    <3>5. \A u \in Threads : th'[u].p # None /\ proc'[th'[u].p].st # "gone"
                               => proc'[th'[u].p].r = th'[u].r
      BY <1>0, <2>0, <3>1, <3>2, <3>3 DEF Names
    <3>6. \A q \in Procs : proc'[q].st # "gone" => proc'[q].r \in Remotes
      BY <1>0, <2>0, <3>1 DEF Names
    <3> QED
      BY <3>4, <3>5, <3>6 DEF Names
  <2>4. CASE Registers(t)
    <3>1. th'[t].p = None
      BY <2>4 DEF Registers, Moves
    <3> QED
      BY <1>0, <2>0, <2>4, <3>1 DEF Registers, NoStart, Names
  <2>5. CASE Grabs(t)
    <3>1. th'[t].p = mounts[th[t].r]
      BY <2>5 DEF Grabs, Moves
    <3> QED
      BY <1>0, <2>0, <2>5, <3>1 DEF Grabs, NoStart, Names
  <2>6. CASE Drops(t)
    <3>1. th'[t].p = th[t].p
      BY <2>6 DEF Drops, Moves
    <3> QED
      BY <1>0, <2>0, <2>6, <3>1 DEF Drops, NoStart, Names
  <2> QED
    BY <1>3, <2>1, <2>2, <2>3, <2>4, <2>5, <2>6 DEF ThreadEffect
<1> QED
  BY <1>1, <1>2, <1>3, StepCases

-----------------------------------------------------------------------------
(* Who works on a remote.                                                  *)

\* Facts about the threads that the proofs below share.
LEMMA Workers ==
  ASSUME TypeOK, Shape, NEW t \in Threads
  PROVE  /\ th[t].pc \in MountPCs => t \in Jobs /\ th[t].kind \in Menial /\ Active(t)
         /\ th[t].pc # "idle" => th[t].r \in Remotes
         /\ th[t].p # None => Active(t) /\ th[t].p \in Procs /\ th[t].r \in Remotes
         /\ th[t].kind \in Menial => th[t].pc # "idle" /\ t \in Jobs
         /\ Active(t) => th[t].pc # "idle"
         /\ Active(t) /\ t \in Jobs /\ th[t].kind # "remove" => th[t].kind \in Menial
         /\ th[t].pc \in {"done", "failed"} /\ t \in Jobs /\ th[t].kind # "remove"
              => th[t].kind \in Menial
  BY Basics, ThreadFacts DEF Shape, Active, MountPCs, HoldPCs, Menial

\* Only a mount of a busy remote enters something in the table.
LEMMA ThreadMounts ==
  ASSUME IInv, NEW t \in Threads, ThreadEffect(t)
  PROVE  \A r \in Remotes :
           \/ mounts'[r] = mounts[r]
           \/ mounts'[r] = None
           \/ Registers(t) /\ r = th[t].r /\ t \in Jobs /\ th[t].kind \in Menial /\ r \in busy
<1>1. CASE Registers(t)
  <2>1. t \in Jobs /\ th[t].kind \in Menial
    BY <1>1, Workers DEF IInv, Registers, MountPCs
  <2>2. th[t].r \in busy
    BY <2>1 DEF IInv, Busy
  <2> QED
    BY <1>1, <2>1, <2>2 DEF Registers
<1>2. CASE Progress(t) \/ Releases(t) \/ Launches(t) \/ Grabs(t)
  BY <1>2 DEF Progress, Releases, Launches, Grabs
<1>3. CASE Drops(t)
  BY <1>3 DEF Drops
<1> QED
  BY <1>1, <1>2, <1>3 DEF ThreadEffect

BusyJobs ==
  /\ \A j \in Jobs : th[j].kind \in Menial => th[j].r \in busy
  /\ \A i, j \in Jobs :
       th[i].kind \in Menial /\ th[j].kind \in Menial /\ th[i].r = th[j].r => i = j
BusyMenu ==
  /\ menu # None /\ menu.offer # "none" => menu.r \notin busy
  /\ menu # None /\ menu.offer = "mount" => mounts[menu.r] = None
BusyMain ==
  /\ main.then = "menu" => main.r \in Remotes
  /\ main.then \in Menial =>
       /\ main.at \in {"refresh", "purge"} /\ menu = None
       /\ main.r \in busy
       /\ \A j \in Jobs : th[j].kind \in Menial => th[j].r # main.r
       /\ main.then = "mount" => mounts[main.r] = None

LEMMA NextBusy ==
  ASSUME IInv, [Next]_vars
  PROVE  Busy'
<1>0. /\ TypeOK /\ Shape /\ BusyJobs /\ BusyMenu /\ BusyMain
      /\ Jobs \subseteq Threads
      /\ busy \subseteq Remotes
      /\ menu # None => menu.r \in Remotes /\ menu.offer \in {"none", "mount", "unmount"}
  BY Basics DEF IInv, Busy, BusyJobs, BusyMenu, BusyMain, TypeOK
<1> SUFFICES BusyJobs' /\ BusyMenu' /\ BusyMain'
  BY DEF Busy, BusyJobs, BusyMenu, BusyMain
<1>1. CASE Outside
  BY <1>0, <1>1 DEF Outside, BusyJobs, BusyMenu, BusyMain
<1>2. ASSUME NEW t \in Threads, ThreadEffect(t)
      PROVE  BusyJobs' /\ BusyMenu' /\ BusyMain'
  <2>1. /\ busy' = busy /\ main' = main /\ menu' = menu
        /\ \A u \in Threads : th'[u].kind = th[u].kind /\ th'[u].r = th[u].r
    BY <1>2, ThreadMoves DEF Still
  <2>2. BusyJobs'
    BY <1>0, <2>1 DEF BusyJobs
  <2>3. \A r \in Remotes : mounts[r] = None /\ mounts'[r] # None
          => r \in busy /\ \E j \in Jobs : th[j].kind \in Menial /\ th[j].r = r
    BY <1>2, ThreadMounts
  <2>4. BusyMenu'
    BY <1>0, <2>1, <2>3 DEF BusyMenu
  <2>5. BusyMain'
    BY <1>0, <2>1, <2>3 DEF BusyMain
  <2> QED
    BY <2>2, <2>4, <2>5
<1>3. CASE ViewEffect
  <2>1. CASE Looks
    BY <1>0, <2>1 DEF Looks, BusyJobs, BusyMenu, BusyMain
  <2>2. CASE Deletes
    BY <1>0, <2>2 DEF Deletes, BusyJobs, BusyMenu, BusyMain, Menial
  <2>3. CASE Turns
    <3>1. BusyJobs' /\ BusyMain'
      BY <1>0, <2>3 DEF Turns, BusyJobs, BusyMain
    <3>2. BusyMenu'
      BY <1>0, <2>3 DEF Turns, BusyMenu, Offer
    <3> QED
      BY <3>1, <3>2
  <2>4. CASE Marks
    <3>1. BusyJobs'
      BY <1>0, <2>4 DEF Marks, BusyJobs
    <3>2. BusyMenu'
      BY <2>4 DEF Marks, BusyMenu
    <3>3. \A j \in Jobs : th[j].kind \in Menial => th[j].r # menu.r
      BY <1>0, <2>4 DEF Marks, BusyJobs, BusyMenu, Menial
    <3>4. BusyMain'
      BY <1>0, <2>4, <3>3 DEF Marks, BusyMenu, BusyMain, Menial
    <3> QED
      BY <3>1, <3>2, <3>4
  <2>5. CASE Quits
    BY <1>0, <2>5 DEF Quits, BusyJobs, BusyMenu, BusyMain, Menial
  <2>6. CASE Drains \/ Exits
    BY <1>0, <2>6 DEF Drains, Exits, BusyJobs, BusyMenu, BusyMain
  <2>7. ASSUME NEW j \in Jobs, RunsChosen(j)
        PROVE  BusyJobs' /\ BusyMenu' /\ BusyMain'
    <3>1. \A i \in Jobs : i # j => th'[i] = th[i]
      BY <1>0, <2>7 DEF RunsChosen, Assigned
    <3>2. th'[j].kind = main.then /\ th'[j].r = main.r
      BY <2>7 DEF RunsChosen, Assigned
    <3>3. main.r \in busy /\ \A i \in Jobs : th[i].kind \in Menial => th[i].r # main.r
      BY <1>0, <2>7 DEF RunsChosen, BusyMain
    <3>4. BusyJobs'
      BY <1>0, <2>7, <3>1, <3>2, <3>3 DEF RunsChosen, BusyJobs
    <3>5. BusyMenu' /\ BusyMain'
      BY <1>0, <2>7 DEF RunsChosen, BusyMenu, BusyMain, Menial
    <3> QED
      BY <3>4, <3>5
  <2>8. ASSUME NEW j \in Jobs, RunsRemoval(j)
        PROVE  BusyJobs' /\ BusyMenu' /\ BusyMain'
    <3>1. \A i \in Jobs : i # j => th'[i] = th[i]
      BY <1>0, <2>8 DEF RunsRemoval, Assigned
    <3>2. th'[j].kind = "remove" /\ main'.then = "none"
      BY <2>8, MainFacts DEF RunsRemoval, Assigned
    <3>3. BusyJobs'
      BY <1>0, <2>8, <3>1, <3>2 DEF RunsRemoval, BusyJobs, Menial
    <3>4. BusyMenu' /\ BusyMain'
      BY <1>0, <2>8, <3>2 DEF RunsRemoval, BusyMenu, BusyMain, Menial
    <3> QED
      BY <3>3, <3>4
  <2>9. ASSUME NEW j \in Jobs, Delivers(j)
        PROVE  BusyJobs' /\ BusyMenu' /\ BusyMain'
    <3>1. \A i \in Jobs : i # j => th'[i] = th[i]
      BY <1>0, <2>9 DEF Delivers
    <3>2. th'[j].kind = "none" /\ main'.then = "none"
      BY <2>9, MainFacts DEF Delivers
    <3>3. th[j].kind # "remove" => th[j].kind \in Menial
      BY <1>0, <2>9, Workers DEF Delivers
    <3>4. \A i \in Jobs : i # j /\ th[i].kind \in Menial => th[i].r \in busy'
      BY <1>0, <2>9, <3>3 DEF Delivers, BusyJobs
    <3>5. BusyJobs'
      BY <1>0, <3>1, <3>2, <3>4 DEF BusyJobs, Menial
    <3>6. BusyMenu' /\ BusyMain'
      BY <1>0, <2>9, <3>2 DEF Delivers, BusyMenu, BusyMain, Menial
    <3> QED
      BY <3>5, <3>6
  <2>10. ASSUME NEW r \in Remotes, Unmounts(r)
         PROVE  BusyJobs' /\ BusyMenu' /\ BusyMain'
    <3>1. \A i \in Jobs : th'[i] = th[i]
      BY <1>0, <2>10, Basics DEF Unmounts
    <3>2. BusyJobs'
      BY <1>0, <2>10, <3>1 DEF Unmounts, BusyJobs
    <3>3. BusyMenu' /\ BusyMain'
      BY <1>0, <2>10, <3>1 DEF Unmounts, BusyMenu, BusyMain
    <3> QED
      BY <3>2, <3>3
  <2> QED
    BY <1>3, <2>1, <2>2, <2>3, <2>4, <2>5, <2>6, <2>7, <2>8, <2>9, <2>10 DEF ViewEffect
<1> QED
  BY <1>1, <1>2, <1>3, StepCases

\* A thread is set to work on a remote only by a handler; if another one is at
\* work on it, one of the two is a removal, and the remote counts as entangled.
LEMMA Assigning ==
  ASSUME IInv, NEW j \in Jobs, RunsChosen(j) \/ RunsRemoval(j)
  PROVE  /\ \A u \in Threads : u # j => th'[u] = th[u]
         /\ entangled \subseteq entangled'
         /\ \A i \in Jobs : Active(i) /\ th[i].r = th'[j].r => th'[j].r \in entangled'
<1>0. TypeOK /\ Shape /\ Busy /\ Jobs \subseteq Threads
  BY Basics DEF IInv
<1>1. CASE RunsChosen(j)
  <2>1. /\ th'[j].r = main.r
        /\ \A u \in Threads : u # j => th'[u] = th[u]
        /\ Entangles(main.then, main.r)
        /\ main.then \in Menial
    BY <1>1 DEF RunsChosen, Assigned
  <2>2. ASSUME NEW i \in Jobs, Active(i), th[i].r = main.r
        PROVE  th[i].kind = "remove"
    BY <1>0, <2>1, <2>2, Workers DEF Busy
  <2> QED
    BY <2>1, <2>2 DEF Entangles
<1>2. CASE RunsRemoval(j)
  <2>1. /\ th'[j].r = menu.r
        /\ \A u \in Threads : u # j => th'[u] = th[u]
        /\ Entangles("remove", menu.r)
    BY <1>2 DEF RunsRemoval, Assigned
  <2> QED
    BY <2>1 DEF Entangles
<1> QED
  BY <1>1, <1>2

\* Any other step adds no work to a remote.
LEMMA NoNewWork ==
  ASSUME IInv, [Next]_vars, ~\E j \in Jobs : RunsChosen(j) \/ RunsRemoval(j)
  PROVE  /\ entangled' = entangled
         /\ \A j \in Jobs :
              Active(j)' => Active(j) /\ th'[j].r = th[j].r /\ th'[j].kind = th[j].kind
         /\ \A j \in Jobs : th'[j].pc \in MountPCs => th[j].pc \in MountPCs
<1>0. Jobs \subseteq Threads /\ \A j \in Jobs : j # QuitThread
  BY Basics
<1>1. CASE Outside
  BY <1>1 DEF Outside, Active
<1>2. ASSUME NEW t \in Threads, ThreadEffect(t)
      PROVE  /\ entangled' = entangled
             /\ \A j \in Jobs :
                  Active(j)' => Active(j) /\ th'[j].r = th[j].r /\ th'[j].kind = th[j].kind
             /\ \A j \in Jobs : th'[j].pc \in MountPCs => th[j].pc \in MountPCs
  BY <1>0, <1>2, ThreadMoves DEF Still, Active
<1>3. CASE Looks \/ Deletes \/ Turns \/ Marks \/ Quits \/ Drains \/ Exits
  BY <1>3 DEF Looks, Deletes, Turns, Marks, Quits, Drains, Exits, Active
<1>4. ASSUME NEW j \in Jobs, Delivers(j)
      PROVE  /\ entangled' = entangled
             /\ \A i \in Jobs :
                  Active(i)' => Active(i) /\ th'[i].r = th[i].r /\ th'[i].kind = th[i].kind
             /\ \A i \in Jobs : th'[i].pc \in MountPCs => th[i].pc \in MountPCs
  BY <1>0, <1>4, MainFacts DEF Delivers, Active, MountPCs
<1>5. ASSUME NEW r \in Remotes, Unmounts(r)
      PROVE  /\ entangled' = entangled
             /\ \A i \in Jobs :
                  Active(i)' => Active(i) /\ th'[i].r = th[i].r /\ th'[i].kind = th[i].kind
             /\ \A i \in Jobs : th'[i].pc \in MountPCs => th[i].pc \in MountPCs
  BY <1>0, <1>5 DEF Unmounts, Active
<1> QED
  BY <1>1, <1>2, <1>3, <1>4, <1>5, StepCases DEF ViewEffect

LEMMA NextAlone ==
  ASSUME IInv, [Next]_vars
  PROVE  Alone'
<1>0. Alone /\ Jobs \subseteq Threads
  BY Basics DEF IInv
<1>1. CASE ~\E j \in Jobs : RunsChosen(j) \/ RunsRemoval(j)
  BY <1>0, <1>1, NoNewWork DEF Alone
<1>2. ASSUME NEW j \in Jobs, RunsChosen(j) \/ RunsRemoval(j)
      PROVE  Alone'
  <2>1. /\ \A u \in Jobs : u # j => th'[u] = th[u] /\ (Active(u)' <=> Active(u))
        /\ entangled \subseteq entangled'
        /\ \A i \in Jobs : Active(i) /\ th[i].r = th'[j].r => th'[j].r \in entangled'
    BY <1>0, <1>2, Assigning DEF Active
  <2> SUFFICES ASSUME NEW a \in Jobs, NEW b \in Jobs, Active(a)', Active(b)',
                      th'[a].r = th'[b].r, th'[a].r \notin entangled'
               PROVE  a = b
    BY DEF Alone
  <2> QED
    BY <1>0, <2>1 DEF Alone
<1> QED
  BY <1>1, <1>2

-----------------------------------------------------------------------------
(* Mounts, the processes they are, and the quit.                           *)

MountingOf(t) ==
  th[t].pc \in MountPCs /\ th[t].r \notin entangled =>
    /\ mounts[th[t].r] = None /\ th[t].pc # "purge"
    /\ main.at = "unmount_all" => th[t].r \notin main.left
    /\ Active(QuitThread) => th[QuitThread].r # th[t].r

LEMMA NextMounting ==
  ASSUME IInv, [Next]_vars
  PROVE  Mounting'
<1>0. /\ TypeOK /\ Shape /\ Alone /\ Busy /\ Unmounting
      /\ Jobs \subseteq Threads /\ QuitThread \in Threads /\ QuitThread \notin Jobs
      /\ \A t \in Jobs : MountingOf(t)
  BY Basics DEF IInv, Mounting, MountingOf
<1> SUFFICES ASSUME NEW t \in Jobs
             PROVE  MountingOf(t)'
  BY DEF Mounting, MountingOf
<1>1. CASE Outside
  BY <1>0, <1>1 DEF Outside, MountingOf, Active
<1>2. ASSUME NEW u \in Threads, ThreadEffect(u)
      PROVE  MountingOf(t)'
  <2>0. SUFFICES ASSUME th'[t].pc \in MountPCs, th'[t].r \notin entangled'
                 PROVE  MountingOf(t)'
    BY DEF MountingOf
  <2>1. /\ main' = main /\ entangled' = entangled
        /\ th'[t].r = th[t].r /\ th[t].pc \in MountPCs
        /\ th'[QuitThread].r = th[QuitThread].r
        /\ Active(QuitThread)' => Active(QuitThread)
    BY <1>0, <1>2, <2>0, ThreadMoves DEF Still, Active
  <2>2. /\ mounts[th[t].r] = None /\ th[t].pc # "purge" /\ th[t].r \in Remotes
        /\ main.at = "unmount_all" => th[t].r \notin main.left
        /\ Active(QuitThread) => th[QuitThread].r # th[t].r
    BY <1>0, <2>0, <2>1, Workers DEF MountingOf
  <2>3. ASSUME Registers(u), th[u].r = th[t].r, u \in Jobs
        PROVE  FALSE
    <3>1. Active(u) /\ Active(t)
      BY <1>0, <2>1, <2>3, Workers, ThreadMoves DEF Registers, MountPCs
    <3>2. u = t
      BY <1>0, <2>0, <2>1, <2>3, <3>1 DEF Alone
    <3> QED
      BY <2>0, <2>3, <3>2 DEF Registers, Moves, MountPCs
  <2>4. mounts'[th[t].r] = None
    BY <1>2, <2>2, <2>3, ThreadMounts
  <2>5. th'[t].pc # "purge"
    <3>1. CASE u # t
      BY <1>0, <1>2, <2>2, <3>1, ThreadMoves
    <3>2. CASE u = t
      <4>1. CASE Progress(t)
        BY <2>2, <4>1 DEF Progress
      <4>2. CASE Releases(t) \/ Launches(t) \/ Registers(t) \/ Grabs(t) \/ Drops(t)
        BY <4>2 DEF Releases, Launches, Registers, Grabs, Drops, Moves
      <4> QED
        BY <1>2, <3>2, <4>1, <4>2 DEF ThreadEffect
    <3> QED
      BY <3>1, <3>2
  <2> QED
    BY <2>1, <2>2, <2>4, <2>5 DEF MountingOf
<1>3. CASE ViewEffect
  <2>1. CASE Looks \/ Turns \/ Marks
    BY <1>0, <2>1 DEF Looks, Turns, Marks, MountingOf, Active
  <2>2. CASE Deletes
    <3>1. th[t].pc # "idle" => th[t].r \in Remotes
      BY <1>0, Workers
    <3> QED
      BY <1>0, <2>2, <3>1 DEF Deletes, MountingOf, Active, MountPCs
  <2>3. CASE Quits
    <3>1. th[t].pc \in MountPCs => th[t].r \in Remotes
      BY <1>0, Workers DEF MountPCs
    <3> QED
      BY <1>0, <2>3, <3>1 DEF Quits, MountingOf, Active
  <2>4. CASE Drains \/ Exits
    BY <1>0, <2>4 DEF Drains, Exits, MountingOf, Active
  <2>5. ASSUME NEW j \in Jobs, RunsChosen(j)
        PROVE  MountingOf(t)'
    <3>1. CASE t # j
      <4>1. th'[t] = th[t] /\ th'[QuitThread] = th[QuitThread]
            /\ mounts' = mounts /\ main'.at # "unmount_all" /\ entangled \subseteq entangled'
        BY <1>0, <2>5, <3>1, Assigning DEF RunsChosen
      <4> QED
        BY <1>0, <4>1 DEF MountingOf, Active
    <3>2. CASE t = j
      <4>1. /\ th'[j].kind = main.then /\ th'[j].r = main.r
            /\ th'[j].pc = IF main.then = "mount" THEN "check" ELSE "get"
            /\ main.then \in Menial /\ main.at = "refresh"
            /\ mounts' = mounts /\ main'.at = "loop"
            /\ th'[QuitThread] = th[QuitThread]
        BY <1>0, <2>5 DEF RunsChosen, Assigned
      <4>2. main.then = "mount" => mounts[main.r] = None
        BY <1>0, <4>1 DEF Busy
      <4>3. ~Active(QuitThread)
        BY <1>0, <4>1 DEF Unmounting
      <4> QED
        BY <3>2, <4>1, <4>2, <4>3 DEF MountingOf, MountPCs, Active
    <3> QED
      BY <3>1, <3>2
  <2>6. ASSUME NEW j \in Jobs, RunsRemoval(j)
        PROVE  MountingOf(t)'
    <3>1. CASE t # j
      <4>1. th'[t] = th[t] /\ th'[QuitThread] = th[QuitThread]
            /\ mounts' = mounts /\ main' = main /\ entangled \subseteq entangled'
        BY <1>0, <2>6, <3>1, Assigning DEF RunsRemoval
      <4> QED
        BY <1>0, <4>1 DEF MountingOf, Active
    <3>2. CASE t = j
      BY <2>6, <3>2 DEF RunsRemoval, Assigned, MountingOf, MountPCs
    <3> QED
      BY <3>1, <3>2
  <2>7. ASSUME NEW j \in Jobs, Delivers(j)
        PROVE  MountingOf(t)'
    <3>1. CASE t # j
      BY <1>0, <2>7, <3>1 DEF Delivers, MountingOf, Active
    <3>2. CASE t = j
      BY <2>7, <3>2, MainFacts DEF Delivers, MountingOf, MountPCs
    <3> QED
      BY <3>1, <3>2
  <2>8. ASSUME NEW r \in Remotes, Unmounts(r)
        PROVE  MountingOf(t)'
    BY <1>0, <2>8 DEF Unmounts, MountingOf, Active
  <2> QED
    BY <1>3, <2>1, <2>2, <2>3, <2>4, <2>5, <2>6, <2>7, <2>8 DEF ViewEffect
<1> QED
  BY <1>1, <1>2, <1>3, StepCases

LEMMA NextAgree ==
  ASSUME IInv, [Next]_vars
  PROVE  Agree'
<1>0. /\ TypeOK /\ Shape /\ Alone /\ Mounting /\ Agree
      /\ Jobs \subseteq Threads /\ \A u \in Threads : u \in Jobs \/ u = QuitThread
      /\ None \notin Procs
      /\ \A u \in Threads : th[u].p # None =>
           Active(u) /\ th[u].p \in Procs /\ th[u].r \in Remotes
  BY Basics, Workers DEF IInv
<1>1. CASE Outside
  BY <1>0, <1>1 DEF Outside, Agree
<1>2. CASE ViewEffect
  <2>1. /\ \A u \in Threads : th'[u].p # None => th'[u] = th[u]
        /\ \A r \in Remotes : mounts'[r] = mounts[r] \/ mounts'[r] = None
    BY <1>0, <1>2, ViewThreads
  <2>2. entangled \subseteq entangled'
    <3>1. ASSUME NEW j \in Jobs, RunsChosen(j) \/ RunsRemoval(j)
          PROVE  entangled \subseteq entangled'
      BY <3>1, Assigning
    <3>2. CASE \E r \in Remotes : Unmounts(r)
      BY <3>2 DEF Unmounts
    <3>3. CASE \E j \in Jobs : Delivers(j)
      BY <3>3 DEF Delivers
    <3>4. CASE Looks \/ Deletes \/ Turns \/ Marks \/ Quits \/ Drains \/ Exits
      BY <3>4 DEF Looks, Deletes, Turns, Marks, Quits, Drains, Exits
    <3> QED
      BY <1>2, <3>1, <3>2, <3>3, <3>4 DEF ViewEffect
  <2> QED
    BY <1>0, <2>1, <2>2 DEF Agree
<1>3. ASSUME NEW t \in Threads, ThreadEffect(t)
      PROVE  Agree'
  <2>0. /\ \A u \in Threads : u # t => th'[u] = th[u]
        /\ th'[t].r = th[t].r /\ entangled' = entangled /\ th[t].r \in Remotes
    BY <1>0, <1>3, Workers, ThreadMoves DEF Still, Active
  <2>1. CASE Progress(t) \/ Releases(t)
    <3>1. (th'[t].p = th[t].p \/ th'[t].p = None) /\ mounts' = mounts
      BY <2>1 DEF Progress, Releases, Moves
    <3> QED
      BY <1>0, <2>0, <3>1 DEF Agree
  <2>2. CASE Launches(t)
    <3>1. t \in Jobs /\ th[t].pc \in MountPCs /\ Active(t) /\ mounts' = mounts
      BY <1>0, <2>2, Workers DEF Launches, MountPCs
    <3>2. ASSUME NEW u \in Threads, u # t, th[u].p # None, th[u].r = th[t].r,
                 th[t].r \notin entangled
          PROVE  FALSE
      <4>1. Active(u)
        BY <1>0, <3>2
      <4>2. u \in Jobs
        BY <1>0, <3>1, <3>2, <4>1 DEF Mounting
      <4> QED
        BY <1>0, <3>1, <3>2, <4>1, <4>2 DEF Alone
    <3>3. th[t].r \notin entangled => mounts[th[t].r] = None
      BY <1>0, <3>1 DEF Mounting
    <3> QED
      BY <1>0, <2>0, <3>1, <3>2, <3>3 DEF Agree
  <2>3. CASE Registers(t)
    <3>1. th'[t].p = None /\ th[t].p # None
          /\ \A r \in Remotes : mounts'[r] = IF r = th[t].r THEN th[t].p ELSE mounts[r]
      BY <1>0, <2>3 DEF Registers, Moves, Shape, HoldPCs
    <3> QED
      BY <1>0, <2>0, <3>1 DEF Agree
  <2>4. CASE Grabs(t)
    <3>1. th'[t].p = mounts[th[t].r] /\ mounts[th[t].r] # None /\ mounts' = mounts
      BY <2>4 DEF Grabs, Moves
    <3> QED
      BY <1>0, <2>0, <3>1 DEF Agree
  <2>5. CASE Drops(t)
    <3>1. th'[t].p = th[t].p
          /\ \A r \in Remotes : mounts'[r] = IF r = th[t].r THEN None ELSE mounts[r]
      BY <2>5 DEF Drops, Moves
    <3> QED
      BY <1>0, <2>0, <3>1 DEF Agree
  <2> QED
    BY <1>3, <2>1, <2>2, <2>3, <2>4, <2>5 DEF ThreadEffect
<1> QED
  BY <1>1, <1>2, <1>3, StepCases

LEMMA NextPurging ==
  ASSUME IInv, [Next]_vars
  PROVE  Purging'
<1>0. /\ TypeOK /\ Shape /\ Mounting /\ Purging
      /\ Jobs \subseteq Threads /\ None \notin Procs
  BY Basics DEF IInv
<1>1. CASE Outside
  BY <1>0, <1>1 DEF Outside, Purging, NoStart, Live, TypeOK
<1>2. ASSUME NEW t \in Threads, ThreadEffect(t)
      PROVE  Purging'
  <2>1. /\ main' = main /\ entangled' = entangled
        /\ \A u \in Jobs : th'[u].r = th[u].r
        /\ \A u \in Jobs : th'[u].pc \in MountPCs => th[u].pc \in MountPCs
    BY <1>0, <1>2, ThreadMoves DEF Still
  <2> SUFFICES ASSUME main.at = "purge", main.looked \notin entangled,
                      mounts'[main.looked] # None
               PROVE  ~Live(mounts[main.looked])'
    BY <1>0, <2>1 DEF Purging
  <2>2. /\ main.looked \in Remotes
        /\ mounts[main.looked] # None => ~Live(mounts[main.looked])
        /\ \A u \in Jobs : th[u].pc \in MountPCs => th[u].r # main.looked
    BY <1>0 DEF Purging
  <2>3. mounts'[main.looked] = mounts[main.looked]
    <3>1. Registers(t) => th[t].pc \in MountPCs
      BY DEF Registers, MountPCs
    <3> QED
      BY <1>2, <2>2, <3>1, ThreadMounts
  <2>4. mounts[main.looked] \in Procs /\ ~Live(mounts[main.looked])
    BY <1>0, <2>2, <2>3 DEF TypeOK
  <2>5. CASE Launches(t)
    <3>1. PICK p \in Procs : Unused(p) /\ \A q \in Procs : q # p => proc'[q] = proc[q]
      BY <2>5 DEF Launches
    <3>2. mounts[main.looked] # p
      BY <2>2, <3>1 DEF Unused
    <3> QED
      BY <2>1, <2>3, <2>4, <3>1, <3>2 DEF Live
  <2>6. CASE NoStart
    BY <2>1, <2>3, <2>4, <2>6 DEF NoStart, Live
  <2> QED
    BY <1>2, <2>5, <2>6 DEF ThreadEffect, Progress, Releases, Registers, Grabs, Drops
<1>3. CASE ViewEffect /\ UNCHANGED <<proc, late>>
  <2>1. CASE Looks
    <3>1. \A u \in Jobs : th[u].pc \in MountPCs /\ th[u].r \notin entangled
            => th[u].r # main'.looked
      BY <1>0, <2>1 DEF Looks, Mounting
    <3> QED
      BY <1>3, <2>1, <3>1 DEF Looks, Purging, Live
  <2>2. CASE Deletes \/ Turns \/ Marks \/ Quits \/ Drains \/ Exits
    BY <2>2 DEF Deletes, Turns, Marks, Quits, Drains, Exits, Purging
  <2>3. CASE \E j \in Jobs : RunsChosen(j) \/ RunsRemoval(j) \/ Delivers(j)
    BY <2>3, MainFacts DEF RunsChosen, RunsRemoval, Delivers, Purging
  <2>4. CASE \E r \in Remotes : Unmounts(r)
    BY <2>4 DEF Unmounts, Purging
  <2> QED
    BY <1>3, <2>1, <2>2, <2>3, <2>4 DEF ViewEffect
<1> QED
  BY <1>1, <1>2, <1>3, StepCases

AtQuit(r) ==
  mounts[r] # None =>
    /\ main.at \notin {"wait_for_pool", "exited"}
    /\ main.at = "unmount_all" => Covered(r)

LEMMA NextUnmounting ==
  ASSUME IInv, [Next]_vars
  PROVE  Unmounting'
<1>0. /\ TypeOK /\ Shape /\ Unmounting
      /\ Jobs \subseteq Threads /\ QuitThread \in Threads /\ QuitThread \notin Jobs
      /\ \A u \in Threads : u \in Jobs \/ u = QuitThread
      /\ Active(QuitThread) => main.at = "unmount_all"
      /\ \A r \in Remotes \ (late \cup entangled) : AtQuit(r)
      /\ main.at = "exited" => \A t \in Threads : ~Active(t)
  BY Basics DEF IInv, Unmounting, AtQuit
<1>s. ASSUME /\ Active(QuitThread)' => main'.at = "unmount_all"
             /\ \A r \in Remotes \ (late' \cup entangled') : AtQuit(r)'
             /\ main'.at = "exited" => \A t \in Threads : ~Active(t)'
      PROVE  Unmounting'
  BY <1>s DEF Unmounting, AtQuit
<1>1. CASE Outside
  BY <1>0, <1>1 DEF Outside, Unmounting, Covered, Active
<1>2. ASSUME NEW t \in Threads, ThreadEffect(t)
      PROVE  Unmounting'
  <2>1. /\ main' = main /\ entangled' = entangled /\ Active(t)
        /\ \A u \in Threads : u # t => th'[u] = th[u]
        /\ th'[t].r = th[t].r
        /\ \A u \in Threads : Active(u)' => Active(u)
    BY <1>2, ThreadMoves DEF Still, Active
  <2>2. main.at # "exited"
    BY <1>0, <2>1
  <2>3. late \subseteq late'
    BY <1>2 DEF ThreadEffect, Progress, Releases, Launches, Registers, Grabs, Drops
  <2>4. ASSUME NEW r \in Remotes \ (late' \cup entangled'), mounts'[r] # None
        PROVE  AtQuit(r)'
    <3>1. CASE Registers(t) /\ r = th[t].r
      <4>1. ~Quitting
        BY <2>4, <3>1 DEF Registers
      <4> QED
        BY <2>1, <4>1 DEF Quitting, AtQuit
    <3>2. CASE ~(Registers(t) /\ r = th[t].r)
      <4>1. mounts'[r] = mounts[r]
        BY <1>2, <2>4, <3>2, ThreadMounts
      <4>2. /\ main.at \notin {"wait_for_pool", "exited"}
            /\ main.at = "unmount_all" => Covered(r)
        BY <1>0, <2>1, <2>3, <2>4, <4>1 DEF AtQuit
      <4>3. ASSUME th[QuitThread].pc \in {"get", "drain", "pop"}, th[QuitThread].r = r
            PROVE  th'[QuitThread].pc \in {"get", "drain", "pop"} /\ th'[QuitThread].r = r
        <5>1. CASE t # QuitThread
          BY <1>0, <2>1, <4>3, <5>1
        <5>2. CASE t = QuitThread
          <6>1. CASE Progress(t)
            BY <2>1, <2>4, <4>1, <4>3, <5>2, <6>1 DEF Progress
          <6>2. CASE Grabs(t)
            BY <2>1, <4>3, <5>2, <6>2 DEF Grabs, Moves
          <6>3. CASE Drops(t)
            BY <2>1, <2>4, <4>3, <5>2, <6>3 DEF Drops
          <6>4. CASE Releases(t) \/ Launches(t) \/ Registers(t)
            BY <4>3, <5>2, <6>4 DEF Releases, Launches, Registers
          <6> QED
            BY <1>2, <6>1, <6>2, <6>3, <6>4 DEF ThreadEffect
        <5> QED
          BY <5>1, <5>2
      <4> QED
        BY <2>1, <4>2, <4>3 DEF AtQuit, Covered, Active
    <3> QED
      BY <3>1, <3>2
  <2>5. \A r \in Remotes \ (late' \cup entangled') : AtQuit(r)'
    BY <2>4 DEF AtQuit
  <2> QED
    BY <1>0, <1>s, <2>1, <2>2, <2>5
<1>3. CASE ViewEffect /\ UNCHANGED <<proc, late>>
  <2>1. CASE Looks \/ Turns \/ Marks \/ Deletes
    <3>1. /\ main'.at \notin {"unmount_all", "wait_for_pool", "exited"}
          /\ main.at # "unmount_all" /\ th' = th
      BY <2>1 DEF Looks, Turns, Marks, Deletes
    <3> QED
      BY <1>0, <1>s, <3>1 DEF AtQuit, Active
  <2>2. CASE Quits
    <3>1. \A r \in Remotes : AtQuit(r)'
      BY <2>2 DEF Quits, AtQuit, Covered
    <3> QED
      BY <1>s, <2>2, <3>1 DEF Quits
  <2>3. CASE Drains
    <3>1. /\ main'.at = "wait_for_pool" /\ ~Active(QuitThread) /\ th' = th /\ mounts' = mounts
          /\ main.at = "unmount_all" /\ main.left = {} /\ entangled' = entangled
      BY <2>3 DEF Drains
    <3>2. \A r \in Remotes \ (late' \cup entangled') : AtQuit(r)'
      BY <1>0, <1>3, <3>1 DEF AtQuit, Covered
    <3> QED
      BY <1>s, <3>1, <3>2 DEF Active
  <2>4. CASE Exits
    <3>1. /\ main'.at = "exited" /\ th' = th /\ mounts' = mounts
          /\ main.at = "wait_for_pool" /\ entangled' = entangled /\ \A j \in Jobs : ~Active(j)
      BY <2>4 DEF Exits
    <3>2. \A r \in Remotes \ (late' \cup entangled') : AtQuit(r)'
      BY <1>0, <1>3, <3>1 DEF AtQuit
    <3>3. \A u \in Threads : ~Active(u)'
      BY <1>0, <3>1 DEF Active
    <3> QED
      BY <1>0, <1>s, <3>1, <3>2, <3>3
  <2>5. ASSUME NEW j \in Jobs, RunsChosen(j) \/ RunsRemoval(j) \/ Delivers(j)
        PROVE  Unmounting'
    <3>1. /\ main'.at \notin {"unmount_all", "wait_for_pool", "exited"}
          /\ main.at # "unmount_all" /\ th'[QuitThread] = th[QuitThread]
      BY <1>0, <2>5, MainFacts DEF RunsChosen, RunsRemoval, Delivers, Assigned
    <3> QED
      BY <1>0, <1>s, <3>1 DEF AtQuit, Active
  <2>6. ASSUME NEW q \in Remotes, Unmounts(q)
        PROVE  Unmounting'
    <3>1. /\ main'.at = "unmount_all" /\ main.at = "unmount_all" /\ main'.left = main.left \ {q}
          /\ th'[QuitThread].r = q /\ th'[QuitThread].pc = "get" /\ ~Active(QuitThread)
          /\ mounts' = mounts /\ entangled' = entangled
      BY <2>6 DEF Unmounts
    <3>2. \A r \in Remotes \ (late' \cup entangled') : AtQuit(r)'
      BY <1>0, <1>3, <3>1 DEF AtQuit, Covered, Active
    <3> QED
      BY <1>s, <3>1, <3>2
  <2> QED
    BY <1>3, <2>1, <2>2, <2>3, <2>4, <2>5, <2>6 DEF ViewEffect
<1> QED
  BY <1>1, <1>2, <1>3, StepCases

Known(p) == mounts[proc[p].r] = p \/ Held(p) \/ proc[p].r \in entangled

LEMMA NextNoOrphan ==
  ASSUME IInv, [Next]_vars
  PROVE  NoOrphan'
<1>0. /\ TypeOK /\ Shape /\ Names /\ Mounting /\ Agree /\ Purging
      /\ Jobs \subseteq Threads /\ None \notin Procs
      /\ \A p \in Procs : Live(p) => Known(p) /\ proc[p].r \in Remotes
      /\ \A t \in Threads : th[t].p # None <=> th[t].pc \in HoldPCs
  BY Basics DEF IInv, NoOrphan, Known, Names, Shape
<1>h. \A p : Held(p) <=> \E t \in Threads : th[t].p = p /\ th[t].pc \in HoldPCs
  BY DEF Held, HoldPCs
<1>H. \A p : Held(p)' <=> \E t \in Threads : th'[t].p = p /\ th'[t].pc \in HoldPCs
  BY DEF Held, HoldPCs
<1> SUFFICES ASSUME NEW p \in Procs, Live(p)'
             PROVE  Known(p)'
  BY DEF NoOrphan, Known
<1>1. CASE Outside
  <2>1. Live(p) /\ proc'[p].r = proc[p].r
    BY <1>1 DEF Outside, NoStart, Live
  <2> QED
    BY <1>0, <1>1, <2>1 DEF Outside, Known, Held
<1>2. ASSUME NEW t \in Threads, ThreadEffect(t)
      PROVE  Known(p)'
  <2>0. /\ \A u \in Threads : u # t => th'[u] = th[u]
        /\ entangled' = entangled
    BY <1>2, ThreadMoves DEF Still
  <2>1. NoStart => Live(p) /\ proc'[p].r = proc[p].r
    BY DEF NoStart, Live
  <2>2. CASE Progress(t)
    <3>1. /\ th'[t].p = th[t].p /\ mounts' = mounts
          /\ th'[t].pc \in HoldPCs <=> th[t].pc \in HoldPCs
      BY <2>2 DEF Progress, Moves
    <3>2. Held(p) => Held(p)'
      BY <1>h, <1>H, <2>0, <3>1
    <3> QED
      BY <1>0, <2>0, <2>1, <2>2, <3>1, <3>2 DEF Progress, Known
  <2>3. CASE Releases(t)
    <3>1. th[t].p # p /\ mounts' = mounts
      BY <2>3 DEF Releases, Live
    <3>2. Held(p) => Held(p)'
      BY <1>h, <1>H, <2>0, <3>1
    <3> QED
      BY <1>0, <2>0, <2>1, <2>3, <3>1, <3>2 DEF Releases, Known
  <2>4. CASE Launches(t)
    <3>1. PICK q \in Procs :
            /\ th'[t].p = q /\ th'[t].pc = "wait" /\ mounts' = mounts /\ th[t].pc = "launch"
            /\ \A x \in Procs : x # q => proc'[x] = proc[x]
      BY <2>4 DEF Launches, Moves
    <3>2. CASE p = q
      <4>1. Held(p)'
        BY <1>H, <3>1, <3>2 DEF HoldPCs
      <4> QED
        BY <4>1 DEF Known
    <3>3. CASE p # q
      <4>1. Live(p) /\ proc'[p].r = proc[p].r
        BY <3>1, <3>3 DEF Live
      <4>2. Held(p) => Held(p)'
        BY <1>h, <1>H, <2>0, <3>1 DEF HoldPCs
      <4> QED
        BY <1>0, <2>0, <3>1, <4>1, <4>2 DEF Known
    <3> QED
      BY <3>2, <3>3
  <2>5. CASE Registers(t)
    <3>1. /\ Live(p) /\ proc'[p].r = proc[p].r /\ proc[p].r \in Remotes
          /\ \A r \in Remotes : mounts'[r] = IF r = th[t].r THEN th[t].p ELSE mounts[r]
          /\ th[t].pc = "wait"
      BY <1>0, <2>1, <2>5 DEF Registers
    <3>2. CASE p = th[t].p
      <4>1. proc[p].r = th[t].r
        BY <1>0, <3>1, <3>2 DEF Names
      <4> QED
        BY <3>1, <3>2, <4>1 DEF Known
    <3>3. CASE p # th[t].p
      <4>1. Held(p) => Held(p)'
        BY <1>h, <1>H, <2>0, <3>3
      <4>2. ASSUME mounts[proc[p].r] = p, proc[p].r = th[t].r, proc[p].r \notin entangled
            PROVE  FALSE
        <5>1. t \in Jobs /\ th[t].pc \in MountPCs
          BY <1>0, <3>1, Workers DEF MountPCs
        <5> QED
          BY <1>0, <4>2, <5>1 DEF Mounting
      <4> QED
        BY <1>0, <2>0, <3>1, <4>1, <4>2 DEF Known
    <3> QED
      BY <3>2, <3>3
  <2>6. CASE Grabs(t)
    <3>1. th[t].pc = "get" /\ mounts' = mounts
      BY <2>6 DEF Grabs
    <3>2. Held(p) => Held(p)'
      BY <1>h, <1>H, <2>0, <3>1 DEF HoldPCs
    <3> QED
      BY <1>0, <2>0, <2>1, <2>6, <3>1, <3>2 DEF Grabs, Known
  <2>7. CASE Drops(t)
    <3>1. /\ Live(p) /\ proc'[p].r = proc[p].r /\ proc[p].r \in Remotes
          /\ \A r \in Remotes : mounts'[r] = IF r = th[t].r THEN None ELSE mounts[r]
          /\ th'[t].p = th[t].p
          /\ \/ th[t].pc = "pop" /\ th'[t].pc = "stop"
             \/ th[t].pc = "purge" /\ th'[t].pc \in {"failed", "launch"}
      BY <1>0, <2>1, <2>7 DEF Drops, Moves
    <3>2. Held(p) => Held(p)'
      BY <1>h, <1>H, <2>0, <3>1 DEF HoldPCs
    <3>3. ASSUME mounts[proc[p].r] = p, proc[p].r = th[t].r, proc[p].r \notin entangled
          PROVE  Held(p)'
      <4>1. th[t].pc # "purge"
        <5>1. th[t].pc = "purge" => t \in Jobs /\ th[t].pc \in MountPCs
          BY <1>0, Workers DEF MountPCs
        <5> QED
          BY <1>0, <3>3, <5>1 DEF Mounting
      <4>2. th[t].p # None /\ th[t].pc = "pop"
        BY <1>0, <3>1, <4>1 DEF HoldPCs
      <4>3. th[t].p = p
        BY <1>0, <3>3, <4>2 DEF Agree
      <4> QED
        BY <1>H, <3>1, <4>2, <4>3 DEF HoldPCs
    <3> QED
      BY <1>0, <2>0, <3>1, <3>2, <3>3 DEF Known
  <2> QED
    BY <1>2, <2>2, <2>3, <2>4, <2>5, <2>6, <2>7 DEF ThreadEffect
<1>3. CASE ViewEffect /\ UNCHANGED <<proc, late>>
  <2>1. Live(p) /\ proc'[p].r = proc[p].r /\ proc[p].r \in Remotes /\ Known(p)
    BY <1>0, <1>3 DEF Live
  <2>2. Held(p) => Held(p)'
    <3>1. ASSUME NEW u \in Threads, th[u].p = p, th[u].pc \in HoldPCs
          PROVE  th'[u] = th[u]
      BY <1>0, <1>3, <3>1, ViewThreads
    <3> QED
      BY <1>h, <1>H, <3>1
  <2>3. entangled \subseteq entangled'
    <3>1. ASSUME NEW j \in Jobs, RunsChosen(j) \/ RunsRemoval(j)
          PROVE  entangled \subseteq entangled'
      BY <3>1, Assigning
    <3>2. CASE ~\E j \in Jobs : RunsChosen(j) \/ RunsRemoval(j)
      BY <3>2, NoNewWork
    <3> QED
      BY <3>1, <3>2
  <2>4. CASE Deletes
    <3>1. mounts[main.looked] = p /\ main.looked \in Remotes => main.looked \in entangled
      BY <1>0, <2>1, <2>4 DEF Deletes, Purging
    <3>2. mounts'[proc[p].r] = IF proc[p].r = main.looked THEN None ELSE mounts[proc[p].r]
      BY <2>1, <2>4 DEF Deletes
    <3> QED
      BY <2>1, <2>2, <2>3, <3>1, <3>2 DEF Known
  <2>5. CASE ~Deletes
    <3>1. mounts' = mounts
      BY <1>3, <2>5 DEF ViewEffect, Looks, Turns, Marks, Quits, Drains, Exits, RunsChosen,
                        RunsRemoval, Delivers, Unmounts
    <3> QED
      BY <2>1, <2>2, <2>3, <3>1 DEF Known
  <2> QED
    BY <2>4, <2>5
<1> QED
  BY <1>1, <1>2, <1>3, StepCases

-----------------------------------------------------------------------------
(* The invariant, and what follows from it.                                *)

LEMMA InitInv == Init => IInv
<1> SUFFICES ASSUME Init PROVE IInv
  OBVIOUS
<1>0. /\ mounts = [r \in Remotes |-> None] /\ proc = [p \in Procs |-> NoProcess]
      /\ upload = [p \in Procs |-> NoUploads]
      /\ deaf = {} /\ busy = {} /\ configured = Remotes
      /\ th = [t \in Threads |-> Idle] /\ main = Loop /\ menu = None
      /\ entangled = {} /\ late = {}
  BY DEF Init
<1>1. /\ \A t \in Threads : th[t].kind = "none" /\ th[t].pc = "idle" /\ th[t].p = None
      /\ \A r \in Remotes : mounts[r] = None
      /\ \A p \in Procs : ~Live(p)
      /\ main.at = "loop" /\ main.then = "none"
      /\ Jobs \subseteq Threads /\ QuitThread \in Threads
  BY <1>0, MainFacts, Basics DEF NoProcess, Live
<1>2. TypeOK
  <2>1. Idle \in ThreadType
    BY StartType
  <2>2. Loop \in MainType
    BY DEF Loop, MainType
  <2>3. RcloneType
    BY <1>0 DEF RcloneType, NoProcess, NoUploads
  <2> QED
    BY <1>0, <2>1, <2>2, <2>3 DEF TypeOK, ThreadType, MainType, RcloneType
<1>3. Shape
  BY <1>1 DEF Shape, MountPCs, StopPCs, HoldPCs
<1>4. Names /\ Alone /\ Mounting /\ Agree /\ Purging /\ NoOrphan
  BY <1>1 DEF Names, Alone, Mounting, MountPCs, Agree, Purging, NoOrphan, Active
<1>5. Busy
  BY <1>0, <1>1 DEF Busy, Menial
<1>6. Unmounting
  BY <1>1 DEF Unmounting, Active
<1> QED
  BY <1>2, <1>3, <1>4, <1>5, <1>6 DEF IInv

LEMMA NextInv == IInv /\ [Next]_vars => IInv'
<1> SUFFICES ASSUME IInv, [Next]_vars PROVE IInv'
  OBVIOUS
<1>1. TypeOK'
  BY NextType DEF IInv
<1> QED
  BY <1>1, NextShape, NextNames, NextBusy, NextAlone, NextMounting, NextAgree, NextPurging,
     NextUnmounting, NextNoOrphan DEF IInv

LEMMA InvHolds == Spec => []IInv
  BY InitInv, NextInv, PTL DEF Spec

(* Every variable of the table, the processes, the threads and the view    *)
(* keeps its type, for any remotes, processes and pool threads.            *)
THEOREM TypeCorrect == Spec => []TypeOK
<1>1. IInv => TypeOK
  BY DEF IInv
<1> QED
  BY InvHolds, <1>1, PTL

(* Every rclone process that lives is in the table or in the hands of a    *)
(* thread, and a remote has one at most; remotes removed in the midst of   *)
(* another operation excepted.                                             *)
THEOREM EveryProcessAccounted == Spec => []ProcessesAccounted
<1>1. ASSUME IInv
      PROVE  OneProcessPerRemote
  <2>0. NoOrphan /\ Names /\ Agree /\ Shape
    BY <1>1 DEF IInv
  <2> SUFFICES ASSUME NEW p \in Procs, NEW q \in Procs, Live(p), Live(q),
                      proc[p].r = proc[q].r, proc[p].r \notin entangled
               PROVE  p = q
    BY DEF OneProcessPerRemote
  <2>1. /\ mounts[proc[p].r] = p \/ Held(p)
        /\ mounts[proc[p].r] = q \/ Held(q)
    BY <2>0 DEF NoOrphan
  <2>2. p # None /\ q # None
    BY Basics
  <2>3. ASSUME NEW x \in {p, q}, Held(x)
        PROVE  \E t \in Threads : th[t].p = x /\ th[t].r = proc[p].r
    BY <2>0, <2>2, <2>3 DEF Held, Names
  <2>4. CASE mounts[proc[p].r] = p /\ mounts[proc[p].r] = q
    BY <2>4
  <2>5. CASE Held(p)
    <3>1. PICK t \in Threads : th[t].p = p /\ th[t].r = proc[p].r
      BY <2>3, <2>5
    <3>2. CASE mounts[proc[p].r] = q
      BY <2>0, <2>2, <3>1, <3>2 DEF Agree
    <3>3. CASE Held(q)
      <4>1. PICK u \in Threads : th[u].p = q /\ th[u].r = proc[p].r
        BY <2>3, <3>3
      <4> QED
        BY <2>0, <2>2, <3>1, <4>1 DEF Agree
    <3> QED
      BY <2>1, <3>2, <3>3
  <2>6. CASE Held(q) /\ mounts[proc[p].r] = p
    <3>1. PICK t \in Threads : th[t].p = q /\ th[t].r = proc[p].r
      BY <2>3, <2>6
    <3> QED
      BY <2>0, <2>2, <2>6, <3>1 DEF Agree
  <2> QED
    BY <2>1, <2>4, <2>5, <2>6
<1>2. IInv => ProcessesAccounted
  BY <1>1 DEF IInv, ProcessesAccounted
<1> QED
  BY InvHolds, <1>2, PTL

(* When the app has ended, the rclone processes left were entered in the   *)
(* table after the quit had begun; the same remotes excepted.              *)
THEOREM OnlyLateMounts == Spec => []OnlyLateMountsSurvive
<1>1. ASSUME IInv
      PROVE  OnlyLateMountsSurvive
  <2>0. NoOrphan /\ Names /\ Unmounting /\ Shape
    BY <1>1 DEF IInv
  <2> SUFFICES ASSUME main.at = "exited", NEW p \in Procs, Live(p),
                      proc[p].r \notin late \cup entangled
               PROVE  FALSE
    BY DEF OnlyLateMountsSurvive
  <2>1. ~Held(p)
    BY <2>0 DEF Unmounting, Held, Active
  <2>2. mounts[proc[p].r] = p /\ proc[p].r \in Remotes
    BY <2>0, <2>1 DEF NoOrphan, Names
  <2> QED
    BY <2>0, <2>2, Basics DEF Unmounting
<1> QED
  BY InvHolds, <1>1, PTL

-----------------------------------------------------------------------------
(* A thread that unmounts owes its uploads: what was waiting when it asked  *)
(* stays saved, and once they were drained none of it is waiting any more.  *)
Owing(t) ==
  th[t].pc \in {"drain", "pop", "stop"} /\ Live(th[t].p) =>
    /\ \A f \in th[t].owed : upload[th[t].p][f] # "unsaved"
    /\ th[t].pc # "drain" /\ ~th[t].timedOut /\ th[t].p \notin deaf =>
         th[t].owed \cap Pending(th[t].p) = {}

UploadsOwed == \A t \in Threads : Owing(t)

(* What a process goes through while a thread refers to it: its uploads     *)
(* only go forward, and its API comes back only with its end.               *)
Forward(p) ==
  proc'[p].st # "gone" =>
    /\ Live(p) /\ (p \in deaf => p \in deaf')
    /\ \A f \in Files : upload[p][f] # "unsaved" =>
                          upload'[p][f] \in {upload[p][f], "stored"}

\* A thread that does not move keeps its debt.
LEMMA OwingKept ==
  ASSUME TypeOK, NEW t \in Threads, Owing(t), th'[t] = th[t],
         th[t].pc \in {"drain", "pop", "stop"} => Forward(th[t].p)
  PROVE  Owing(t)'
<1> SUFFICES ASSUME th[t].pc \in {"drain", "pop", "stop"}, proc'[th[t].p].st # "gone"
             PROVE  Owing(t)'
  BY DEF Owing, Live
<1> DEFINE p == th[t].p
<1>1. th[t].owed \subseteq Files
  BY DEF TypeOK
<1>2. /\ Live(p) /\ (p \in deaf => p \in deaf')
      /\ \A f \in Files : upload[p][f] # "unsaved" => upload'[p][f] \in {upload[p][f], "stored"}
  BY DEF Forward
<1>3. \A f \in th[t].owed : upload[p][f] # "unsaved"
  BY <1>2 DEF Owing
<1>4. \A f \in th[t].owed : upload'[p][f] \in {upload[p][f], "stored"}
  BY <1>1, <1>2, <1>3
<1>5. ASSUME th[t].pc # "drain", ~th[t].timedOut, p \notin deaf'
      PROVE  \A f \in th[t].owed : upload'[p][f] # "queued"
  <2>1. th[t].owed \cap Pending(p) = {}
    BY <1>2, <1>5 DEF Owing
  <2>2. \A f \in th[t].owed : upload[p][f] # "queued"
    BY <1>1, <2>1 DEF Pending
  <2> QED
    BY <1>4, <2>2
<1> QED
  BY <1>3, <1>4, <1>5 DEF Owing, Pending

\* End, which StopProcess may be, takes a process away and touches no other.
LEMMA StopForward ==
  ASSUME TypeOK, NEW p \in Procs, StopProcess(p)
  PROVE  \A q \in Procs : Forward(q)
<1>1. CASE Live(p)
  <2>1. /\ proc' = [proc EXCEPT ![p] = NoProcess]
        /\ upload' = [upload EXCEPT ![p] = NoUploads] /\ deaf' = deaf \ {p}
    BY <1>1 DEF StopProcess, End
  <2>2. proc'[p].st = "gone"
    BY <2>1 DEF TypeOK, NoProcess
  <2>3. ASSUME NEW q \in Procs, q # p
        PROVE  proc'[q] = proc[q] /\ upload'[q] = upload[q] /\ (q \in deaf => q \in deaf')
    BY <2>1, <2>3 DEF TypeOK
  <2> QED
    BY <2>2, <2>3 DEF Forward, Live
<1>2. CASE ~Live(p)
  BY <1>2 DEF StopProcess, rcloneVars, Forward, Live
<1> QED
  BY <1>1, <1>2

\* rclone and the user's programs take every process forward.
LEMMA RcloneForward ==
  ASSUME TypeOK, Rclone
  PROVE  \A q \in Procs : Forward(q)
<1>1. ASSUME NEW p \in Procs, Appear(p) PROVE \A q \in Procs : Forward(q)
  BY <1>1 DEF Appear, Forward, Live, TypeOK
<1>2. ASSUME NEW p \in Procs, Die(p) PROVE \A q \in Procs : Forward(q)
  BY <1>2, StopForward DEF Die, StopProcess
<1>3. ASSUME NEW p \in Procs, GoDeaf(p) PROVE \A q \in Procs : Forward(q)
  BY <1>3 DEF GoDeaf, Forward, Live
<1>4. ASSUME NEW p \in Procs, NEW f \in Files, Save(p, f) \/ Upload(p, f)
      PROVE  \A q \in Procs : Forward(q)
  <2>1. /\ upload[p][f] \in {"unsaved", "queued"} /\ UNCHANGED <<proc, deaf>>
        /\ \A q \in Procs, g \in Files :
             upload'[q][g] = IF q = p /\ g = f
                             THEN IF upload[p][f] = "unsaved" THEN "queued" ELSE "stored"
                             ELSE upload[q][g]
    BY <1>4 DEF Save, Upload, TypeOK
  <2> QED
    BY <2>1 DEF Forward, Live
<1> QED
  BY <1>1, <1>2, <1>3, <1>4 DEF Rclone

\* A step of one thread takes every process forward that another refers to.
LEMMA ThreadForward ==
  ASSUME TypeOK, Shape, NEW t \in Threads, ThreadStep(t)
  PROVE  /\ \A u \in Threads : u # t => th'[u] = th[u]
         /\ \A u \in Threads : th[u].p # None => Forward(th[u].p)
<1>0. \A u \in Threads : u # t => th'[u] = th[u]
  BY ThreadEffects, ThreadMoves
<1>1. \A u \in Threads : th[u].p # None => th[u].p \in Procs
  BY ThreadFacts
<1>2. CASE UNCHANGED rcloneVars
  <2>1. \A q \in Procs : Forward(q)
    BY <1>2 DEF rcloneVars, Forward, Live
  <2> QED
    BY <1>0, <1>1, <2>1
<1>3. CASE Launch(t)
  <2>1. PICK p \in Procs :
          Unused(p) /\ proc' = [proc EXCEPT ![p] = [st |-> "starting", r |-> th[t].r]]
    BY <1>3 DEF Launch
  <2>2. UNCHANGED <<upload, deaf>> /\ \A q \in Procs : q # p => proc'[q] = proc[q]
    BY <1>3, <2>1 DEF Launch, TypeOK
  <2>3. \A q \in Procs : q # p => Forward(q)
    BY <2>2 DEF Forward, Live
  <2> QED
    BY <1>0, <1>1, <2>1, <2>3 DEF Unused
<1>4. CASE (GiveUp(t) \/ Stop(t)) /\ StopProcess(th[t].p)
  <2>1. th[t].p \in Procs
    BY <1>1, <1>4 DEF GiveUp, Stop, At, Shape, HoldPCs
  <2>2. \A q \in Procs : Forward(q)
    BY <1>4, <2>1, StopForward
  <2> QED
    BY <1>0, <1>1, <2>2
<1> QED
  BY <1>2, <1>3, <1>4 DEF ThreadStep, Check, Purge, Refuse, SawExit, GiveUp, Get, Drained,
     DrainTimesOut, Pop, Stop, Register, Delete

\* Where a thread that unmounts goes, it takes its debt with it.
LEMMA MoverOwes ==
  ASSUME TypeOK, Shape, NEW t \in Threads, ThreadStep(t), Owing(t)
  PROVE  Owing(t)'
<1>1. CASE Get(t)
  <2>1. UNCHANGED rcloneVars
    BY <1>1 DEF Get
  <2>2. CASE mounts[th[t].r] = None
    <3>1. th'[t].pc \in {"delete", "done"}
      BY <1>1, <2>2 DEF Get, After, TypeOK
    <3> QED
      BY <3>1 DEF Owing
  <2>3. CASE mounts[th[t].r] # None
    <3>1. /\ th'[t].pc = "drain" /\ th'[t].p = mounts[th[t].r]
          /\ th'[t].owed = IF Live(th'[t].p) THEN Pending(th'[t].p) ELSE {}
      BY <1>1, <2>3 DEF Get, TypeOK
    <3> QED
      BY <2>1, <3>1 DEF Owing, Pending, rcloneVars, Live
  <2> QED
    BY <2>2, <2>3
<1>2. CASE Drained(t)
  <2>1. /\ UNCHANGED rcloneVars /\ th[t].pc = "drain"
        /\ ~Live(th[t].p) \/ Pending(th[t].p) = {} \/ th[t].p \in deaf
        /\ th'[t].p = th[t].p /\ th'[t].owed = th[t].owed
    BY <1>2 DEF Drained, At, Goto, TypeOK
  <2> QED
    BY <2>1 DEF Owing, Pending, rcloneVars, Live
<1>3. CASE DrainTimesOut(t)
  <2>1. /\ UNCHANGED rcloneVars /\ th[t].pc = "drain"
        /\ th'[t].p = th[t].p /\ th'[t].owed = th[t].owed /\ th'[t].timedOut
    BY <1>3 DEF DrainTimesOut, At, TypeOK
  <2> QED
    BY <2>1 DEF Owing, Pending, rcloneVars, Live
<1>4. CASE Pop(t)
  <2>1. /\ UNCHANGED rcloneVars /\ th[t].pc = "pop"
        /\ th'[t].p = th[t].p /\ th'[t].owed = th[t].owed /\ th'[t].timedOut = th[t].timedOut
    BY <1>4 DEF Pop, At, Goto, TypeOK
  <2> QED
    BY <2>1 DEF Owing, Pending, rcloneVars, Live
<1>5. ASSUME \/ Check(t) \/ Purge(t) \/ Refuse(t) \/ Launch(t) \/ SawExit(t)
             \/ GiveUp(t) \/ Register(t) \/ Stop(t) \/ Delete(t)
      PROVE  Owing(t)'
  <2>1. th'[t].pc \notin {"drain", "pop", "stop"}
    BY <1>5, LeaveMoves DEF Check, Purge, Refuse, Launch, SawExit, GiveUp, Register, Stop,
       Delete, Goto, After, Moves, TypeOK
  <2> QED
    BY <2>1 DEF Owing
<1> QED
  BY <1>1, <1>2, <1>3, <1>4, <1>5 DEF ThreadStep

\* What the view starts does not unmount yet.
LEMMA ViewOwes ==
  ASSUME TypeOK, Shape, Busy, Purging, Shape', View, NEW t \in Threads, Owing(t)
  PROVE  Owing(t)'
<1>1. UNCHANGED rcloneVars /\ Threads' = Threads
  BY DEF View, Threads, QuitThread
<1>2. th'[t] = th[t] \/ th'[t].p = None
  <2>1. ViewEffect
    BY ViewEffects DEF View, Handler, ViewAction
  <2> QED
    BY <2>1, ViewThreads
<1>3. CASE th'[t] = th[t]
  BY <1>1, <1>3, OwingKept DEF Forward, rcloneVars, Live
<1>4. CASE th'[t].p = None
  BY <1>1, <1>4 DEF Shape, HoldPCs, Owing
<1> QED
  BY <1>2, <1>3, <1>4

\* Every step, stuttering included, keeps the debts.
LEMMA NextOwed == IInv /\ UploadsOwed /\ [Next]_vars => UploadsOwed'
<1> SUFFICES ASSUME IInv, UploadsOwed, [Next]_vars PROVE UploadsOwed'
  OBVIOUS
<1>0. TypeOK /\ Shape /\ Busy /\ Purging /\ Threads' = Threads
  BY DEF IInv, Threads
<1>1. CASE Exited \/ UNCHANGED vars \/ \E r \in Remotes : AddRemote(r)
  <2>1. UNCHANGED <<th, rcloneVars>>
    BY <1>1 DEF Exited, vars, AddRemote
  <2> QED
    BY <1>0, <2>1, OwingKept DEF UploadsOwed, Forward, rcloneVars, Live
<1>2. CASE Rclone
  <2>1. th' = th /\ \A q \in Procs : Forward(q)
    BY <1>0, <1>2, RcloneForward DEF Rclone
  <2>2. ASSUME NEW t \in Threads
        PROVE  th[t].pc \in {"drain", "pop", "stop"} => th[t].p \in Procs
    BY <1>0, ThreadFacts DEF Shape, HoldPCs
  <2> QED
    BY <1>0, <2>1, <2>2, OwingKept DEF UploadsOwed
<1>3. CASE View
  BY <1>0, <1>3, ViewOwes, NextShape DEF UploadsOwed
<1>4. ASSUME NEW t \in Threads, ThreadStep(t)
      PROVE  UploadsOwed'
  <2>1. ASSUME NEW u \in Threads, u # t
        PROVE  Owing(u)'
    <3>1. th'[u] = th[u] /\ (th[u].p # None => Forward(th[u].p))
      BY <1>0, <1>4, <2>1, ThreadForward
    <3>2. th[u].pc \in {"drain", "pop", "stop"} => th[u].p # None
      BY <1>0 DEF Shape, HoldPCs
    <3> QED
      BY <1>0, <3>1, <3>2, OwingKept DEF UploadsOwed
  <2> QED
    BY <1>0, <1>4, <2>1, MoverOwes DEF UploadsOwed
<1> QED
  BY <1>1, <1>2, <1>3, <1>4 DEF Next

(* unmount() stops rclone only when what was saved before it was called has *)
(* been uploaded, unless its deadline passed or rclone did not answer, for  *)
(* any remotes, files, processes and pool threads.                          *)
THEOREM UploadsBeforeStop == Spec => UploadsFinishFirst
<1>1. Init => UploadsOwed
  BY DEF Init, UploadsOwed, Owing, Idle
<1>2. UploadsOwed =>
        \A t \in Threads :
          th[t].pc = "stop" /\ th'[t].pc # "stop" /\ Live(th[t].p)
          /\ ~th[t].timedOut /\ th[t].p \notin deaf
          => th[t].owed \cap Pending(th[t].p) = {}
  BY DEF UploadsOwed, Owing
<1> QED
  BY <1>1, <1>2, InvHolds, NextOwed, PTL DEF Spec, UploadsFinishFirst
=============================================================================

-------------------------- MODULE VmConfiguration --------------------------
(***************************************************************************)
(* "Configure..." on a QEMU machine (ui/configure_vm_dialog.py and         *)
(* qemu_provisioning.py): its settings, disks, CD and network.  The dialog *)
(* is filled with what is read as it opens, and OK runs what differs as    *)
(* one series of virsh calls, of which any may fail, or time out after it  *)
(* has worked; the dialog is then there again, with what it was filled     *)
(* with, and nothing of the series is undone.  Esc closes it also while    *)
(* the calls run.                                                          *)
(*                                                                         *)
(* A machine that runs has two definitions, the stored one, of its next    *)
(* start, and the live one, which is what virsh tells of it (`dumpxml`     *)
(* without --inactive, `domblklist`, `domiflist`).  Settings are only      *)
(* stored; a new display or boot order is written into what virsh tells,   *)
(* and that is stored, over what had been stored before.                   *)
(***************************************************************************)
EXTENDS Naturals, Sequences, FiniteSets, Functions

\* Bounds of the model; the events are dialogs opened and changes of power.
CONSTANTS MaxSaves, MaxEdits, MaxEvents

\* Of the constants; an ASSUME of the module that instantiates this one.
BoundsAssumption ==
  {MaxSaves, MaxEdits, MaxEvents} \subseteq Nat

\* Memory is as vcpus.
Fields == {"vcpus", "display", "boot"}
Levels == {1, 2}
Networks == {"default", "bridge"}
Media == {"none", "iso"}
Pairs == {"vcpus", "disk", "cd", "nic"}   \* what takes two calls

VARIABLES
  vm,          \* the stored machine: settings, disks with their volumes, CD, networks
  live,        \* the machine virsh tells of: the one that runs, or the stored one
  volumes,     \* the volumes in the pool
  running, shownRunning,   \* whether it runs, and does in the tree
  dialog,      \* "closed", "open", "saving", or "accepted" until exec returns
  held,        \* what ConfigureVmDialog was filled with
  wish,        \* what was wanted of it last
  jobs,        \* series of calls that run
  failed,      \* history: a save of this dialog failed
  crossed,     \*   another's calls ran, or the machine stopped, since it opened
  staged,      \*   what was stored otherwise than virsh told, as it opened
  reverted,    \*   what a new display or boot order stored as it was live
  asked,       \*   targets asked to be removed, by their volumes
  broken,      \*   pairs of calls of which only the first worked,
  mistaken,    \*   volumes removed by a save that repeats one
               \*   that failed, or whose dialog was closed
  saves, edits, dialogs, powers

machineVars == <<vm, live, volumes, running, shownRunning>>
dialogVars == <<dialog, held, wish, failed, crossed, staged>>
histVars == <<asked, broken, mistaken, reverted>>
bounds == <<saves, edits, dialogs, powers>>
vars == <<machineVars, dialogVars, jobs, histVars, bounds>>

Targets == 1..MaxSaves + 1
Volumes == 1..MaxSaves + 3
\* Networks are by the address of their interface; each save makes a new one.
IsMachine(m) ==
  /\ {m.max, m.vcpus, m.display, m.boot} \subseteq Levels /\ m.cd \in Media
  /\ DOMAIN m.disks \subseteq Targets /\ Range(m.disks) \subseteq Volumes
  /\ DOMAIN m.nics \subseteq 0..MaxSaves /\ Range(m.nics) \subseteq Networks

\* The form of a dialog for machine m, as it is made.
Form(m) == [vcpus |-> m.vcpus, display |-> m.display, boot |-> m.boot, remove |-> {},
            add |-> FALSE, cd |-> "keep", nic |-> "keep"]
Forms ==
  [vcpus : Levels, display : Levels, boot : Levels, remove : SUBSET Targets, add : BOOLEAN,
   cd : Media \union {"keep"}, nic : Networks \union {"keep"}]
Parts == {"max", "vcpus", "display", "boot", "disks", "cd", "nics"}
\* What is stored otherwise than virsh tells.
Unlike == {f \in Parts : vm[f] # live[f]}

TypeOK ==
  /\ \A m \in {vm, live, held.vm} : IsMachine(m)
  /\ volumes \subseteq Volumes
  /\ {running, shownRunning, failed} \subseteq BOOLEAN /\ crossed \subseteq {"calls", "stop"}
  /\ dialog \in {"closed", "open", "saving", "accepted"}
  /\ {held.loaded, held.live} \subseteq BOOLEAN
  /\ wish \in Forms /\ (staged \union reverted) \subseteq Parts
  /\ (asked \union mistaken) \subseteq Volumes /\ broken \subseteq Pairs
  /\ saves \in 0..MaxSaves /\ edits \in 0..MaxEdits /\ {dialogs, powers} \subseteq 0..MaxEvents

Deployed ==
  [max |-> 1, vcpus |-> 1, display |-> 1, boot |-> 1, disks |-> [t \in {1} |-> 1],
   cd |-> "none", nics |-> [a \in {0} |-> "default"]]
\* What is held of a dialog that is not there.
Gone == [vm |-> Deployed, loaded |-> FALSE, live |-> FALSE]

Init ==
  /\ vm = Deployed /\ live = vm /\ volumes = {1} /\ running \in BOOLEAN /\ shownRunning = running
  /\ dialog = "closed" /\ held = Gone /\ wish = Form(Deployed)
  /\ jobs = {} /\ failed = FALSE /\ crossed = {} /\ staged = {} /\ reverted = {}
  /\ asked = {} /\ broken = {} /\ mistaken = {} /\ saves = 0 /\ edits = 0 /\ dialogs = 0 /\ powers = 0

-----------------------------------------------------------------------------
(* The dialog.                                                             *)

\* _on_configure_vm_clicked, and _open_configure_vm_dialog: get_vm_resources,
\* get_vm_display_device and get_boot_order, of what virsh tells.
Configure ==
  /\ dialog = "closed" /\ dialogs + powers < MaxEvents /\ dialogs' = dialogs + 1
  /\ dialog' = "open" /\ held' = [vm |-> live, loaded |-> FALSE, live |-> shownRunning]
  /\ wish' = Form(live)
  /\ failed' = FALSE /\ crossed' = {} /\ staged' = Unlike
  /\ UNCHANGED <<machineVars, jobs, histVars, saves, edits, powers>>

\* _on_loaded: list_disks, list_network_interfaces, again of what virsh tells.
Loaded ==
  /\ dialog \in {"open", "saving"} /\ ~held.loaded
  /\ held' = [held EXCEPT !.loaded = TRUE,
                          !.vm.disks = live.disks, !.vm.cd = live.cd, !.vm.nics = live.nics]
  /\ staged' = staged \union (Unlike \ (Fields \union {"max"}))
  /\ UNCHANGED <<machineVars, dialog, wish, failed, crossed, jobs, histVars, bounds>>

\* What can be wanted of it: a disk once removed from the list stays so, nothing but
\* settings before the dialog is loaded, and a network in the place of only one.
Wishes ==
  LET Once(S, else) == IF held.loaded THEN S ELSE {else}
      moves == IF Cardinality(DOMAIN held.vm.nics) = 1 THEN Networks ELSE {}
  IN [vcpus : Levels, display : Levels, boot : Levels,
      remove : Once({r \in SUBSET DOMAIN held.vm.disks : wish.remove \subseteq r}, {}),
      add : Once(BOOLEAN, FALSE), cd : Once(Media \union {"keep"}, "keep"),
      nic : Once(moves \union {"keep"}, "keep")]

\* What the user changes in the form for it.
Edits(w) ==
  Cardinality({f \in Fields \union {"add", "cd", "nic"} : w[f] # wish[f]})
    + Cardinality(w.remove \ wish.remove)

\* Its calls in their order; do_work.
Calls(w) ==
  LET If(b, s) == IF b THEN s ELSE <<>>
      address == CHOOSE a \in DOMAIN held.vm.nics : TRUE
      removals == CHOOSE s \in [1..Cardinality(w.remove) -> w.remove] : Range(s) = w.remove
  IN If(w.vcpus # held.vm.vcpus, <<<<"max", w.vcpus>>, <<"vcpus", w.vcpus>>>>)
       \o If(w.display # held.vm.display, <<<<"display", w.display>>>>)
       \o If(w.boot # held.vm.boot, <<<<"boot", w.boot>>>>)
       \o [i \in DOMAIN removals |-> <<"remove", removals[i]>>]
       \o If(w.add, <<<<"create", 0>>, <<"attach", 0>>>>)
       \o If(w.cd # "keep", <<<<"eject", 0>>>>) \o If(w.cd = "iso", <<<<"insert", 0>>>>)
       \o If(w.nic \notin {"keep"} \union Range(held.vm.nics),
             <<<<"detach", address>>, <<"join", w.nic>>>>)

\* _on_accept.
Accept(w) ==
  /\ saves' = saves + 1
  /\ edits + Edits(w) <= MaxEdits /\ edits' = edits + Edits(w)
  /\ wish' = w
  /\ asked' = asked \union {held.vm.disks[t] : t \in w.remove}
  /\ IF Calls(w) = <<>> THEN dialog' = "accepted" /\ UNCHANGED jobs
     ELSE /\ dialog' = "saving"
          /\ jobs' = jobs \union {[ours |-> TRUE, live |-> held.live, calls |-> Calls(w),
                                   volume |-> 0, again |-> failed, id |-> saves]}
  /\ UNCHANGED <<machineVars, held, failed, crossed, staged, broken, mistaken, reverted,
                 dialogs, powers>>

Closes ==
  /\ dialog' = "closed" /\ held' = Gone /\ wish' = Form(Deployed)
  /\ failed' = FALSE /\ crossed' = {} /\ staged' = {}

\* Cancel, or Esc.
Reject ==
  /\ dialog \in {"open", "saving"} /\ Closes
  /\ jobs' = {[j EXCEPT !.ours = FALSE] : j \in jobs}
  /\ UNCHANGED <<machineVars, histVars, bounds>>

\* exec returns: the machines are listed again.
Accepted ==
  /\ dialog = "accepted" /\ Closes /\ shownRunning' = running
  /\ UNCHANGED <<vm, live, volumes, running, jobs, histVars, bounds>>

-----------------------------------------------------------------------------
(* The calls.                                                              *)

\* The name of a new volume counts the devices, the CD drive one of them.
NewVolume == Cardinality(DOMAIN live.disks) + 2

\* _next_disk_target: after the last, of those virsh tells of.
NextTarget ==
  1 + CHOOSE t \in DOMAIN live.disks \union {0} : \A u \in DOMAIN live.disks : u <= t

\* A machine that does not run has but the stored definition.
Made(stored, run) == <<stored, IF running THEN run ELSE stored>>
Without(f, x) == Restrict(f, DOMAIN f \ {x})
With(f, x, y) == [z \in DOMAIN f \union {x} |-> IF z = x THEN y ELSE f[z]]

\* The functions of qemu_provisioning, call by call: what one can make of the
\* stored machine and of the live one, or nothing where virsh refuses it.

\* --config alone; no more processors than the maximum.
resize_vm(c) ==
  {Made(m, live) : m \in {x \in {[vm EXCEPT ![c[1]] = c[2]]} : c[1] = "vcpus" => c[2] <= vm.max}}

\* set_boot_order too: what `dumpxml` tells is defined, with the change.
set_display_device(c) == {Made([live EXCEPT ![c[1]] = c[2]], live)}

\* What --live asks of a machine that does not run is refused.  A guest may not
\* let go of a device, which is then there until the machine stops.
Possible(j) == j.live => running
Released(f, x) == {f, Without(f, x)}

\* Mutant of remove_disk: without --config or --persistent.
RemoveOnce(j) ==
  LET t == Head(j.calls)[2]
  IN {Made(IF running THEN vm ELSE [vm EXCEPT !.disks = left], [live EXCEPT !.disks = left]) :
        left \in {f \in Released(live.disks, t) : Possible(j) /\ t \in DOMAIN vm.disks}}

\* With --persistent of the live machine as well, asked or not.
remove_disk(j) ==
  LET t == Head(j.calls)[2]
  IN {Made([vm EXCEPT !.disks = Without(@, t)], [live EXCEPT !.disks = left]) :
        left \in {f \in Released(live.disks, t) : Possible(j) /\ t \in DOMAIN vm.disks}}

\* Of a machine that does not run the name continues that of another disk; a
\* disk of that kind cannot be attached to one that does.
add_disk(j) ==
  LET Attached(m) == [m EXCEPT !.disks = With(@, NextTarget, j.volume)]
  IN IF Head(j.calls)[1] = "create"
     THEN {o \in {<<vm, live>>} : NewVolume \notin volumes}
     ELSE {o \in {Made(Attached(vm), Attached(live))} :
             j.live \/ (~running /\ DOMAIN live.disks # {})}

\* To eject nothing is no error; to insert where there is something is one.
\* Which it is, is told from the stored machine.
change_cdrom_media(j) ==
  LET medium == IF Head(j.calls)[1] = "insert" THEN "iso" ELSE "none"
      Changed(m) == [m EXCEPT !.cd = medium]
  IN {o \in {Made(Changed(vm), IF j.live /\ vm.cd # medium THEN Changed(live) ELSE live)} :
        Possible(j) /\ (medium = "iso" => vm.cd = "none")}

\* The new interface has a new address.
change_network(j) ==
  LET c == Head(j.calls)
      Joined(m) == [m EXCEPT !.nics = With(@, j.id + 1, c[2])]
  IN IF c[1] = "join"
     THEN {o \in {Made(Joined(vm), IF j.live THEN Joined(live) ELSE live)} : Possible(j)}
     ELSE {Made([vm EXCEPT !.nics = Without(@, c[2])], [live EXCEPT !.nics = left]) :
             left \in {f \in (IF j.live THEN Released(live.nics, c[2]) ELSE {live.nics}) :
                         /\ Possible(j) /\ c[2] \in DOMAIN vm.nics
                         /\ j.live => c[2] \in DOMAIN live.nics}}

Outcome(j) ==
  LET c == Head(j.calls)
  IN CASE c[1] \in {"max", "vcpus"} -> resize_vm(c)
       [] c[1] \in {"display", "boot"} -> set_display_device(c)
       [] c[1] = "remove" -> remove_disk(j)
       [] c[1] \in {"create", "attach"} -> add_disk(j)
       [] c[1] \in {"eject", "insert"} -> change_cdrom_media(j)
       [] c[1] \in {"detach", "join"} -> change_network(j)

Works(j) ==
  LET c == Head(j.calls)
  IN /\ \E o \in Outcome(j) : vm' = o[1] /\ live' = o[2]
     /\ volumes' = volumes \union (IF c[1] = "create" THEN {NewVolume} ELSE {})
     /\ crossed' = crossed \union (IF j.ours \/ dialog = "closed" THEN {} ELSE {"calls"})
     /\ mistaken' = mistaken \union
          (IF (j.again \/ ~j.ours \/ "calls" \in crossed) /\ c[1] = "remove" THEN {vm.disks[c[2]]} ELSE {})
     /\ reverted' = (reverted \union (IF c[1] \in {"display", "boot"} THEN Unlike ELSE {})) \ {c[1]}

Rest(j) ==
  [j EXCEPT !.calls = Tail(@),
            !.volume = IF Head(j.calls)[1] = "create" THEN NewVolume ELSE @]

\* A call works; after the last one, accept().
Call(j) ==
  /\ j \in jobs /\ Works(j)
  /\ IF Len(j.calls) > 1 THEN jobs' = (jobs \ {j}) \union {Rest(j)} /\ UNCHANGED dialog
     ELSE jobs' = jobs \ {j} /\ dialog' = (IF j.ours THEN "accepted" ELSE dialog)
  /\ UNCHANGED <<running, shownRunning, held, wish, failed, staged, asked, broken, bounds>>

\* The second calls of the pairs.
PairOf(calls) ==
  IF calls = <<>> THEN {}
  ELSE CASE Head(calls)[1] = "vcpus" -> {"vcpus"} [] Head(calls)[1] = "attach" -> {"disk"}
         [] Head(calls)[1] = "insert" -> {"cd"} [] Head(calls)[1] = "join" -> {"nic"}
         [] OTHER -> {}

\* _on_save_error, with or without the call having worked.
CallFails(j, worked) ==
  /\ j \in jobs /\ jobs' = jobs \ {j}
  /\ IF worked THEN Works(j) ELSE UNCHANGED <<vm, live, volumes, crossed, mistaken, reverted>>
  /\ broken' = broken \union PairOf(IF worked THEN Tail(j.calls) ELSE j.calls)
  /\ IF j.ours THEN dialog' = "open" /\ failed' = TRUE ELSE UNCHANGED <<dialog, failed>>
  /\ UNCHANGED <<running, shownRunning, held, wish, staged, asked, bounds>>

\* The guest shuts down or is started, here or elsewhere; only here
\* _on_qemu_power_action_done lists the machines again.  One that starts is as
\* it is stored.
Power(here) ==
  /\ dialogs + powers < MaxEvents /\ powers' = powers + 1
  /\ running' = ~running /\ (here => dialog = "closed")
  /\ shownRunning' = (IF here THEN running' ELSE shownRunning)
  /\ live' = vm
  /\ crossed' = crossed \union (IF running /\ dialog # "closed" THEN {"stop"} ELSE {})
  /\ UNCHANGED <<vm, volumes, dialog, held, wish, failed, staged, jobs, histVars, saves, edits, dialogs>>

Next ==
  \/ Configure \/ Loaded \/ Reject \/ Accepted
  \/ dialog = "open" /\ saves < MaxSaves /\ \E w \in Wishes : Accept(w)
  \/ \E j \in jobs : Call(j) \/ \E b \in BOOLEAN : CallFails(j, b)
  \/ \E b \in BOOLEAN : Power(b)

Spec == Init /\ [][Next]_vars

-----------------------------------------------------------------------------
(* The properties.                                                         *)

About(c) == {j \in jobs : Head(j.calls)[1] = c}

\* The network shown was chosen again, and is not what is stored.
Unmoved == wish.nic \in Range(held.vm.nics) /\ (failed \/ "nics" \in staged)

\* A dialog that is accepted has stored what it shows, and a machine known to run
\* has the new medium and network.  Not so a setting that the new display or boot
\* order of a running machine took back to what is live, one that is left as it is
\* live though stored otherwise, one set back after a save that failed, and what the
\* calls of a dialog closed before still change; and a drive of which the stored
\* one was empty is not emptied.
AcceptedIsMade ==
  dialog = "accepted" /\ "calls" \notin crossed =>
    /\ \A f \in Fields : \/ vm[f] = wish[f]
                         \/ f \in reverted /\ vm[f] = live[f]
                         \/ wish[f] = held.vm[f] /\ (failed \/ f \in staged)
    /\ \A t \in wish.remove : held.vm.disks[t] \notin Range(vm.disks)
    /\ wish.add => ~(Range(vm.disks) \subseteq Range(held.vm.disks))
    /\ wish.cd \in {"keep", vm.cd}
    /\ held.live => wish.cd \in {"keep", live.cd} \/ (wish.cd = "none" /\ "cd" \in staged)
    /\ wish.nic # "keep" /\ ~Unmoved =>
         /\ wish.nic \in Range(vm.nics)
         /\ held.live => wish.nic \in Range(live.nics)

\* What takes two calls is not left after one: a machine without its network, or
\* with two, or with the wrong maximum; only by a failure between the two, or by a
\* display or boot order stored over it.
NothingHalf ==
  /\ vm.max # vm.vcpus => About("vcpus") # {} \/ "vcpus" \in broken
                            \/ reverted \intersect {"max", "vcpus"} # {}
  /\ DOMAIN vm.nics = {} => About("join") # {} \/ "nic" \in broken \/ "nics" \in reverted
  /\ Cardinality(DOMAIN vm.nics) > 1 => "nics" \in reverted

\* No volume loses its machine that nobody asked to be removed; except where an
\* attachment failed, and where a save was repeated, or ran beside another, after
\* the new disk had got the name of the removed one.
DisksKept ==
  \A v \in volumes \ (Range(vm.disks) \union asked \union mistaken) :
    (\E j \in About("attach") : j.volume = v) \/ "disk" \in broken

\* The dialog is true to the machine virsh tells of, until its own save fails, the
\* calls of one closed before run or the machine stops: a save again then removes
\* and detaches what is gone.  It is true to what is stored where nothing was staged.
DialogTrue ==
  dialog = "open" /\ held.loaded /\ ~failed /\ crossed = {} =>
    held.vm = live /\ (staged = {} => held.vm = vm)

\* A disk cannot be added only where a removed one's volume, or one left over,
\* has its name, or no disk is left, or the machine runs unbeknownst to the tree.
AddIsPossible ==
  /\ \A j \in About("create") : Outcome(j) # {} \/ asked # {} \/ "disk" \in broken
                                 \/ About("attach") # {}
  /\ \A j \in About("attach") : Outcome(j) # {} \/ asked # {} \/ powers > 0

VmAsAsked == AcceptedIsMade /\ NothingHalf /\ DisksKept /\ DialogTrue /\ AddIsPossible
=============================================================================

---------------------------- MODULE VmDeployment ----------------------------
(***************************************************************************)
(* "Deploy VM..." on a QEMU host (ui/create_vm_dialog.py, and              *)
(* qemu_provisioning.create_vm behind it).  The dialog asks for the host's *)
(* pools and networks, and, each time the pool of the installation media   *)
(* changes, for the ISO images in it; every answer comes from a thread of  *)
(* its own, so they come in any order.  What is typed for the media is     *)
(* looked up in the images listed when OK is clicked: a name that is not   *)
(* listed means no media.  Esc closes the dialog also while virt-install   *)
(* runs.  An image is its pool and its name.                               *)
(***************************************************************************)
EXTENDS Naturals, Sequences

CONSTANTS
  Names,       \* names of machines
  MaxLoads,    \* bounds of the model: requests for images, of one dialog,
  MaxDialogs   \*   and dialogs

\* Of the constants; an ASSUME of the module that instantiates this one.
BoundsAssumption == MaxLoads \in Nat /\ MaxDialogs \in Nat

Pools == {"fast", "isos"}
First == "fast"                      \* the first in the answer
Images == [fast |-> {"debian"}, isos |-> {"debian", "ubuntu"}]
IsosOf(p) == {p} \X Images[p]
Typed == {"", "debian", "ubuntu"}
Import == <<"none", "">>             \* virt-install --import
Chosen == (Pools \union {""}) \X Typed

VARIABLES
  vms,         \* the machines on the host, each with its request
  tree,        \* the machines the tree shows
  preset,      \* host.default_iso_pool
  dialog, loading, ready,            \* CreateVmDialog, its pools and OK button
  pool, listed, typed,               \*   and what it shows of the media
  loads,       \* requests for a pool's images, numbered
  asked,       \*   the last one made,
  shown,       \*   history: the one whose answer is shown
  creates,     \* virt-install runs
  dialogs

mediaVars == <<pool, listed, typed, loads, asked, shown>>
vars == <<vms, tree, preset, dialog, loading, ready, mediaVars, creates, dialogs>>

\* A request: what create_vm is given, and, as history, what the dialog showed.
Specs == [name : Names, iso : UNION {IsosOf(p) : p \in Pools} \union {Import},
          wanted : Chosen, sure : BOOLEAN, ours : BOOLEAN]

TypeOK ==
  /\ DOMAIN vms \subseteq Names /\ \A n \in DOMAIN vms : vms[n] \in Specs
  /\ tree \subseteq Names /\ preset \in Pools \union {""}
  /\ dialog \in {"closed", "open", "busy"} /\ {loading, ready} \subseteq BOOLEAN
  /\ <<pool, typed>> \in Chosen /\ listed \subseteq UNION {IsosOf(p) : p \in Pools}
  /\ loads \subseteq (1..MaxLoads) \X Pools /\ {asked, shown} \subseteq 0..MaxLoads
  /\ creates \subseteq Specs /\ dialogs \in 0..MaxDialogs

Init ==
  /\ vms = [n \in {} |-> 0] /\ tree = {} /\ preset \in Pools \union {""}
  /\ dialog = "closed" /\ loading = FALSE /\ ready = FALSE
  /\ pool = "" /\ listed = {} /\ typed = "" /\ loads = {}
  /\ asked = 0 /\ shown = 0
  /\ creates = {} /\ dialogs = 0

\* _on_deploy_vm_clicked and CreateVmDialog's __init__.
DeployVm ==
  /\ dialog = "closed" /\ dialogs < MaxDialogs /\ dialogs' = dialogs + 1
  /\ dialog' = "open" /\ loading' = TRUE /\ ready' = FALSE
  /\ pool' = "" /\ listed' = {} /\ typed' = "" /\ loads' = {}
  /\ asked' = 0 /\ shown' = 0
  /\ UNCHANGED <<vms, tree, preset, creates>>

-----------------------------------------------------------------------------
(* The pools and their images.                                             *)

\* The requests made as the pool goes through ps, one for each change of the
\* pool, and one that _on_pools_and_networks_loaded makes itself.
Requests(ps) == {<<asked + i, ps[i]>> : i \in DOMAIN ps}

\* _on_pools_and_networks_loaded: the first item a combo gets is its current
\* one, so a pool that is preset makes the second request.
PoolsLoaded(networks) ==
  /\ loading /\ loading' = FALSE
  /\ LET there == IF preset = "" THEN First ELSE preset
         changes == IF there = First THEN <<First>> ELSE <<First, there>>
         ps == IF networks THEN Append(changes, there) ELSE changes
     IN /\ asked + Len(ps) <= MaxLoads
        /\ pool' = there /\ loads' = loads \union Requests(ps) /\ asked' = asked + Len(ps)
  /\ ready' = networks
  /\ UNCHANGED <<vms, tree, preset, dialog, listed, typed, shown, creates, dialogs>>

\* No pools, or _on_load_error.
NoPools ==
  /\ loading /\ loading' = FALSE
  /\ UNCHANGED <<vms, tree, preset, dialog, ready, mediaVars, creates, dialogs>>

\* _on_iso_pool_changed.
ChooseIsoPool(p) ==
  /\ dialog = "open" /\ ready /\ p # pool /\ asked < MaxLoads
  /\ pool' = p /\ loads' = loads \union Requests(<<p>>) /\ asked' = asked + 1
  /\ UNCHANGED <<vms, tree, preset, dialog, loading, ready, listed, typed, shown,
                 creates, dialogs>>

\* _on_volumes_loaded, whichever request it answers; what is typed stays.
VolumesLoaded(l) ==
  /\ l \in loads /\ loads' = loads \ {l}
  /\ listed' = IsosOf(l[2])
  /\ shown' = l[1]
  /\ UNCHANGED <<vms, tree, preset, dialog, loading, ready, pool, typed, asked, creates, dialogs>>

\* _on_load_error; the list stays as it was.
VolumesFail(l) ==
  /\ l \in loads /\ loads' = loads \ {l}
  /\ UNCHANGED <<vms, tree, preset, dialog, loading, ready, pool, listed, typed, asked, shown,
                 creates, dialogs>>

TypeIso(t) ==
  /\ dialog = "open" /\ ready /\ t # typed /\ typed' = t
  /\ UNCHANGED <<vms, tree, preset, dialog, loading, ready, pool, listed, loads, asked, shown,
                 creates, dialogs>>

-----------------------------------------------------------------------------
(* The machine.                                                            *)

\* resolve_data: by the text, in what is listed.
Resolved(isos, t) == IF \E i \in isos : i[2] = t THEN CHOOSE i \in isos : i[2] = t ELSE Import

\* _on_accept.
Accept(n) ==
  /\ dialog = "open" /\ ready /\ dialog' = "busy"
  /\ creates' = creates \union
       {[name |-> n, iso |-> Resolved(listed, typed), wanted |-> <<pool, typed>>,
         sure |-> shown = asked, ours |-> TRUE]}
  /\ UNCHANGED <<vms, tree, preset, loading, ready, mediaVars, dialogs>>

\* Cancel, or Esc; virt-install goes on.
Reject ==
  /\ dialog # "closed" /\ dialog' = "closed" /\ loading' = FALSE /\ ready' = FALSE
  /\ pool' = "" /\ listed' = {} /\ typed' = "" /\ loads' = {}
  /\ asked' = 0 /\ shown' = 0
  /\ creates' = {[c EXCEPT !.ours = FALSE] : c \in creates}
  /\ UNCHANGED <<vms, tree, preset, dialogs>>

Made(c) == [n \in DOMAIN vms \union {c.name} |-> IF n = c.name THEN c ELSE vms[n]]

\* create_vm, and accept(): _on_deploy_vm_clicked loads the machines again,
\* if the dialog is still there to be accepted.
Created(c) ==
  /\ c \in creates /\ creates' = creates \ {c}
  /\ c.name \notin DOMAIN vms /\ vms' = Made(c)
  /\ IF c.ours
     THEN /\ dialog' = "closed" /\ loading' = FALSE /\ ready' = FALSE
          /\ pool' = "" /\ listed' = {} /\ typed' = "" /\ loads' = {}
          /\ asked' = 0 /\ shown' = 0
          /\ tree' = DOMAIN vms'
     ELSE UNCHANGED <<dialog, loading, ready, mediaVars, tree>>
  /\ UNCHANGED <<preset, dialogs>>

\* _on_create_error: refused, or given up on, with or without a machine there.
CreateFails(c, there) ==
  /\ c \in creates /\ creates' = creates \ {c}
  /\ IF there THEN c.name \notin DOMAIN vms /\ vms' = Made([c EXCEPT !.ours = FALSE])
     ELSE UNCHANGED vms
  /\ dialog' = (IF c.ours THEN "open" ELSE dialog)
  /\ UNCHANGED <<tree, preset, loading, ready, mediaVars, dialogs>>

Next ==
  \/ DeployVm \/ NoPools \/ Reject
  \/ \E b \in BOOLEAN : PoolsLoaded(b)
  \/ \E p \in Pools : ChooseIsoPool(p)
  \/ \E l \in loads : VolumesLoaded(l) \/ VolumesFail(l)
  \/ \E t \in Typed \ {""} : TypeIso(t)
  \/ \E n \in Names : Accept(n)
  \/ \E c \in creates : Created(c) \/ \E b \in BOOLEAN : CreateFails(c, b)

Spec == Init /\ [][Next]_vars

-----------------------------------------------------------------------------
(* The properties.                                                         *)

\* The images offered are those of the pool shown, when the last answer is the last
\* asked for; not so while it is on its way, or failed, or was overtaken.
ListFollowsPool ==
  shown = asked /\ pool # "" => listed = IsosOf(pool)

\* A machine boots from the image chosen for it, in the pool chosen, or from
\* its disk when that pool has no such image; not so when OK was clicked before
\* the list had come, or on the list of another pool.
DeployedAsAsked ==
  \A n \in DOMAIN vms :
    LET w == vms[n].wanted
    IN vms[n].sure =>
         vms[n].iso = (IF w \in IsosOf(w[1]) THEN w ELSE Import)

\* The tree shows every machine whose dialog was there to be told of it.
DeployedIsShown == \A n \in DOMAIN vms : vms[n].ours => n \in tree

DeployFollows == ListFollowsPool /\ DeployedAsAsked /\ DeployedIsShown
=============================================================================

--------------------------- MODULE ConnectionTree ---------------------------
(***************************************************************************)
(* What the connection manager's tree loads in the background              *)
(* (modules/connection_manager/ui/main_view.py): a category of a Google    *)
(* project (its VMs, its buckets), and a QEMU host's VMs.                  *)
(*                                                                         *)
(* An item is made anew each time the tree is built, and what was asked    *)
(* for the old one finds it gone.  Actors: Qt's thread (the user, a timer, *)
(* the answers), the pool's threads, and the cloud, whose data have an age *)
(* that tells an older answer from a newer one.                            *)
(***************************************************************************)
EXTENDS Naturals, FiniteSets

CONSTANTS
  Categories,
  Hosts,
  MaxBuilds,    \* bound of the model: how often an item is made
  MaxAge,       \* bound of the model: how often the data change
  MaxRequests   \* bound of the model: requests out at once

\* A category is not a host.
ASSUME TreeAssumption ==
  /\ Categories \intersect Hosts = {}
  /\ {MaxBuilds, MaxAge, MaxRequests} \subseteq Nat \ {0}

VARIABLES
  present,   \* the items that are in the tree
  build,     \* how often an item was made: the number of the last one
  loaded,    \* its CHILDREN_LOADED_ROLE
  loading,   \* a category's IS_LOADING_ROLE
  treeShown, \* the age of the data it shows, or of its error; 0: "Loading..."
  requests,  \* the requests that have not been answered
  age,       \* of the data there are
  crossed    \* history: hosts asked twice, and not answered both times yet

treeVars == <<present, build, loaded, loading, treeShown, requests, age, crossed>>

Items == Categories \union Hosts
Request == [id : 1..MaxRequests, item : Items, build : 1..MaxBuilds,
            age : 0..MaxAge]

TreeTypeOK ==
  /\ present \subseteq Items
  /\ build \in [Items -> 0..MaxBuilds]
  /\ loaded \in [Items -> BOOLEAN]
  /\ loading \in [Categories -> BOOLEAN]
  /\ treeShown \in [Items -> 0..MaxAge]
  /\ requests \subseteq Request
  /\ age \in 1..MaxAge
  /\ crossed \subseteq Hosts

\* Before anybody has signed in, there are only the QEMU hosts.
TreeInit ==
  /\ present = Hosts
  /\ build = [i \in Items |-> IF i \in Hosts THEN 1 ELSE 0]
  /\ loaded = [i \in Items |-> FALSE]
  /\ loading = [c \in Categories |-> FALSE]
  /\ treeShown = [i \in Items |-> 0]
  /\ requests = {}
  /\ age = 1
  /\ crossed = {}

-----------------------------------------------------------------------------
\* A new request for item i as it is in the tree; it has read nothing yet.
New(i, number, id) == [id |-> id, item |-> i, build |-> number, age |-> 0]
Free == {id \in 1..MaxRequests : \A r \in requests : r.id # id}
For(i) ==
  {r \in requests : i \in present /\ r.item = i /\ r.build = build[i]}

\* _apply_project_selection: everything is built anew, and the categories are
\* loaded at once.
ApplyProjectSelection ==
  /\ \A i \in Items : build[i] < MaxBuilds
  /\ \E ids \in [Categories -> Free] :
       /\ \A c, d \in Categories : c # d => ids[c] # ids[d]
       /\ requests' = requests \union
                        {New(c, build[c] + 1, ids[c]) : c \in Categories}
  /\ present' = Items
  /\ build' = [i \in Items |-> build[i] + 1]
  /\ loaded' = [i \in Items |-> i \in Categories]
  /\ loading' = [c \in Categories |-> TRUE]
  /\ treeShown' = [i \in Items |-> 0]
  /\ crossed' = {}
  /\ UNCHANGED age

\* _set_signed_out, when only the hosts are built again, and
\* _populate_qemu_hosts, when the categories stay.
BuildHosts(categories) ==
  /\ \A h \in Hosts : build[h] < MaxBuilds
  /\ present' = Hosts \union categories
  /\ build' = [i \in Items |-> IF i \in Hosts THEN build[i] + 1 ELSE build[i]]
  /\ loaded' = [i \in Items |-> loaded[i] /\ i \in categories]
  /\ loading' = [c \in Categories |-> loading[c] /\ c \in categories]
  /\ treeShown' = [i \in Items |-> IF i \in categories THEN treeShown[i] ELSE 0]
  /\ crossed' = {}
  /\ UNCHANGED <<requests, age>>

SetSignedOut == BuildHosts({})
PopulateQemuHosts == BuildHosts(present \intersect Categories)

\* Mutant of LoadCategory: another request is let through.
LoadAgain(c) ==
  /\ c \in present
  /\ loading' = [loading EXCEPT ![c] = TRUE]
  /\ loaded' = [loaded EXCEPT ![c] = TRUE]
  /\ \E id \in Free : requests' = requests \union {New(c, build[c], id)}
  /\ UNCHANGED <<present, build, treeShown, age, crossed>>

\* _load_category
LoadCategory(c) ==
  /\ c \in present /\ ~loading[c]
  /\ loading' = [loading EXCEPT ![c] = TRUE]
  /\ loaded' = [loaded EXCEPT ![c] = TRUE]
  /\ \E id \in Free : requests' = requests \union {New(c, build[c], id)}
  /\ UNCHANGED <<present, build, treeShown, age, crossed>>

\* _refresh_project: by hand, by the timer, or after an instance was started
\* or stopped.
RefreshProject == \E c \in Categories : LoadCategory(c)

\* _load_qemu_vms knows no such guard.
LoadQemuVms(h) ==
  /\ \E id \in Free : requests' = requests \union {New(h, build[h], id)}
  /\ crossed' = crossed \union {x \in {h} : For(x) # {}}
  /\ UNCHANGED <<present, build, loading, treeShown, age>>

ItemExpanded ==
  \E h \in Hosts :
    /\ ~loaded[h]
    /\ loaded' = [loaded EXCEPT ![h] = TRUE]
    /\ LoadQemuVms(h)

QemuPowerActionDone ==
  \E h \in Hosts : LoadQemuVms(h) /\ UNCHANGED loaded

-----------------------------------------------------------------------------
(* The cloud and the hosts.                                                *)

DataChange ==
  /\ age < MaxAge
  /\ age' = age + 1
  /\ UNCHANGED <<present, build, loaded, loading, treeShown, requests, crossed>>

Reads ==
  \E r \in requests :
    /\ r.age = 0
    /\ requests' = (requests \ {r}) \union {[r EXCEPT !.age = age]}
    /\ UNCHANGED <<present, build, loaded, loading, treeShown, age, crossed>>

-----------------------------------------------------------------------------
\* _on_category_loaded and _on_category_load_failed for a category,
\* _populate_qemu_vms and _populate_category_error for a host: what the item
\* shows is replaced, if it is still there.
Answered ==
  \E r \in requests :
    /\ r.age # 0
    /\ requests' = requests \ {r}
    /\ crossed' = {h \in crossed : For(h) # {r}}
    /\ IF r \in For(r.item)
         THEN /\ treeShown' = [treeShown EXCEPT ![r.item] = r.age]
              /\ loading' = [c \in Categories |-> loading[c] /\ c # r.item]
         ELSE UNCHANGED <<treeShown, loading>>
    /\ UNCHANGED <<present, build, loaded, age>>

TreeNext ==
  \/ ApplyProjectSelection \/ SetSignedOut \/ PopulateQemuHosts
  \/ RefreshProject \/ ItemExpanded \/ QemuPowerActionDone
  \/ DataChange \/ Reads \/ Answered

TreeSpec == TreeInit /\ [][TreeNext]_treeVars

-----------------------------------------------------------------------------
\* A category is marked as loading while its one request is out.
OneRequest ==
  \A c \in Categories : Cardinality(For(c)) = IF loading[c] THEN 1 ELSE 0

\* What an item shows is not replaced by something older, except on a host
\* asked again before it had answered.
GoesBack(i) ==
  i \in present' /\ build'[i] = build[i] /\ treeShown'[i] < treeShown[i]
OnlyForward ==
  \A i \in Items : GoesBack(i) => i \in crossed

(* However often and from wherever the tree is refreshed, rebuilt or       *)
(* emptied while requests are out, a category is asked for once at a time, *)
(* and no late answer, nor its error, takes the place of a newer one.      *)
NoStaleAnswer == [][OneRequest /\ OnlyForward]_treeVars
=============================================================================

--------------------------- MODULE ProftpdHelper ---------------------------
(***************************************************************************)
(* The privileged helper of a ProFTPD server                               *)
(* (resources/proftpd/cockpit-proftpd-helper): users, groups and the       *)
(* virtual directories that are mounted into the users' homes, kept in a   *)
(* database beside the mount units of systemd and the owners of the        *)
(* mounted directories.                                                    *)
(*                                                                         *)
(* Every call is a process of its own with one transaction; what it does   *)
(* to units, mounts and owners is done at once and not taken back.  Calls  *)
(* do not overlap here: the server's tab and the Cockpit page could make   *)
(* them do so.  Container mode, the set-up and what belongs to one user    *)
(* alone (password, key, quota, protocol, lock, expiry) are left out.      *)
(***************************************************************************)
EXTENDS Naturals, SequencesExt

CONSTANTS
  Users,    \* the names of users, which also name their default homes
  Names,    \* the names of virtual directories
  Paths,    \* the directories that are mounted
  Groups,   \* the names of groups an admin creates
  None,
  MaxCalls  \* bound of the model

\* Of the constants; an ASSUME of the module that instantiates this one.
NoneAssumption == None \notin Groups \union Paths /\ MaxCalls \in Nat

VARIABLES
  saved,      \* the database
  db,         \* the same as the running call's transaction sees it
  running,    \* a call runs
  todo,       \* the mounts that it has still to add or to remove
  units,      \* the unit file of a mountpoint
  mounted,    \* what is mounted there
  owner,      \* who owns a path
  strays,     \* history: mountpoints a failure has left unlike the database
  disturbed,  \* history: paths whose owner does not serve all who mount them
  calls

vars == <<saved, db, running, todo, units, mounted, owner, strays, disturbed,
          calls>>

Spots == Users \X Names
Row == [user : Users, name : Names, path : Paths, readonly : BOOLEAN,
        group : Groups \union {None}]
Mount == [path : Paths \union {None}, readonly : BOOLEAN]
GroupRow == [gid : Nat, members : SUBSET Users]
Op == [add : {TRUE}, row : Row] \union [add : {FALSE}, row : Row, home : Users]

NoMount == [path |-> None, readonly |-> FALSE]
Absent == <<"absent", 0>>
Root == <<"root", 0>>

DatabaseOK(d) ==
  /\ DOMAIN d = {"users", "named", "shares", "mounts"}
  /\ DOMAIN d.users \subseteq Users
  /\ \A u \in DOMAIN d.users : d.users[u] \in [uid : Nat, home : Users]
  /\ DOMAIN d.named \subseteq Groups
  /\ \A g \in DOMAIN d.named : d.named[g] \in GroupRow
  /\ DOMAIN d.shares \subseteq Paths
  /\ \A p \in DOMAIN d.shares : d.shares[p] \in GroupRow
  /\ d.mounts \subseteq Row

TypeOK ==
  /\ DatabaseOK(saved) /\ DatabaseOK(db)
  /\ running \in BOOLEAN
  /\ todo \in Seq(Op)
  /\ units \in [Spots -> Mount] /\ mounted \in [Spots -> Mount]
  /\ owner \in [Paths -> {"absent", "root", "user", "named", "share"} \X Nat]
  /\ strays \subseteq Spots /\ disturbed \subseteq Paths
  /\ calls \in 0..MaxCalls

\* A server with some users and groups, and no virtual directory yet; some of
\* the paths are the admin's own directories.
Init ==
  /\ \E present \in SUBSET Users, groups \in SUBSET Groups :
       \E uid \in [present -> 1..Cardinality(present)],
          gid \in [groups -> 1..Cardinality(groups)],
          members \in [groups -> SUBSET present] :
         /\ IsInjective(uid) /\ IsInjective(gid)
         /\ saved = [users |-> [u \in present |-> [uid |-> uid[u], home |-> u]],
                     named |-> [g \in groups |-> [gid |-> gid[g],
                                                  members |-> members[g]]],
                     shares |-> <<>>,
                     mounts |-> {}]
  /\ db = saved
  /\ running = FALSE /\ todo = <<>>
  /\ units = [s \in Spots |-> NoMount] /\ mounted = units
  /\ owner \in [Paths -> {Absent, Root}]
  /\ strays = {} /\ disturbed = {}
  /\ calls = 0

-----------------------------------------------------------------------------
Without(f, x) == [y \in DOMAIN f \ {x} |-> f[y]]
With(f, x, v) == [y \in DOMAIN f \union {x} |-> IF y = x THEN v ELSE f[y]]

\* MAX(id) + 1
NextId(ids) == IF ids = {} THEN 1 ELSE 1 + CHOOSE i \in ids : \A j \in ids : j <= i
Gids(groups) == {groups[g].gid : g \in DOMAIN groups}

\* _set_acl_group_membership
Join(groups, g, members) == [groups EXCEPT ![g].members = @ \union members]
Leave(groups, g, u) == [groups EXCEPT ![g].members = @ \ {u}]
LeaveAll(groups, u) ==
  [g \in DOMAIN groups |-> [groups[g] EXCEPT !.members = @ \ {u}]]

Holds(d, u, name) == \E r \in d.mounts : r.user = u /\ r.name = name
MountOf(r) == [path |-> r.path, readonly |-> r.readonly]

\* The path is the user's own, or its group's, or that of those who share it.
MayWrite(d, own, r) ==
  \/ r.group = None /\ own[r.path] = <<"user", d.users[r.user].uid>>
  \/ /\ r.group # None
     /\ own[r.path] = <<"named", d.named[r.group].gid>>
     /\ r.user \in d.named[r.group].members
  \/ /\ r.path \in DOMAIN d.shares
     /\ own[r.path] = <<"share", d.shares[r.path].gid>>
     /\ r.user \in d.shares[r.path].members

\* What the database says is mounted at a spot.
Recorded(d, s) ==
  {MountOf(r) : r \in {x \in d.mounts : <<d.users[x.user].home, x.name>> = s}}
Agrees(d, u, m, s) ==
  /\ u[s] = m[s]
  /\ Recorded(d, s) = {u[s]} \ {NoMount}

Served(d, own, p) ==
  \A r \in d.mounts : r.path = p /\ ~r.readonly => MayWrite(d, own, r)

-----------------------------------------------------------------------------
(* The calls.                                                              *)

Call ==
  /\ ~running /\ calls < MaxCalls
  /\ calls' = calls + 1

Begin(d, ops) ==
  /\ running' = TRUE
  /\ db' = d /\ todo' = ops
  /\ UNCHANGED <<saved, units, mounted, owner, strays, disturbed>>

\* A call that does nothing outside the database.
Write(d) ==
  /\ db' = d /\ saved' = d
  /\ UNCHANGED <<running, todo, units, mounted, owner, disturbed>>

\* A home that two users have is a home whose mountpoints they share.
TakeHome(h) ==
  strays' = IF \E u \in DOMAIN db.users : db.users[u].home = h
              THEN strays \union {s \in Spots : s[1] = h} ELSE strays

CreateUser ==
  /\ Call
  /\ \E u \in Users \ DOMAIN db.users :
       /\ Write([db EXCEPT !.users = With(@, u,
                   [uid |-> NextId({@[v].uid : v \in DOMAIN @}), home |-> u])])
       /\ TakeHome(u)

\* _rename_user_everywhere; the home stays where it is.
RenameUser ==
  /\ Call
  /\ \E u \in DOMAIN db.users, w \in Users \ DOMAIN db.users :
       LET Renamed(members) ==
             IF u \in members THEN (members \ {u}) \union {w} ELSE members
           InAll(groups) == [g \in DOMAIN groups |->
                               [groups[g] EXCEPT !.members = Renamed(@)]]
       IN  Write([users |-> With(Without(db.users, u), w, db.users[u]),
                  named |-> InAll(db.named), shares |-> InAll(db.shares),
                  mounts |-> {IF r.user = u THEN [r EXCEPT !.user = w] ELSE r :
                                r \in db.mounts}])
  /\ UNCHANGED strays

ChangeHome ==
  /\ Call
  /\ \E u \in DOMAIN db.users, h \in Users :
       /\ h # db.users[u].home
       /\ \A r \in db.mounts : r.user # u
       /\ Write([db EXCEPT !.users[u].home = h])
       /\ TakeHome(h)

Adding(u, name, p, readonly, g) ==
  [add |-> TRUE,
   row |-> [user |-> u, name |-> name, path |-> p, readonly |-> readonly,
            group |-> g]]
Removing(rows) ==
  SetToSeq({[add |-> FALSE, row |-> r, home |-> db.users[r.user].home] :
              r \in rows})

\* cmd_delete_user: its mounts go too, and its membership of every group.
DeleteUser ==
  /\ Call
  /\ \E u \in DOMAIN db.users :
       Begin([db EXCEPT !.users = Without(@, u),
                        !.named = LeaveAll(@, u), !.shares = LeaveAll(@, u)],
             Removing({r \in db.mounts : r.user = u}))

AddVirtualMount ==
  /\ Call
  /\ \E u \in DOMAIN db.users, name \in Names, p \in Paths, ro \in BOOLEAN :
       Begin(db, <<Adding(u, name, p, ro, None)>>)

RemoveVirtualMount ==
  /\ Call
  /\ \E r \in db.mounts : Begin(db, Removing({r}))

CreateGroup ==
  /\ Call
  /\ \E g \in Groups \ DOMAIN db.named :
       Write([db EXCEPT !.named = With(@, g, [gid |-> NextId(Gids(@)),
                                              members |-> {}])])
  /\ UNCHANGED strays

DeleteGroup ==
  /\ Call
  /\ \E g \in DOMAIN db.named :
       /\ \A r \in db.mounts : r.group # g
       /\ Write([db EXCEPT !.named = Without(@, g)])
  /\ UNCHANGED strays

\* The new member gets every directory of the group whose name it has not.
AddGroupMember ==
  /\ Call
  /\ \E g \in DOMAIN db.named, u \in DOMAIN db.users :
       Begin([db EXCEPT !.named = Join(@, g, {u})],
             SetToSeq({Adding(u, r.name, r.path, r.readonly, g) :
                         r \in {x \in db.mounts :
                                  x.group = g /\ ~Holds(db, u, x.name)}}))

RemoveGroupMember ==
  /\ Call
  /\ \E g \in DOMAIN db.named, u \in DOMAIN db.users :
       Begin([db EXCEPT !.named = Leave(@, g, u)],
             Removing({r \in db.mounts : r.user = u /\ r.group = g}))

AddGroupMount ==
  /\ Call
  /\ \E g \in DOMAIN db.named, name \in Names, p \in Paths, ro \in BOOLEAN :
       LET members == SetToSeq(db.named[g].members)
       IN  /\ members # <<>>
           /\ Begin(db, [i \in DOMAIN members |->
                           Adding(members[i], name, p, ro, g)])

RemoveGroupMount ==
  /\ Call
  /\ \E r \in {x \in db.mounts : x.group # None} :
       Begin(db, Removing({x \in db.mounts :
                             x.group = r.group /\ x.name = r.name}))

-----------------------------------------------------------------------------
(* _add_virtual_mount and _remove_virtual_mount.                           *)

\* The others who have mounted the path, unless it is mounted for a group.
Others(r) ==
  IF r.group # None THEN {}
  ELSE {x.user : x \in {y \in db.mounts : y.path = r.path}} \ {r.user}

Shares == ~Head(todo).row.readonly /\ Others(Head(todo).row) # {}

\* Mutant of Promoted: only the newcomer joins the group of the path.
PromotedAlone(r) ==
  LET shares == IF r.path \in DOMAIN db.shares THEN db.shares
                ELSE With(db.shares, r.path,
                          [gid |-> NextId(Gids(db.shares)), members |-> {}])
  IN  Join(shares, r.path, {r.user})

\* The second user of a path makes it one that a group of its own owns.
Promoted(r) ==
  LET shares == IF r.path \in DOMAIN db.shares THEN db.shares
                ELSE With(db.shares, r.path,
                          [gid |-> NextId(Gids(db.shares)), members |-> {}])
  IN  Join(shares, r.path, Others(r) \union {r.user})

Chowned(r, d) ==
  LET new == IF r.readonly
               THEN IF owner[r.path] = Absent THEN Root ELSE owner[r.path]
             ELSE IF r.group # None THEN <<"named", d.named[r.group].gid>>
             ELSE IF Others(r) # {} THEN <<"share", d.shares[r.path].gid>>
             ELSE IF owner[r.path] = Absent THEN <<"user", d.users[r.user].uid>>
             ELSE owner[r.path]
  IN  [owner EXCEPT ![r.path] = new]

Shared(r) == IF Shares THEN [db EXCEPT !.shares = Promoted(r)] ELSE db

\* A private mount leaves a directory that exists to whoever owns it, and a
\* group's takes it from those who mount it otherwise.
Disturbs(r, d) ==
  /\ ~r.readonly /\ ~Shares
  /\ IF r.group = None THEN ~MayWrite(d, Chowned(r, d), r)
     ELSE \E x \in db.mounts : x.path = r.path /\ ~x.readonly /\ x.group # r.group

\* systemctl enable --now does not mount over what is mounted there.
AddMount ==
  /\ running /\ todo # <<>> /\ Head(todo).add
  /\ LET r == Head(todo).row
         s == <<db.users[r.user].home, r.name>>
         d == Shared(r)
     IN  /\ ~Holds(db, r.user, r.name)
         /\ owner' = Chowned(r, d)
         /\ units' = [units EXCEPT ![s] = MountOf(r)]
         /\ mounted' = [mounted EXCEPT ![s] = IF @ = NoMount THEN MountOf(r) ELSE @]
         /\ db' = [d EXCEPT !.mounts = @ \union {r}]
         /\ disturbed' = IF Shares THEN disturbed \ {r.path}
                         ELSE disturbed \union
                                {p \in {r.path} : Disturbs(r, d)}
  /\ todo' = Tail(todo)
  /\ UNCHANGED <<saved, running, strays, calls>>

\* disable --now cannot unmount a directory that is in use.
RemoveMount ==
  /\ running /\ todo # <<>> /\ ~Head(todo).add
  /\ LET r == Head(todo).row
         s == <<Head(todo).home, r.name>>
         member == ~r.readonly /\ r.path \in DOMAIN db.shares
         left == Leave(db.shares, r.path, r.user)
     IN  /\ units' = [units EXCEPT ![s] = NoMount]
         /\ \/ /\ mounted' = [mounted EXCEPT ![s] = NoMount]
               /\ UNCHANGED strays
            \/ /\ UNCHANGED mounted
               /\ mounted[s] # NoMount
               /\ strays' = strays \union {s}
         /\ db' = [db EXCEPT
              !.mounts = @ \ {r},
              !.shares = IF ~member THEN @
                         ELSE IF left[r.path].members = {}
                                THEN Without(@, r.path) ELSE left]
         /\ disturbed' = disturbed \union
              {p \in {r.path} : member /\ \E x \in db.mounts \ {r} :
                 x.user = r.user /\ x.path = p /\ ~x.readonly}
  /\ todo' = Tail(todo)
  /\ UNCHANGED <<saved, running, owner, calls>>

Commit ==
  /\ running /\ todo = <<>>
  /\ saved' = db
  /\ running' = FALSE
  /\ UNCHANGED <<db, todo, units, mounted, owner, strays, disturbed, calls>>

\* The transaction is lost; what was done outside it is not undone.
RollBack ==
  /\ UNCHANGED <<saved, mounted, calls>>
  /\ running' = FALSE /\ todo' = <<>>
  /\ db' = saved
  /\ strays' = strays \union {s \in Spots : ~Agrees(saved, units', mounted', s)}
  /\ disturbed' = disturbed \union {p \in Paths : ~Served(saved, owner', p)}

\* A name that is in use, or a call that is killed.
CallDies ==
  /\ running /\ todo # <<>>
  /\ UNCHANGED <<units, owner>>
  /\ RollBack

\* A mount that cannot be made; its unit may have been enabled.
AddFails ==
  /\ running /\ todo # <<>> /\ Head(todo).add
  /\ LET r == Head(todo).row
         s == <<db.users[r.user].home, r.name>>
     IN  /\ ~Holds(db, r.user, r.name)
         /\ owner' = Chowned(r, Shared(r))
         /\ \/ units' = [units EXCEPT ![s] = MountOf(r)]
            \/ UNCHANGED units
  /\ RollBack

\* systemd mounts what is enabled.
Reboot ==
  /\ ~running /\ mounted # units
  /\ mounted' = units
  /\ UNCHANGED <<saved, db, running, todo, units, owner, strays, disturbed,
                 calls>>

-----------------------------------------------------------------------------
UserCall == CreateUser \/ RenameUser \/ ChangeHome \/ DeleteUser
MountCall == AddVirtualMount \/ RemoveVirtualMount
GroupCall ==
  \/ CreateGroup \/ DeleteGroup \/ AddGroupMember \/ RemoveGroupMember
  \/ AddGroupMount \/ RemoveGroupMount
CallStep == AddMount \/ RemoveMount \/ Commit \/ CallDies \/ AddFails

Next == UserCall \/ MountCall \/ GroupCall \/ CallStep \/ Reboot

Spec == Init /\ [][Next]_vars

-----------------------------------------------------------------------------
\* The tables speak of users and groups that exist, and a group's directory is
\* only mounted for a member.
TablesAgree ==
  /\ \A r \in saved.mounts :
       /\ r.user \in DOMAIN saved.users
       /\ r.group # None => /\ r.group \in DOMAIN saved.named
                            /\ r.user \in saved.named[r.group].members
  /\ \A g \in DOMAIN saved.named :
       saved.named[g].members \subseteq DOMAIN saved.users
  /\ \A p \in DOMAIN saved.shares :
       saved.shares[p].members \subseteq DOMAIN saved.users

\* What is recorded is what is mounted, now and after a reboot, except where a
\* call failed, an unmount did or two users have one home.
MountsFollowRecords ==
  ~running =>
    \A s \in Spots \ strays : Agrees(saved, units, mounted, s)

\* Whoever has a writable directory can write to it, except one that failed
\* calls, a group's claim or a second mount of the same user have disturbed.
WritersCanWrite ==
  ~running => \A p \in Paths \ disturbed : Served(saved, owner, p)

(* Across calls that add, share, rename and remove, fail half-way or are   *)
(* killed, the database, the mounts and the owners stay in step.           *)
ServerInStep == TablesAgree /\ MountsFollowRecords /\ WritersCanWrite
=============================================================================

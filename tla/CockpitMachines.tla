-------------------------- MODULE CockpitMachines --------------------------
(***************************************************************************)
(* The machines of the Cockpit module (modules/cockpit's view,             *)
(* core/cockpit_machines.py, the list in core/settings.py): saved logins,  *)
(* the managers found on each by a check that runs in the background, the  *)
(* tree, the tabs, and the key that is offered after a login by password.  *)
(*                                                                         *)
(* The list is a file that every operation reads and writes whole; two     *)
(* dialogs hold what they read while their own event loop delivers the     *)
(* answers of checks.  A crash inside a save leaves a file that is cut     *)
(* off, and reads as no machines.  A target is a key (user, host, port)    *)
(* and the ProFTPD container; names and key paths are left out.            *)
(***************************************************************************)
EXTENDS Naturals, Sequences, FiniteSets
LOCAL INSTANCE SequencesExt

CONSTANTS
  Keys, Boxes,   \* the logins, and the containers, "none" among them
  Installed,     \* the helpers of each key and container
  Old,           \* the servers the managers kept: [tool, key, box]
  MaxEvents,     \* bounds of the model: what the user does,
  MaxChecks,     \* the checks that are started,
  MaxDialogs     \* and dialogs over dialogs

ToolIds == {"proftpd", "hosting", "scheduler"}
Bare == "proftpd-no-helper"

\* Of the constants; an ASSUME of the module that instantiates this one.
InstalledAssumption ==
  /\ "none" \in Boxes
  /\ Installed \in [Keys \X Boxes -> SUBSET (ToolIds \union {Bare})]
BoundsAssumption == {MaxEvents, MaxChecks, MaxDialogs} \subseteq Nat

VARIABLES
  file,        \* cockpit_machines.json
  tree,        \* the items of the sidebar
  dialogs,     \* those that are open, the last one on top
  detecting,   \* _detecting
  jobs,        \* the targets being checked
  password,    \* _credentials: the keys a password was typed for
  offered,     \* _key_install_offered
  installing,  \* keys being installed
  tabs,        \* _open_tabs, each with the container it was opened for
  mine,        \* history: the keys the user keeps,
  torn,        \*   a crash has cut off the file,
  answered,    \*   a check of the machine as it is has answered,
  behind,      \*   it did so under a dialog that had read the list,
  stale,       \*   it was asked of another container
  events, checks

histVars == <<mine, torn, answered, behind, stale>>
keyVars == <<password, offered, installing>>
vars == <<file, tree, dialogs, detecting, jobs, keyVars, tabs, histVars, events, checks>>

Unknown == {"?"}      \* tools that were never looked for
Targets == [key : Keys, box : Boxes]
Machines == [key : Keys, box : Boxes, tools : SUBSET (ToolIds \union {Bare}) \union {Unknown}]
Items == [key : Keys, show : {"checking", "expand", "tools", "error"},
          tools : SUBSET (ToolIds \union {Bare}) \union {Unknown}, open : BOOLEAN]
Dialogs == [kind : {"add", "edit", "remove", "ask", "offer"}, list : Seq(Machines),
            target : Targets]

TypeOK ==
  /\ file \in [state : {"list", "torn"}, list : Seq(Machines)]
  /\ tree \in Seq(Items)
  /\ dialogs \in Seq(Dialogs) /\ Len(dialogs) <= MaxDialogs
  /\ jobs \subseteq Targets
  /\ {detecting, password, offered, installing, mine, answered, behind, stale} \subseteq SUBSET Keys
  /\ tabs \subseteq [key : Keys, tool : ToolIds, box : Boxes]
  /\ torn \in BOOLEAN /\ events \in 0..MaxEvents /\ checks \in 0..MaxChecks

-----------------------------------------------------------------------------
(* core/cockpit_machines.py.                                               *)

\* parse_detected of what detect_script prints.
Found(t) == LET helpers == Installed[<<t.key, t.box>>]
            IN helpers \ (IF "proftpd" \in helpers THEN {Bare} ELSE {})

\* has_tool.
HasTool(tools, tool) == tool \in tools \/ (tool = "proftpd" /\ Bare \in tools)

KeysOf(list) == {list[i].key : i \in DOMAIN list}
At(list, k) == CHOOSE i \in DOMAIN list : list[i].key = k /\ \A j \in 1..(i - 1) : list[j].key # k

\* migrate_tool_servers, over the three old lists.
Merge(list, server) ==
  IF server.key \in KeysOf(list)
  THEN [list EXCEPT ![At(list, server.key)] =
          [@ EXCEPT !.box = IF @ = "none" THEN server.box ELSE @,
                    !.tools = @ \union {server.tool}]]
  ELSE Append(list, [key |-> server.key, box |-> server.box, tools |-> {server.tool}])
Migrated == FoldLeft(Merge, <<>>, Old)

\* load_cockpit_machines and machines().
List == IF file.state = "torn" THEN <<>> ELSE file.list
Saved(list) == [state |-> "list", list |-> list]

Target(m) == [key |-> m.key, box |-> m.box]

-----------------------------------------------------------------------------
(* The tree.                                                               *)

\* _fill_tools.
Filled(m, checking, open) ==
  [key |-> m.key, open |-> open, tools |-> m.tools,
   show |-> IF m.key \in checking THEN "checking"
            ELSE IF m.tools = Unknown THEN "expand" ELSE "tools"]

OpenItems == {tree[i].key : i \in {j \in DOMAIN tree : tree[j].open}}

\* Items whose expansion starts a check: _populate, _on_item_expanded.
Expanding(list, expanded) ==
  {k \in KeysOf(list) :
     /\ list[At(list, k)].tools = Unknown
     /\ \E i \in DOMAIN list : /\ list[i].key = k
                               /\ k \in expanded \/ list[i].tools \notin {Unknown, {}}}

\* detect(), of machines as they are in a list.
Detecting(list, keys) ==
  LET new == keys \ detecting
  IN /\ checks + Cardinality(new) <= MaxChecks
     /\ checks' = checks + Cardinality(new)
     /\ detecting' = detecting \union new
     /\ jobs' = jobs \union {Target(list[At(list, k)]) : k \in new}

\* _populate, with the item the user has just added expanded too.
Shown(list, expanded, checking) ==
  [i \in DOMAIN list |->
     Filled(list[i], checking, list[i].key \in expanded \/ list[i].tools \notin {Unknown, {}})]
Populate(list, expanded) ==
  /\ Detecting(list, Expanding(list, expanded))
  /\ tree' = Shown(list, expanded, detecting')

Init ==
  /\ file = Saved(Migrated) /\ tree = Shown(Migrated, {}, {})
  /\ dialogs = <<>> /\ detecting = {} /\ jobs = {}
  /\ password = {} /\ offered = {} /\ installing = {} /\ tabs = {}
  /\ mine = KeysOf(Migrated) /\ torn = FALSE /\ answered = {} /\ behind = {} /\ stale = {}
  /\ events = 0 /\ checks = 0

Event == events < MaxEvents /\ events' = events + 1
Top == dialogs[Len(dialogs)]
Under == SubSeq(dialogs, 1, Len(dialogs) - 1)
Shows(kind) == dialogs # <<>> /\ Top.kind = kind
Dialog(kind, list, t) == [kind |-> kind, list |-> list, target |-> t]

TreeFrame == UNCHANGED <<tree, detecting, jobs, checks>>

-----------------------------------------------------------------------------
(* The user.                                                               *)

\* The menus open only with no dialog in the way.
Opens(d) ==
  /\ dialogs = <<>> /\ Event /\ dialogs' = <<d>>
  /\ TreeFrame /\ UNCHANGED <<file, keyVars, tabs, histVars>>

AskToAdd == \E t \in Targets : Opens(Dialog("add", <<>>, t))
\* _edit_machine and _remove_machine read the list before they ask.
AskToChange(kind) ==
  \E k \in KeysOf(List) : Opens(Dialog(kind, List, Target(List[At(List, k)])))

Cancel ==
  /\ dialogs # <<>> /\ Top.kind \in {"add", "edit", "remove", "offer"} /\ dialogs' = Under
  /\ TreeFrame /\ UNCHANGED <<file, keyVars, tabs, histVars, events>>

\* add_machine: the list is read after the dialog.
Add ==
  /\ Shows("add") /\ dialogs' = Under
  /\ LET t == Top.target
         list == Append(List, [key |-> t.key, box |-> t.box, tools |-> Unknown])
     IN IF t.key \in KeysOf(List)
        THEN TreeFrame /\ UNCHANGED <<file, mine>>
        ELSE /\ file' = Saved(list) /\ Populate(list, OpenItems \union {t.key})
             /\ mine' = mine \union {t.key}
  /\ UNCHANGED <<keyVars, tabs, torn, answered, behind, stale, events>>

\* The list of the dialog, with the machine as it was edited.
Edited(list, old, new) ==
  [list EXCEPT ![At(list, old.key)] =
     [key |-> new.key, box |-> new.box, tools |-> IF new = old THEN @.tools ELSE Unknown]]

Edit(t) ==
  /\ Shows("edit") /\ dialogs' = Under
  /\ LET list == Edited(Top.list, Top.target, t)
     IN file' = Saved(list) /\ Populate(list, OpenItems)
  /\ mine' = {t.key} \union
        {Top.list[i].key : i \in DOMAIN Top.list \ {At(Top.list, Top.target.key)}}
  /\ answered' = IF t = Top.target THEN answered ELSE answered \ {Top.target.key, t.key}
  /\ UNCHANGED <<keyVars, tabs, torn, behind, stale, events>>

RemoveMachine ==
  /\ Shows("remove") /\ dialogs' = Under
  /\ LET list == SelectSeq(Top.list, LAMBDA m : m.key # Top.target.key)
     IN file' = Saved(list) /\ Populate(list, OpenItems)
  /\ mine' = mine \ {Top.target.key} /\ answered' = answered \ {Top.target.key}
  /\ UNCHANGED <<keyVars, tabs, torn, behind, stale, events>>

\* _on_item_expanded, or Refresh Tools on an item.
Expand(i) ==
  /\ dialogs = <<>> /\ Event
  /\ LET k == tree[i].key
     IN \/ /\ ~tree[i].open
           /\ LET new == IF List[At(List, k)].tools = Unknown THEN {k} ELSE {}
              IN /\ Detecting(List, new)
                 /\ tree' = [tree EXCEPT ![i].open = TRUE,
                      ![i].show = IF new \ detecting # {} THEN "checking" ELSE @]
        \/ /\ k \notin detecting /\ Detecting(List, {k})
           /\ tree' = [tree EXCEPT ![At(tree, k)].show = "checking"]
  /\ UNCHANGED <<file, dialogs, keyVars, tabs, histVars>>

Collapse(i) ==
  /\ dialogs = <<>> /\ Event /\ tree[i].open
  /\ tree' = [tree EXCEPT ![i].open = FALSE]
  /\ UNCHANGED <<file, dialogs, detecting, jobs, keyVars, tabs, histVars, checks>>

\* open_tool, of an item filled with it; a tab that is open is only shown.
OpenTool(i, tool) ==
  /\ dialogs = <<>> /\ Event
  /\ tree[i].show = "tools" /\ HasTool(tree[i].tools, tool)
  /\ \A b \in tabs : <<b.key, b.tool>> # <<tree[i].key, tool>>
  /\ tabs' = tabs \union {[key |-> tree[i].key, tool |-> tool,
                           box |-> List[At(List, tree[i].key)].box]}
  /\ TreeFrame /\ UNCHANGED <<file, dialogs, keyVars, histVars>>

\* try_close_tab.
CloseTab ==
  /\ dialogs = <<>> /\ \E b \in tabs : tabs' = tabs \ {b}
  /\ TreeFrame /\ UNCHANGED <<file, dialogs, keyVars, histVars, events>>

-----------------------------------------------------------------------------
(* The answers, delivered by any event loop.                               *)

\* _on_detected; the list is read when the answer comes.
Detected(t) ==
  IF t.key \notin KeysOf(List) THEN UNCHANGED <<file, tree>>
  ELSE LET at == At(List, t.key)
       IN /\ file' = Saved([List EXCEPT ![at].tools = Found(t)])
          /\ tree' = [tree EXCEPT ![At(tree, t.key)] = Filled(file'.list[at], detecting', TRUE)]

Over == \E i \in DOMAIN dialogs : dialogs[i].kind \in {"edit", "remove"}

\* ok, which then offers the key of whoever came in by password.
CheckAnswers(t) ==
  /\ t \in jobs /\ jobs' = jobs \ {t} /\ detecting' = detecting \ {t.key}
  /\ Detected(t)
  /\ IF t.key \in password \ offered
     THEN /\ Len(dialogs) < MaxDialogs /\ offered' = offered \union {t.key}
          /\ dialogs' = Append(dialogs, Dialog("offer", <<>>, t))
     ELSE UNCHANGED <<offered, dialogs>>
  /\ answered' = answered \union ({t.key} \intersect KeysOf(List))
  /\ behind' = IF Over THEN behind \union {t.key} ELSE behind
  /\ stale' = IF \E i \in DOMAIN List : List[i].key = t.key /\ List[i].box # t.box
              THEN stale \union {t.key} ELSE stale
  /\ UNCHANGED <<password, installing, tabs, mine, torn, events, checks>>

\* _on_detect_failed.  Expanding an item nobody looked into checks again.
Failed(t, running) ==
  LET again == /\ t.key \in KeysOf(List) /\ List[At(List, t.key)].tools = Unknown
               /\ ~tree[At(tree, t.key)].open /\ t.key \notin running
  IN /\ checks + (IF again THEN 1 ELSE 0) <= MaxChecks
     /\ checks' = checks + (IF again THEN 1 ELSE 0)
     /\ detecting' = running \union (IF again THEN {t.key} ELSE {})
     /\ jobs' = (jobs \ (IF t.key \in running THEN {} ELSE {t}))
                  \union (IF again THEN {Target(List[At(List, t.key)])} ELSE {})
     /\ tree' = IF t.key \notin KeysOf(List) THEN tree
                ELSE [tree EXCEPT ![At(tree, t.key)].open = TRUE,
                                  ![At(tree, t.key)].show = IF again THEN "checking" ELSE "error"]

CheckFails(t) ==
  /\ t \in jobs
  /\ Failed(t, detecting \ {t.key})
  /\ UNCHANGED <<file, dialogs, keyVars, tabs, histVars, events>>

\* prompt_to_retry, when the user can do something about it.
CheckAsks(t) ==
  /\ t \in jobs /\ jobs' = jobs \ {t} /\ detecting' = detecting \ {t.key}
  /\ Len(dialogs) < MaxDialogs /\ dialogs' = Append(dialogs, Dialog("ask", <<>>, t))
  /\ UNCHANGED <<file, tree, keyVars, tabs, histVars, events, checks>>

\* The password is typed, or the host's key is trusted.
Retry ==
  /\ Shows("ask") /\ dialogs' = Under /\ Top.target.key \notin detecting
  /\ checks < MaxChecks /\ checks' = checks + 1
  /\ detecting' = detecting \union {Top.target.key} /\ jobs' = jobs \union {Top.target}
  /\ tree' = IF Top.target.key \in KeysOf(tree)
             THEN [tree EXCEPT ![At(tree, Top.target.key)].show = "checking"] ELSE tree
  /\ password' \in {password, password \union {Top.target.key}}
  /\ UNCHANGED <<file, offered, installing, tabs, histVars, events>>

GiveUp ==
  /\ Shows("ask") /\ dialogs' = Under
  /\ Failed(Top.target, detecting)
  /\ UNCHANGED <<file, keyVars, tabs, histVars, events>>

\* offer_key_install: the answer Yes, and the end of the installation.
InstallKey ==
  /\ Shows("offer") /\ dialogs' = Under
  /\ installing' = installing \union {Top.target.key}
  /\ TreeFrame /\ UNCHANGED <<file, password, offered, tabs, histVars, events>>

KeyInstalled(k) ==
  /\ k \in installing /\ installing' = installing \ {k}
  /\ password' \in {password, password \ {k}}
  /\ TreeFrame /\ UNCHANGED <<file, dialogs, offered, tabs, histVars, events>>

-----------------------------------------------------------------------------
\* The program ends, or crashes, perhaps in a save, and is started again.
Restart ==
  /\ Event
  /\ file' \in {file, [state |-> "torn", list |-> <<>>]}
  /\ LET list == IF file'.state = "torn" THEN <<>> ELSE file.list
     IN tree' = Shown(list, {}, {})
  /\ torn' = (torn \/ file'.state = "torn")
  /\ answered' = IF file'.state = "torn" THEN {} ELSE answered
  /\ dialogs' = <<>> /\ detecting' = {} /\ jobs' = {} /\ tabs' = {}
  /\ password' = {} /\ offered' = {} /\ installing' = {}
  /\ UNCHANGED <<mine, behind, stale, checks>>

Next ==
  \/ AskToAdd \/ AskToChange("edit") \/ AskToChange("remove") \/ Cancel
  \/ Add \/ RemoveMachine \/ \E t \in Targets : Edit(t)
  \/ \E i \in DOMAIN tree : Expand(i) \/ Collapse(i) \/ \E tool \in ToolIds : OpenTool(i, tool)
  \/ CloseTab
  \/ \E t \in jobs : CheckAnswers(t) \/ CheckFails(t) \/ CheckAsks(t)
  \/ Retry \/ GiveUp \/ InstallKey \/ \E k \in Keys : KeyInstalled(k)
  \/ Restart

Spec == Init /\ [][Next]_vars

-----------------------------------------------------------------------------
(* The properties.                                                         *)

\* The list holds the machines the user keeps, and no others, unless a crash
\* has cut off the file (then none are left, and the old servers, which are
\* only read when there is no file at all, do not come back).
MachinesKept == ~torn => KeysOf(List) = mine

\* What a check has found is what the list says, until the machine is edited:
\* an answer is not overwritten by the list of a dialog.  Not so of one that
\* came while such a dialog was open, nor of one asked of another container.
AnswersKept ==
  \A k \in answered \ (behind \union stale) :
    \E i \in DOMAIN List : List[i].key = k /\ List[i].tools = Found(Target(List[i]))

\* The tools listed under a machine are those of its own container, or those
\* the old lists had it under.
ToolsOfTarget ==
  \A i \in DOMAIN List :
    \/ List[i].tools \in {Unknown, Found(Target(List[i]))}
    \/ List[i].key \in stale \/ List[i] \in ToSet(Migrated)

\* A machine that is said to be checked is, or the user is being asked for
\* what the check lacks.  Not so of the second of two machines that were
\* edited to be the same.
CheckingEnds ==
  \A i \in DOMAIN tree :
    tree[i].show = "checking" =>
      \/ tree[i].key \in detecting
      \/ \E d \in DOMAIN dialogs : dialogs[d].kind = "ask" /\ dialogs[d].target.key = tree[i].key
      \/ \E j \in 1..(i - 1) : tree[j].key = tree[i].key

CockpitFollows == MachinesKept /\ AnswersKept /\ ToolsOfTarget /\ CheckingEnds
=============================================================================

-------------------------- MODULE IdentityBrowser --------------------------
(***************************************************************************)
(* The identity management view (modules/identity_management): the devices *)
(* and users of a JumpCloud organisation, the projects of the gcloud       *)
(* account and who may use them.  All lists and details are asked for in   *)
(* background jobs whose answers come in any order, or not at all.  The    *)
(* JumpCloud key is stored encrypted, and may need a passphrase: asking    *)
(* for it is a modal dialog, under which timers and answers go on.         *)
(***************************************************************************)
EXTENDS Naturals, Sequences, FiniteSetsExt, Functions

CONSTANTS
  Fields,    \* of a device's page, of a call each; its users are as its key
  Budgets    \* bounds of the model: how often of each kind something happens

Kinds == {"events", "looks", "changes"}   \* changes are those of the account
\* Of the constants; an ASSUME of the module that instantiates this one.
FieldsAssumption == Fields \subseteq {"detail", "recovery"}
BudgetsAssumption == Budgets \subseteq [Kinds -> Nat]

Keys == {"old", "new"}            \* API keys, of two organisations
GcloudAccounts == {"a", "b"}
Projects == {"p", "q"}
ListKinds == {"devices", "projects"}       \* the users are as the devices
Devices == {"d1", "d2", "d3"}
PageLimit == 1                    \* LIST_PAGE_LIMIT

VARIABLES
  keyFile, locked,    \* the stored key; whether a passphrase is needed
  left,               \* whether the first device has left its organisation
  gcloud, news,       \* the account; one not announced yet
  cached,             \* _cached_api_key
  prompts,            \* passphrase dialogs, the last in front, by what goes on after
  signedIn, eventSeen,     \* _gcp_signed_in, _gcp_account_event_seen
  rows, status,       \* the tables: what they list, and their status line
  searching, leaves,  \* the search box, and its results in the tree
  page,               \* of the stack
  currentRow,         \* in the devices' table, 0 for none
  device, fields,     \* _selected_device; what its page shows
  project, bindings,  \* _selected_gcp_project; its table and status line
  calls,              \* background jobs
  lastAsked,          \* history: the last time each list was asked for, by number;
  lastKey,            \*   the key of the last refresh;
  failed, overtaken,  \*   whether that failed, or an older answer came after it;
  shifted,            \*   a device left while the devices shown were listed
  unasked,            \*   nothing was asked of the device selected
  opened, budget      \* whether the view is made; what is left of the bounds

worldVars == <<keyFile, locked, left, gcloud, news>>
keyVars == <<cached, prompts, lastKey>>
gcpVars == <<signedIn, eventSeen>>
listVars == <<rows, status, leaves, lastAsked, failed, overtaken, shifted>>
detailVars == <<page, currentRow, device, fields, unasked>>
projectVars == <<project, bindings>>
bounds == <<opened, budget>>
vars == <<worldVars, keyVars, gcpVars, listVars, searching, detailVars, projectVars, calls, bounds>>

NoRows == [devices |-> <<>>, projects |-> "nobody"]
NoBindings == [of |-> "none", status |-> ""]

Calls ==
  [what : ListKinds \union Fields \union {"account", "bindings"},
   key : Keys \union {"none"}, about : Devices \union Projects \union {"none"},
   got : Seq(Devices), skip : 0..3, answer : GcloudAccounts \union {"nobody", "unread", "read"},
   moved : BOOLEAN, id : Nat]

TypeOK ==
  /\ {keyFile, cached, lastKey} \subseteq Keys \union {"none"}
  /\ {opened, locked, left, signedIn, eventSeen, searching, shifted, unasked} \subseteq BOOLEAN
  /\ gcloud \in GcloudAccounts \union {"nobody"} /\ news \in GcloudAccounts \union {"nobody", "none"}
  /\ prompts \in Seq({"open", "refresh"} \union Devices)
  /\ \A r \in {rows, leaves} : r.devices \in Seq(Devices)
                                /\ r.projects \in GcloudAccounts \union {"nobody"}
  /\ status \in [ListKinds -> {"", "loading", "message"}]
  /\ page \in ListKinds \union {"placeholder", "device", "user", "project"}
  /\ currentRow \in 0..3 /\ device \in Devices \union {"none"}
  /\ DOMAIN fields = Fields
  /\ \A f \in Fields : fields[f] \in Devices \union {"loading", "unavailable"}
  /\ project \in Projects \union {"none"} /\ bindings.of \in Projects \union {"none"}
  /\ \A c \in calls : c \in Calls
  /\ DOMAIN failed = ListKinds /\ DOMAIN overtaken = ListKinds

Init ==
  /\ keyFile \in {"none", "old"} /\ locked \in BOOLEAN /\ left = FALSE
  /\ gcloud \in {"nobody", "a"} /\ news = "none" 
  /\ cached = "none" /\ prompts = <<>> /\ lastKey = "none"
  /\ signedIn = FALSE /\ eventSeen = FALSE
  /\ rows = NoRows /\ leaves = NoRows /\ status = [c \in ListKinds |-> "message"]
  /\ searching = FALSE /\ page = "placeholder" /\ currentRow = 0
  /\ device = "none" /\ fields = [f \in Fields |-> "loading"]
  /\ project = "none" /\ bindings = NoBindings /\ calls = {}
  /\ lastAsked = [c \in ListKinds |-> 0] /\ failed = [c \in ListKinds |-> FALSE]
  /\ overtaken = failed /\ shifted = FALSE /\ unasked = FALSE
  /\ opened = FALSE /\ budget \in Budgets

-----------------------------------------------------------------------------
\* list_devices: what the organisation has, by name.
Org(key) ==
  CASE key = "old" -> IF left THEN <<"d2">> ELSE <<"d1", "d2">>
    [] key = "new" -> <<"d3">>

\* run_in_background; jobs are told apart by their number.
Number == 1 + Max({c.id : c \in calls} \union {lastAsked[c] : c \in ListKinds})
Job(what, key, about) ==
  [what |-> what, key |-> key, about |-> about, got |-> <<>>, skip |-> 0,
   answer |-> "unread", moved |-> FALSE, id |-> Number]

\* _on_search_text_changed: the results are of what is listed now.
Searched(listed) == IF searching THEN listed ELSE NoRows

\* A list is asked for.
Ask(cs) ==
  /\ status' = [c \in ListKinds |-> IF c \in cs THEN "loading" ELSE status[c]]
  /\ lastAsked' = [c \in ListKinds |-> IF c \in cs THEN Number ELSE lastAsked[c]]
  /\ failed' = [c \in ListKinds |-> failed[c] /\ c \notin cs]
  /\ overtaken' = [c \in ListKinds |-> overtaken[c] /\ c \notin cs]

\* The rest of refresh, with the key or without one: then the projects are not
\* asked for either.
Refreshed(key, opening) ==
  LET asked == IF key = "none" THEN {}
               ELSE {"devices"} \union (IF signedIn THEN {"projects"} ELSE {})
      first == IF opening THEN {Job("account", "none", "none")} ELSE {}
  IN /\ calls' = calls \union first
                   \union {Job(c, IF c = "projects" THEN "none" ELSE key, "none") : c \in asked}
     /\ IF key = "none"
        THEN /\ rows' = [NoRows EXCEPT !.projects = rows.projects]
             /\ leaves' = Searched(rows')
             /\ status' = [status EXCEPT !["devices"] = "message"]
             /\ lastAsked' = [lastAsked EXCEPT !["devices"] = Number]
             /\ failed' = [failed EXCEPT !["devices"] = FALSE]
             /\ overtaken' = [overtaken EXCEPT !["devices"] = FALSE]
             /\ currentRow' = 0
        ELSE Ask(asked) /\ UNCHANGED <<rows, leaves, currentRow>>
     /\ lastKey' = key /\ UNCHANGED shifted

\* _show_device_detail: its calls are made with a key; without one its fields
\* stay as they are.
DetailCalls(key, d) == IF key = "none" THEN {} ELSE {Job(f, key, d) : f \in Fields}

Detail(d, others) ==
  /\ device' = d /\ page' = "device" /\ fields' = [f \in Fields |-> "loading"]
  /\ IF cached # "none" \/ keyFile = "none" \/ ~locked
     THEN LET key == IF cached # "none" THEN cached ELSE keyFile
          IN /\ calls' = others \union DetailCalls(key, d) /\ unasked' = (key = "none")
             /\ cached' = key /\ UNCHANGED prompts
     ELSE /\ prompts' = Append(prompts, d) /\ calls' = others
          /\ UNCHANGED <<cached, unasked>>
  /\ UNCHANGED lastKey

-----------------------------------------------------------------------------
(* The user, and the timer.                                                *)

Spend(kind) == budget[kind] > 0 /\ budget' = [budget EXCEPT ![kind] = @ - 1]
Free == prompts = <<>>     \* no modal dialog

\* refresh, also of the timer, and as the view is made: the key is read anew.
Refresh(opening) ==
  /\ Spend("events") /\ opening = ~opened /\ opened' = TRUE
  /\ IF keyFile = "none" \/ ~locked
     THEN Refreshed(keyFile, opening) /\ cached' = keyFile /\ UNCHANGED prompts
     ELSE /\ cached' = "none"
          /\ prompts' = Append(prompts, IF opening THEN "open" ELSE "refresh")
          /\ UNCHANGED <<listVars, calls, currentRow, lastKey>>
  /\ UNCHANGED <<worldVars, gcpVars, searching, page, device, fields, unasked, projectVars>>

\* The passphrase is given, or not, or a wrong one.
Unlock(right) ==
  /\ ~Free /\ prompts' = SubSeq(prompts, 1, Len(prompts) - 1)
  /\ UNCHANGED bounds
  /\ LET key == IF right THEN keyFile ELSE "none"
         then == prompts[Len(prompts)]
     IN /\ cached' = (IF right /\ key # "none" THEN key ELSE cached)
        /\ IF then \in {"open", "refresh"} THEN Refreshed(key, then = "open")
           ELSE calls' = calls \union DetailCalls(key, then)
                  /\ UNCHANGED <<listVars, currentRow, lastKey>>
        /\ unasked' = (IF then = device THEN key = "none" ELSE unasked)
  /\ UNCHANGED <<worldVars, gcpVars, searching, page, device, fields, projectVars>>

\* _on_devices_table_selection_changed, the table having been opened.
SelectRow(i) ==
  /\ Spend("looks") /\ opened /\ UNCHANGED opened /\ Free
  /\ i \in DOMAIN rows.devices /\ i # currentRow
  /\ currentRow' = i /\ Detail(rows.devices[i], calls)
  /\ UNCHANGED <<worldVars, gcpVars, listVars, searching, projectVars>>

\* _on_tree_item_clicked: a result, or a category.
SelectLeaf(i) ==
  /\ Spend("looks") /\ opened /\ UNCHANGED opened /\ Free /\ i \in DOMAIN leaves.devices
  /\ Detail(leaves.devices[i], calls)
  /\ UNCHANGED <<worldVars, gcpVars, listVars, searching, currentRow, projectVars>>

SelectCategory(c) ==
  /\ Spend("looks") /\ opened /\ UNCHANGED opened /\ Free /\ page # c /\ page' = c
  /\ UNCHANGED <<worldVars, keyVars, gcpVars, listVars, searching, currentRow, device, fields,
                 unasked, projectVars, calls>>

\* _show_user_detail, from the table of users or a result.
SelectUser ==
  /\ Spend("looks") /\ opened /\ UNCHANGED opened /\ Free /\ rows.devices # <<>>
  /\ page' = "user" /\ device' = "none"
  /\ UNCHANGED <<worldVars, keyVars, gcpVars, listVars, searching, currentRow, fields, unasked,
                 projectVars, calls>>

\* _show_gcp_project_detail, from the table or a result.
SelectProject(p) ==
  /\ Spend("looks") /\ opened /\ UNCHANGED opened /\ Free
  /\ rows.projects # "nobody"
  /\ project' = p /\ page' = "project"
  /\ bindings' = [NoBindings EXCEPT !.status = "loading"]
  /\ calls' = calls \union {Job("bindings", "none", p)}
  /\ UNCHANGED <<worldVars, keyVars, gcpVars, listVars, searching, currentRow, device, fields, unasked>>

Search ==
  /\ Spend("looks") /\ opened /\ UNCHANGED opened /\ Free 
  /\ searching' = ~searching /\ leaves' = (IF searching THEN NoRows ELSE rows)
  /\ UNCHANGED <<worldVars, keyVars, gcpVars, rows, status, lastAsked, failed, overtaken, shifted,
                 detailVars, projectVars, calls>>

-----------------------------------------------------------------------------
(* The world.                                                              *)

\* save_jumpcloud_api_key in Settings.
SetKey(k) ==
  /\ Spend("events") /\ opened /\ UNCHANGED opened /\ Free /\ k # keyFile /\ keyFile' = k
  /\ UNCHANGED <<locked, left, gcloud, news, keyVars, gcpVars, listVars, searching, detailVars,
                 projectVars, calls>>

\* The first device leaves.
Leave ==
  /\ Spend("events") /\ opened /\ UNCHANGED opened /\ ~left /\ left' = TRUE
  /\ calls' = {[c EXCEPT !.moved = @ \/ (c.key = "old" /\ c.skip > 0)] : c \in calls}
  /\ UNCHANGED <<keyFile, locked, gcloud, news, keyVars, gcpVars, listVars, searching,
                 detailVars, projectVars>>

\* _do_gcp_sign_out, and signing in or out in another module: the account is
\* changed, and then announced.
ChangeAccount(x) ==
  /\ Spend("changes") /\ opened /\ UNCHANGED opened /\ Free /\ news = "none" /\ x # gcloud
  /\ gcloud' = x /\ news' = x
  /\ UNCHANGED <<keyFile, locked, left, keyVars, gcpVars, listVars, searching, detailVars,
                 projectVars, calls>>

\* _apply_gcp_account.
Apply(x, others) ==
  IF x # "nobody"
  THEN /\ signedIn' = TRUE /\ Ask({"projects"}) /\ UNCHANGED <<rows, leaves, shifted>>
       /\ calls' = others \union {Job("projects", "none", "none")}
  ELSE /\ signedIn' = FALSE /\ rows' = [rows EXCEPT !.projects = "nobody"]
       /\ leaves' = Searched(rows') /\ status' = [status EXCEPT !["projects"] = "message"]
       /\ lastAsked' = [lastAsked EXCEPT !["projects"] = Number]
       /\ calls' = others /\ UNCHANGED <<failed, overtaken, shifted>>

\* _on_gcp_account_changed; a table that is emptied has no current row.
Announced ==
  /\ news # "none" /\ news' = "none" /\ eventSeen' = TRUE /\ UNCHANGED bounds
  /\ UNCHANGED searching /\ Apply(news, calls)
  /\ UNCHANGED <<keyFile, locked, left, gcloud, keyVars, detailVars, projectVars>>

-----------------------------------------------------------------------------
(* The calls.                                                              *)

\* A page of list_devices: until one is not full.
ReadPage(c) ==
  /\ c \in calls /\ c.what = "devices" /\ c.answer = "unread"
  /\ LET results == SubSeq(Org(c.key), c.skip + 1,
                           Min({c.skip + PageLimit, Len(Org(c.key))}))
         read == [c EXCEPT !.got = @ \o results]
     IN calls' = (calls \ {c}) \union
                   {IF Len(results) < PageLimit THEN [read EXCEPT !.answer = "read"]
                    ELSE [read EXCEPT !.skip = @ + PageLimit]}
  /\ UNCHANGED <<worldVars, keyVars, gcpVars, listVars, searching, detailVars, projectVars, bounds>>

\* The account, projects and bindings are those of the account there is.
ReadAs(c) ==
  /\ c \in calls /\ c.what \in {"account", "projects", "bindings"} /\ c.answer = "unread"
  /\ calls' = (calls \ {c}) \union {[c EXCEPT !.answer = gcloud]}
  /\ UNCHANGED <<worldVars, keyVars, gcpVars, listVars, searching, detailVars, projectVars, bounds>>

Listed(c, listed) ==
  /\ rows' = listed /\ leaves' = Searched(listed) /\ status' = [status EXCEPT ![c.what] = ""]
  /\ overtaken' = [overtaken EXCEPT ![c.what] = c.id < lastAsked[c.what]]
  /\ UNCHANGED <<lastAsked, failed>>

\* _populate_devices, and _populate_users: when the current row is among
\* those that go, the last that stays becomes the current one, still with the
\* device it had: its page opens.
DevicesListed(c) ==
  /\ c \in calls /\ c.what = "devices" /\ c.answer = "read" /\ UNCHANGED <<searching, bounds>>
  /\ Listed(c, [rows EXCEPT !.devices = c.got]) /\ shifted' = c.moved
  /\ IF currentRow > Len(c.got) /\ c.got # <<>>
     THEN /\ currentRow' = Len(c.got)
          /\ Detail(rows.devices[Len(c.got)], calls \ {c})
     ELSE /\ calls' = calls \ {c} /\ currentRow' = (IF c.got = <<>> THEN 0 ELSE currentRow)
          /\ UNCHANGED <<unasked, device, page, fields, keyVars>>
  /\ UNCHANGED <<worldVars, gcpVars, projectVars>>

\* _populate_gcp_projects.
ProjectsListed(c) ==
  /\ c \in calls /\ c.what = "projects" /\ c.answer \in GcloudAccounts /\ calls' = calls \ {c}
  /\ UNCHANGED <<searching, bounds>>
  /\ IF signedIn THEN Listed(c, [rows EXCEPT !.projects = c.answer]) /\ UNCHANGED shifted
     ELSE UNCHANGED listVars
  /\ UNCHANGED <<worldVars, keyVars, gcpVars, detailVars, projectVars>>

\* _on_startup_gcp_account_checked: unless a change was announced before.
AccountChecked(c) ==
  /\ c \in calls /\ c.what = "account" /\ c.answer # "unread" /\ UNCHANGED <<searching, bounds>>
  /\ IF eventSeen THEN calls' = calls \ {c} /\ UNCHANGED <<listVars, signedIn>>
     ELSE Apply(c.answer, calls \ {c})
  /\ UNCHANGED <<worldVars, keyVars, eventSeen, detailVars, projectVars>>

\* _populate_device_detail, _populate_bound_users, _populate_recovery_key: only of
\* the device selected.
FieldRead(c) ==
  /\ c \in calls /\ c.what \in Fields /\ calls' = calls \ {c}
  /\ fields' = (IF device = c.about THEN [fields EXCEPT ![c.what] = c.about] ELSE fields)
  /\ UNCHANGED <<worldVars, keyVars, gcpVars, listVars, searching, page, currentRow, device,
                 unasked, projectVars, bounds>>

\* _populate_gcp_iam_bindings: only of the project selected.
BindingsRead(c) ==
  /\ c \in calls /\ c.what = "bindings" /\ c.answer \in GcloudAccounts /\ calls' = calls \ {c}
  /\ IF project = c.about
     THEN bindings' = [of |-> c.about, status |-> ""]
     ELSE UNCHANGED bindings
  /\ UNCHANGED <<worldVars, keyVars, gcpVars, listVars, searching, detailVars, project, bounds>>

\* _on_load_error, _on_gcp_projects_load_error, _on_gcp_auth_error,
\* _on_detail_error and _on_gcp_iam_load_error; nobody can read projects.
CallFails(c) ==
  /\ c \in calls /\ calls' = calls \ {c}
  /\ failed' = [d \in ListKinds |->
                  failed[d] \/ (c.what = d /\ c.id = lastAsked[d])
                    \/ (c.what = "account" /\ d = "projects" /\ ~eventSeen)]
  /\ fields' = (IF c.what = "recovery" /\ c.about = device /\ device # "none"
                THEN [fields EXCEPT ![c.what] = "unavailable"] ELSE fields)
  /\ bindings' = (IF c.what = "bindings" THEN [bindings EXCEPT !.status = "failed"] ELSE bindings)
  /\ UNCHANGED <<worldVars, keyVars, gcpVars, rows, status, leaves, lastAsked, overtaken, shifted,
                 searching, page, currentRow, device, unasked, project, bounds>>

Next ==
  \/ \E b \in BOOLEAN : Refresh(b) \/ Unlock(b)
  \/ \E i \in 1..2 : SelectRow(i) \/ SelectLeaf(i)
  \/ \E c \in ListKinds : SelectCategory(c)
  \/ \E p \in Projects : SelectProject(p)
  \/ SelectUser \/ Search \/ Leave \/ Announced
  \/ \E k \in Keys \union {"none"} : SetKey(k)
  \/ \E x \in GcloudAccounts \union {"nobody"} : ChangeAccount(x)
  \/ \E c \in calls :
       \/ ReadPage(c) \/ ReadAs(c) \/ CallFails(c)
       \/ DevicesListed(c) \/ ProjectsListed(c)
       \/ AccountChecked(c) \/ FieldRead(c) \/ BindingsRead(c)

Spec == Init /\ [][Next]_vars

-----------------------------------------------------------------------------
(* The properties.                                                         *)

Under(what) == {c \in calls : c.what = what}
Listable(key) ==
  CASE key = "old" -> {"d1", "d2"} [] key = "new" -> {"d3"} [] OTHER -> {}

\* What a page shows is of what was selected, whatever came late; but a failure
\* of another project's is shown too (_on_gcp_iam_load_error does not ask whose).
PageIsSelected ==
  /\ \A f \in Fields : fields[f] \in {"loading", "unavailable", device} \/ device = "none"
  /\ bindings.of \in {"none", project}

\* Once all is answered, a list is what was asked for last: none without a key,
\* or signed out, else the key's and the account's. Not so where the last request
\* failed, and not where an older answer came after it: it is taken for it.
ListsAreTheLast ==
  /\ Under("devices") = {} /\ ~failed["devices"] /\ ~overtaken["devices"] =>
       Range(rows.devices) \subseteq Listable(lastKey) /\ (rows.devices = <<>> => lastKey = "none")
  /\ Under("projects") = {} /\ Under("account") = {} /\ news = "none"
       /\ opened /\ "open" \notin Range(prompts)
       /\ ~failed["projects"] /\ ~overtaken["projects"] =>
       rows.projects = gcloud
  /\ ~signedIn => rows.projects = "nobody"

\* A list of devices is that of its organisation, then or now, unless one left
\* while its pages were read: another is then left out.
NoDeviceMissed ==
  rows.devices \in {<<>>, <<"d1", "d2">>, <<"d2">>, <<"d3">>} \/ shifted

\* The search shows what is listed.
LeavesAreListed == leaves = (IF searching THEN rows ELSE NoRows)

\* "Loading..." is said of what is being asked for, or of a list or device that
\* failed, or of a device for which there was no key.
LoadingEnds ==
  /\ \A c \in ListKinds : status[c] = "loading" => Under(c) # {} \/ failed[c]
  /\ fields["recovery"] = "loading" /\ device # "none" =>
       \/ \E c \in Under("recovery") : c.about = device
       \/ device \in Range(prompts) \/ unasked
  /\ bindings.status = "loading" => \E c \in Under("bindings") : c.about = project

BrowserFollows ==
  PageIsSelected /\ ListsAreTheLast /\ NoDeviceMissed /\ LeavesAreListed /\ LoadingEnds
=============================================================================

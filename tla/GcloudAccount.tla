--------------------------- MODULE GcloudAccount ---------------------------
(***************************************************************************)
(* The gcloud account as three views see it: the settings page, where one  *)
(* signs in (modules/settings/ui/main_view.py), the connection manager's   *)
(* tree (modules/connection_manager/ui/main_view.py) and identity          *)
(* management (modules/identity_management/ui/main_view.py).  gcloud is    *)
(* run on the pool's threads (core/auth/gcp_auth.py), each job in two      *)
(* steps: what it asks of gcloud, and, at any time later, its answer to    *)
(* Qt's thread.  A change is announced to the three views at once          *)
(* (core/auth/auth_events.py).                                             *)
(*                                                                         *)
(* Nobody else changes the account.  Of a list of projects, only that      *)
(* there is one is kept.                                                   *)
(***************************************************************************)
EXTENDS Naturals, FiniteSets, Sequences

CONSTANTS
  Accounts,
  Nobody,
  Unread,    \* what a job holds that has not asked gcloud yet,
  Token,     \* and one that was given the account's token
  MaxJobs    \* bound of the model: with so many jobs out, none is asked for

ASSUME AccountsAssumption ==
  /\ Accounts \intersect {Nobody, Unread, Token} = {}
  /\ Nobody # Unread /\ Nobody # Token /\ Unread # Token
  /\ (Accounts \union {Nobody}) \intersect {"checking", "busy", "error"} = {}
  /\ MaxJobs \in Nat

VARIABLES
  gcloud,    \* the active account in gcloud's own files
  settings,  \* the settings page: what it shows and its two buttons
  manager,   \* the tree's _account, _all_projects, GCP root, its projects
  dialogs,   \* the project dialogs that are open, the innermost first
  chosen,    \* projects have been selected once: the setting exists
  identity,  \* _gcp_signed_in, _gcp_account_event_seen, _gcp_projects
  jobs,      \* the jobs that have not been answered
  changesCrossed,  \* two changes of the account were under way at once
  unsure,    \* views whose check at the start failed or came too late
  lateList   \* the tree's projects were being listed when someone signed out

accountVars == <<gcloud, settings, manager, dialogs, chosen, identity, jobs,
                 changesCrossed, unsure, lateList>>

Views == {"settings", "manager", "identity"}
Anyone == Accounts \union {Nobody}

AccountJob ==
  [id : Nat, what : {"check", "list", "select", "sign in", "sign out"},
   view : Views, got : Anyone \union {Unread, Token}]

AccountTypeOK ==
  /\ gcloud \in Anyone
  /\ settings \in [shown : Anyone \union {"checking", "busy", "error"},
                   canSignIn : BOOLEAN, canSignOut : BOOLEAN]
  /\ manager \in [account : Anyone, projects : BOOLEAN, root : BOOLEAN,
                  tree : BOOLEAN]
  /\ dialogs \in Seq({"first", "select"})
  /\ chosen \in BOOLEAN /\ changesCrossed \in BOOLEAN /\ lateList \in BOOLEAN
  /\ identity \in [signedIn : BOOLEAN, seen : BOOLEAN, projects : BOOLEAN]
  /\ jobs \subseteq AccountJob
  /\ unsure \subseteq Views

NewJob(n, what, view) ==
  [id |-> n, what |-> what, view |-> view, got |-> Unread]

AccountInit ==
  /\ gcloud \in Anyone
  /\ settings = [shown |-> "checking", canSignIn |-> FALSE,
                 canSignOut |-> FALSE]
  /\ manager = [account |-> Nobody, projects |-> FALSE, root |-> FALSE,
                tree |-> FALSE]
  /\ dialogs = <<>> /\ chosen \in BOOLEAN
  /\ identity = [signedIn |-> FALSE, seen |-> FALSE, projects |-> FALSE]
  /\ jobs = {NewJob(0, "check", v) : v \in Views}
  /\ changesCrossed = FALSE /\ unsure = {} /\ lateList = FALSE

-----------------------------------------------------------------------------
(* gcloud, on the pool's threads.                                          *)

Lists(j) == j.what \in {"list", "select"}

\* The account is read, or set by the browser's part of signing in, or
\* revoked; the token with which projects are listed is the account's.
Asks ==
  \E j \in jobs, account \in Anyone :
    /\ j.got = Unread
    /\ IF j.what = "sign in" THEN account # Nobody ELSE account = gcloud
    /\ Lists(j) => account # Nobody
    /\ gcloud' = IF j.what = "sign out" THEN Nobody ELSE account
    /\ jobs' = (jobs \ {j}) \union {[j EXCEPT !.got = IF Lists(j) THEN Token ELSE account]}
    /\ UNCHANGED <<settings, manager, dialogs, chosen, identity,
                   changesCrossed, unsure, lateList>>

\* A job may fail before it has changed anything; a list after it was asked
\* for, and signing in when it finds no account at its end.
MayFail(j) ==
  \/ j.got = Unread
  \/ Lists(j)
  \/ j.what = "sign in" /\ gcloud = Nobody

-----------------------------------------------------------------------------
(* What the user and the timer ask for.  An open dialog blocks the user.   *)

IsChange(j) == j.what \in {"sign in", "sign out"}

\* A number no job has.
Fresh == CHOOSE n \in 1 .. Cardinality(jobs) + 1 : \A j \in jobs : j.id # n

StartJob(what, view) ==
  /\ Cardinality(jobs) < MaxJobs
  /\ jobs' = jobs \union {NewJob(Fresh, what, view)}

Change(what, view) ==
  /\ dialogs = <<>>
  /\ StartJob(what, view)
  /\ changesCrossed' = (changesCrossed \/ \E j \in jobs : IsChange(j))
  /\ UNCHANGED <<gcloud, manager, dialogs, chosen, identity, unsure, lateList>>

SignInClicked ==
  /\ settings.canSignIn
  /\ settings' = [settings EXCEPT !.shown = "busy", !.canSignIn = FALSE]
  /\ Change("sign in", "settings")

SignOutClicked ==
  /\ settings.canSignOut
  /\ settings' = [settings EXCEPT !.shown = "busy", !.canSignOut = FALSE]
  /\ Change("sign out", "settings")

\* The menus of the tree's GCP root and of identity management's.
DoSignOut ==
  /\ \/ /\ manager.root /\ manager.account # Nobody
        /\ Change("sign out", "manager")
     \/ identity.signedIn /\ Change("sign out", "identity")
  /\ UNCHANGED settings

\* Bound of the model: nothing is listed again for a view it is listed for.
Listed(view) ==
  ~\E j \in jobs : Lists(j) /\ j.view = view

SelectProjectsClicked ==
  /\ dialogs = <<>> /\ Listed("manager")
  /\ manager.root /\ manager.account # Nobody
  /\ StartJob("select", "manager")
  /\ UNCHANGED <<gcloud, settings, manager, dialogs, chosen, identity,
                 changesCrossed, unsure, lateList>>

\* refresh, by hand or every few minutes.
Refresh ==
  /\ identity.signedIn /\ Listed("identity")
  /\ StartJob("list", "identity")
  /\ UNCHANGED <<gcloud, settings, manager, dialogs, chosen, identity,
                 changesCrossed, unsure, lateList>>

-----------------------------------------------------------------------------
(* Qt's thread takes the answers, in any order.                            *)

Ended(what, view) ==
  {j \in jobs : j.what = what /\ j.view = view /\ j.got # Unread}
Failed(what) == {j \in jobs : j.what = what /\ MayFail(j)}

\* _set_gcloud_account
Show(account) ==
  [shown |-> account, canSignIn |-> TRUE, canSignOut |-> account # Nobody]

\* manager._set_signed_in and _set_signed_out: the projects that are shown
\* stay until the new account's are listed.
ManagerOf(account) ==
  IF account = Nobody
    THEN [account |-> Nobody, projects |-> FALSE, root |-> FALSE,
          tree |-> FALSE]
    ELSE [manager EXCEPT !.account = account]

\* identity._set_gcp_signed_in and _set_gcp_signed_out
IdentityOf(account) ==
  IF account = Nobody
    THEN [identity EXCEPT !.signedIn = FALSE, !.projects = FALSE]
    ELSE [identity EXCEPT !.signedIn = TRUE]

\* Who has signed in has the projects listed for these views.
ListFor(account, views, answered) ==
  IF account = Nobody
    THEN jobs' = jobs \ {answered}
    ELSE jobs' = (jobs \ {answered}) \union
                   {NewJob(Fresh, "list", v) : v \in views}

Forget(j) == jobs' = jobs \ {j}

\* account_changed: all three views follow at once.
Announce(j, account) ==
  /\ settings' = Show(account)
  /\ manager' = ManagerOf(account)
  /\ identity' = [IdentityOf(account) EXCEPT !.seen = TRUE]
  /\ ListFor(account, {"manager", "identity"}, j)
  /\ lateList' = (lateList \/ (account = Nobody /\ ~Listed("manager")))
  /\ unsure' = {}
  /\ UNCHANGED <<gcloud, dialogs, chosen, changesCrossed>>

\* sign_in() reads the account again before it returns it.
AccountChanged ==
  \/ \E j \in Ended("sign in", "settings") :
       gcloud # Nobody /\ Announce(j, gcloud)
  \/ \E v \in Views : \E j \in Ended("sign out", v) : Announce(j, Nobody)

\* _on_gcloud_error; the two other views only show a message.
ChangeFails ==
  \E j \in Failed("sign in") \union Failed("sign out") :
    /\ settings' = IF j.view = "settings"
                     THEN [shown |-> "error", canSignIn |-> TRUE,
                           canSignOut |-> TRUE]
                     ELSE settings
    /\ Forget(j)
    /\ UNCHANGED <<gcloud, manager, dialogs, chosen, identity,
                   changesCrossed, unsure, lateList>>

\* A check that could not be made shows nobody there.
SettingsChecked ==
  \E j \in jobs :
    /\ j.what = "check" /\ j.view = "settings"
    /\ settings' = Show(IF j.got = Unread THEN Nobody ELSE j.got)
    /\ unsure' = IF j.got # Unread /\ ~identity.seen
                   THEN unsure ELSE unsure \union {"settings"}
    /\ Forget(j)
    /\ UNCHANGED <<gcloud, manager, dialogs, chosen, identity,
                   changesCrossed, lateList>>

\* _on_startup_account_checked of the tree does not ask whether the account
\* has changed since ...
ManagerChecked ==
  \E j \in Ended("check", "manager") :
    /\ manager' = IF j.got = Nobody THEN manager ELSE ManagerOf(j.got)
    /\ ListFor(j.got, {"manager"}, j)
    /\ unsure' = IF identity.seen THEN unsure \union {"manager"} ELSE unsure
    /\ UNCHANGED <<gcloud, settings, dialogs, chosen, identity,
                   changesCrossed, lateList>>

\* Mutant of StartupAccount: identity management trusts a late check, too.
StartupAnyway(j) ==
  /\ identity' = IdentityOf(j.got)
  /\ ListFor(j.got, {"identity"}, j)

\* ... and identity management's does.
StartupAccount(j) ==
  IF identity.seen
    THEN Forget(j) /\ UNCHANGED identity
    ELSE identity' = IdentityOf(j.got) /\ ListFor(j.got, {"identity"}, j)

IdentityChecked ==
  \E j \in Ended("check", "identity") :
    /\ StartupAccount(j)
    /\ UNCHANGED <<gcloud, settings, manager, dialogs, chosen,
                   changesCrossed, unsure, lateList>>

CheckFails ==
  \E j \in Failed("check") :
    /\ j.view # "settings"
    /\ unsure' = IF identity.seen THEN unsure ELSE unsure \union {j.view}
    /\ Forget(j)
    /\ UNCHANGED <<gcloud, settings, manager, dialogs, chosen,
                   identity, changesCrossed, lateList>>

\* _apply_project_selection
Applied(m) == [m EXCEPT !.root = TRUE, !.tree = m.projects]

\* _populate_projects: with nothing selected yet it asks first.
PopulateProjects ==
  \E j \in Ended("list", "manager") :
    LET listed == [manager EXCEPT !.projects = TRUE]
    IN  /\ IF chosen
             THEN manager' = Applied(listed) /\ UNCHANGED dialogs
             ELSE manager' = listed /\ dialogs' = <<"first">> \o dialogs
        /\ Forget(j)
        /\ UNCHANGED <<gcloud, settings, chosen, identity,
                       changesCrossed, unsure, lateList>>

\* _open_project_selection_dialog
OpenSelection ==
  \E j \in Ended("select", "manager") :
    /\ manager' = [manager EXCEPT !.projects = TRUE]
    /\ dialogs' = <<"select">> \o dialogs
    /\ Forget(j)
    /\ UNCHANGED <<gcloud, settings, chosen, identity, changesCrossed,
                   unsure, lateList>>

\* The innermost dialog ends: of the projects there are now, those selected
\* are shown.  Cancelling the first one shows none of them.
DialogAccepted ==
  /\ dialogs # <<>>
  /\ dialogs' = Tail(dialogs)
  /\ chosen' = TRUE
  /\ manager' = Applied(manager)
  /\ UNCHANGED <<gcloud, settings, identity, jobs, changesCrossed,
                 unsure, lateList>>

DialogRejected ==
  /\ dialogs # <<>>
  /\ dialogs' = Tail(dialogs)
  /\ manager' = IF Head(dialogs) = "first"
                  THEN [manager EXCEPT !.root = TRUE, !.tree = FALSE]
                  ELSE manager
  /\ UNCHANGED <<gcloud, settings, chosen, identity, jobs,
                 changesCrossed, unsure, lateList>>

\* _populate_gcp_projects: signed out while the list was loading?
PopulateGcpProjects ==
  \E j \in Ended("list", "identity") :
    /\ identity' = IF identity.signedIn
                     THEN [identity EXCEPT !.projects = TRUE] ELSE identity
    /\ Forget(j)
    /\ UNCHANGED <<gcloud, settings, manager, dialogs, chosen,
                   changesCrossed, unsure, lateList>>

ListFails ==
  \E j \in Failed("list") \union Failed("select") :
    /\ Forget(j)
    /\ UNCHANGED <<gcloud, settings, manager, dialogs, chosen,
                   identity, changesCrossed, unsure, lateList>>

-----------------------------------------------------------------------------
UserStep ==
  \/ SignInClicked \/ SignOutClicked \/ DoSignOut \/ SelectProjectsClicked
  \/ Refresh \/ DialogAccepted \/ DialogRejected

ViewStep ==
  \/ AccountChanged \/ ChangeFails \/ SettingsChecked \/ ManagerChecked
  \/ IdentityChecked \/ CheckFails \/ PopulateProjects \/ OpenSelection
  \/ PopulateGcpProjects \/ ListFails

AccountNext == Asks \/ UserStep \/ ViewStep

AccountSpec == AccountInit /\ [][AccountNext]_accountVars

-----------------------------------------------------------------------------
Quiet == ~\E j \in jobs : IsChange(j) \/ j.what = "check"

\* With no change under way the views agree with gcloud, unless two changes
\* were made at once, or a view's first check went wrong.
QuietViewsAgree ==
  Quiet /\ ~changesCrossed =>
    /\ "identity" \notin unsure => identity.signedIn = (gcloud # Nobody)
    /\ "settings" \notin unsure => settings.shown \in {gcloud, "error"}
    /\ "manager" \notin unsure => manager.account = gcloud

\* Of nobody's account, identity management lists no projects; the tree does
\* only when they were being listed as somebody signed out.
NobodyHasNoProjects ==
  /\ ~identity.signedIn => ~identity.projects
  /\ manager.account = Nobody /\ ~lateList => ~manager.tree

(* The views come to agree with gcloud about who is signed in, and show no *)
(* projects of an account that was signed out; the exceptions named above  *)
(* are the code's.                                                         *)
AccountsAgree == QuietViewsAgree /\ NobodyHasNoProjects
=============================================================================

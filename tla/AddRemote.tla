------------------------------ MODULE AddRemote ------------------------------
(***************************************************************************)
(* The wizard that adds an rclone remote (modules/cloud_storage/ui/        *)
(* add_remote_dialog.py), with the calls of core/rclone_client.py it makes *)
(* in the background and the list of remotes that is read again after it   *)
(* (main_view.py).  Its pages are built anew each time they are shown; a   *)
(* call knows the buttons of the page it was made from, and reads the name *)
(* of the remote when it runs.  A remote is made at once, or rclone asks a *)
(* question, and the answer to it goes on from where that one was.         *)
(*                                                                         *)
(* Left out: what is filled in for a provider, and the providers' filter.  *)
(***************************************************************************)
EXTENDS Naturals, Bags

CONSTANTS
  Names,         \* of remotes
  Questions,     \* of each type of provider: how many rclone asks
  MaxEvents,     \* bound of the model: refreshes, failures, options; a wizard is two
  MaxCalls       \* bound of the model: the calls under way when one is made

\* Of the constants; an ASSUME of the module that instantiates this one.
RemotesAssumption ==
  /\ Questions \in [DOMAIN Questions -> Nat]
  /\ "" \notin Names \union DOMAIN Questions
  /\ {MaxEvents, MaxCalls} \subseteq Nat

VARIABLES
  config,        \* rclone's: of each name the type, and the questions left
  page,          \* of the dialog; "none" when there is none
  dialogs,       \* how many there have been
  providers,     \* _providers has been loaded
  typed,         \* _name_edit and the provider selected, of the first page
  remote,        \* _remote_name and _selected_provider
  state,         \* _pending_state: of the question
  enabled,       \* the buttons of the page
  calls,
  listed,        \* the remotes in the tree
  now,           \* history: how often the configuration has changed
  listedAt,      \* history: when the remotes in the tree were read
  sent,          \* history: this dialog has made a call that changes it
  accepted,      \* history: the remote that the last dialog was accepted for
  thrownBack,    \* history: the providers took the user back to the first page
  crossed,       \* history: the user went on while such a call was under way
  misread,       \* history: a call was made for other than was shown
  lost,          \* history: an error was not shown
  excused,       \* history: the tree need not show what there is
  events

dialogVars == <<page, dialogs, providers, typed, remote, state, enabled, sent>>
treeVars == <<listed, listedAt>>
history == <<accepted, thrownBack, crossed, misread, lost, excused>>
vars == <<config, now, dialogVars, calls, treeVars, history, events>>

Types == DOMAIN Questions
Unnamed == [name |-> "", type |-> ""]
Named == [name : Names \union {""}, type : Types \union {""}]
NoRemote == [type |-> "", left |-> 0]
Remotes == {n \in Names : config[n].type # ""}

\* live: the buttons of the page it was made from still exist.  Of the remote
\* shown is what the page was for, and target what it is done to.
Call == [kind : {"providers", "create", "answer", "list"}, dialog : Nat,
         live : BOOLEAN, begun : BOOLEAN, shown : Named, target : Named,
         asked : Nat, state : Nat, answer : {"waiting", "failed", "ok"},
         left : Nat, found : SUBSET Names, read : Nat]
Ask(kind) ==
  [kind |-> kind, dialog |-> dialogs, live |-> TRUE,
   begun |-> kind \in {"providers", "list"}, shown |-> Unnamed,
   target |-> Unnamed, asked |-> 0, state |-> 0, answer |-> "waiting",
   left |-> 0, found |-> {}, read |-> 0]

TypeOK ==
  /\ config \in [Names -> [type : Types \union {""}, left : Nat]]
  /\ page \in {"none", "type", "form", "question"}
  /\ {dialogs, state, now, listedAt, events} \subseteq Nat
  /\ {typed, remote} \subseteq Named
  /\ {providers, enabled, sent, thrownBack, crossed, misread, lost, excused} \subseteq BOOLEAN
  /\ IsABag(calls) /\ BagToSet(calls) \subseteq Call
  /\ listed \subseteq Names /\ accepted \in Names \union {""}

\* CloudStorageView, with its refresh_remotes.
Init ==
  /\ config = [n \in Names |-> NoRemote]
  /\ page = "none" /\ dialogs = 0 /\ providers = FALSE /\ typed = Unnamed
  /\ remote = Unnamed /\ state = 0 /\ enabled = FALSE /\ sent = FALSE
  /\ calls = SetToBag({[Ask("list") EXCEPT !.dialog = 0]})
  /\ listed = {} /\ now = 1 /\ listedAt = 0 /\ accepted = ""
  /\ thrownBack = FALSE /\ crossed = FALSE /\ misread = FALSE /\ lost = FALSE
  /\ excused = FALSE /\ events = 0

Open(c) == page # "none" /\ c.dialog = dialogs
Making == {c \in BagToSet(calls) : c.kind \in {"create", "answer"}}
GoesOn == crossed' = (crossed \/ Making # {})
Event == events < MaxEvents /\ events' = events + 1

-----------------------------------------------------------------------------
(* The user.                                                               *)

\* A page is built: the buttons of the one before it are deleted.
Built(bag) ==
  LET Left(c) == IF Open(c) THEN [c EXCEPT !.live = FALSE] ELSE c
  IN BagOfAll(Left, bag)

\* _on_add_remote_clicked, and the dialog's __init__.
AddRemote ==
  /\ page = "none" /\ BagCardinality(calls) < MaxCalls
  /\ events + 2 <= MaxEvents /\ events' = events + 2
  /\ dialogs' = dialogs + 1
  /\ page' = "type" /\ providers' = FALSE /\ typed' = Unnamed
  /\ remote' = Unnamed /\ state' = 0 /\ enabled' = TRUE /\ sent' = FALSE
  /\ calls' = calls (+) SetToBag({[Ask("providers") EXCEPT !.dialog = dialogs']})
  /\ accepted' = "" /\ GoesOn
  /\ UNCHANGED <<config, now, treeVars, thrownBack, misread, lost, excused>>

pageFrame == <<config, now, dialogs, providers, sent, treeVars, accepted,
               thrownBack, misread, lost, excused>>

Type(n) ==
  /\ page = "type" /\ typed' = [typed EXCEPT !.name = n]
  /\ UNCHANGED <<pageFrame, page, remote, state, enabled, calls, crossed, events>>

\* Of the list, which is empty until the providers have been loaded.
Select(t) ==
  /\ page = "type" /\ providers /\ typed' = [typed EXCEPT !.type = t]
  /\ UNCHANGED <<pageFrame, page, remote, state, enabled, calls, crossed, events>>

\* _on_next_clicked: its button needs a name and a provider.
NextPage ==
  /\ page = "type" /\ typed.name # "" /\ typed.type # ""
  /\ page' = "form" /\ remote' = typed /\ enabled' = TRUE
  /\ calls' = Built(calls) /\ GoesOn
  /\ UNCHANGED <<pageFrame, typed, state, events>>

\* _on_advanced_toggled: not one of the buttons, which are new after it.
ToggleAdvanced ==
  /\ page = "form" /\ Event
  /\ enabled' = TRUE /\ calls' = Built(calls) /\ GoesOn
  /\ UNCHANGED <<pageFrame, page, typed, remote, state>>

Back ==
  /\ page = "form" /\ enabled
  /\ page' = "type" /\ typed' = Unnamed
  /\ calls' = Built(calls) /\ GoesOn
  /\ UNCHANGED <<pageFrame, remote, state, enabled, events>>

\* _on_create_clicked and _on_submit_question.
Sends(kind) ==
  /\ enabled /\ BagCardinality(calls) < MaxCalls
  /\ enabled' = FALSE /\ sent' = TRUE /\ GoesOn
  /\ calls' = calls (+) SetToBag({[Ask(kind) EXCEPT !.shown = remote, !.asked = state]})
  /\ UNCHANGED <<config, now, page, dialogs, providers, typed, remote, state, treeVars,
                 accepted, thrownBack, misread, lost, excused, events>>
Create == page = "form" /\ Sends("create")
Submit == page = "question" /\ Sends("answer")

\* A call reads what the dialog has when it runs.
Reads(c) == [c EXCEPT !.begun = TRUE, !.target = remote, !.state = state]

\* reject: by Cancel, or by Escape while the buttons are disabled.  The calls
\* find the dialog as it is left now.
Reject ==
  LET Leaves(c) == IF Open(c) /\ ~c.begun THEN Reads(c) ELSE c
  IN /\ page # "none" /\ page' = "none"
     /\ calls' = BagOfAll(Leaves, calls)
     /\ excused' = (excused \/ sent)
     /\ UNCHANGED <<config, now, dialogs, providers, typed, remote, state, enabled, sent,
                    treeVars, accepted, thrownBack, crossed, misread, lost, events>>

\* refresh_remotes, by its menus.
Refresh ==
  /\ page = "none" /\ Event /\ BagCardinality(calls) < MaxCalls
  /\ calls' = calls (+) SetToBag({Ask("list")})
  /\ UNCHANGED <<config, now, dialogVars, treeVars, history>>

-----------------------------------------------------------------------------
(* The threads of the pool, and rclone.                                    *)

Becomes(c, d) == calls' = (calls (-) SetToBag({c})) (+) SetToBag({d})
callFrame == <<dialogVars, treeVars, accepted, thrownBack, crossed, lost>>

Begin(c) ==
  /\ ~c.begun
  /\ Becomes(c, Reads(c))
  /\ misread' = (misread \/ remote # c.shown \/ (c.kind = "answer" /\ state # c.asked))
  /\ UNCHANGED <<config, now, callFrame, excused, events>>

Waits(c) == c.begun /\ c.answer = "waiting"

\* _parse_config_step: rclone asks what is left, or is done.
Left(c) == IF c.kind = "create" THEN Questions[c.target.type] ELSE c.state - 1

\* config create replaces what has the name; config update goes on with it.
Made(c) ==
  IF c.kind = "create"
  THEN [config EXCEPT ![c.target.name] = [type |-> c.target.type, left |-> Left(c)]]
  ELSE [config EXCEPT ![c.target.name].left = Left(c)]

\* Nothing lists the remotes again after a call of a dialog that was left.
Makes(c) ==
  /\ config' = Made(c) /\ now' = now + 1
  /\ excused' = (excused \/ ~Open(c))

Serve(c) ==
  /\ Waits(c)
  /\ IF c \in Making
     THEN Makes(c) /\ Becomes(c, [c EXCEPT !.answer = "ok", !.left = Left(c)])
     ELSE /\ UNCHANGED <<config, now, excused>>
          /\ Becomes(c, [c EXCEPT !.answer = "ok", !.found = Remotes, !.read = now])
  /\ UNCHANGED <<callFrame, misread, events>>

\* rclone fails, or is killed by the timeout and may have changed something.
Fail(c) ==
  /\ Waits(c) /\ Event
  /\ Becomes(c, [c EXCEPT !.answer = "failed"])
  /\ \/ UNCHANGED <<config, now, excused>>
     \/ c \in Making /\ Makes(c)
  /\ UNCHANGED <<callFrame, misread>>

-----------------------------------------------------------------------------
(* The answers.                                                            *)

Rest(c) == calls (-) SetToBag({c})
Answers(c, kinds) == c.answer = "ok" /\ c.kind \in kinds
answerFrame == <<config, now, dialogs, sent, misread, lost, events>>

\* _on_providers_loaded: its first page is built again, whatever is shown; and
\* the one of a dialog that was closed too, where nobody sees it.
ProvidersLoaded(c) ==
  /\ Answers(c, {"providers"})
  /\ IF Open(c)
     THEN /\ providers' = TRUE /\ page' = "type" /\ typed' = Unnamed
          /\ enabled' = TRUE /\ calls' = Built(Rest(c))
          /\ thrownBack' = (thrownBack \/ page # "type")
     ELSE calls' = Rest(c) /\ UNCHANGED <<providers, page, typed, enabled, thrownBack>>
  /\ UNCHANGED <<answerFrame, remote, state, treeVars, accepted, crossed, excused>>

\* _on_step_result: accept, after which the remotes are listed.
StepDone(c) ==
  /\ Answers(c, {"create", "answer"}) /\ c.left = 0
  /\ IF Open(c)
     THEN /\ page' = "none" /\ accepted' = c.target.name
          /\ LET Leaves(d) == IF Open(d) /\ ~d.begun THEN Reads(d) ELSE d
             IN calls' = BagOfAll(Leaves, Rest(c)) (+) SetToBag({Ask("list")})
     ELSE calls' = Rest(c) /\ UNCHANGED <<page, accepted>>
  /\ UNCHANGED <<answerFrame, providers, typed, remote, state, enabled, treeVars,
                 thrownBack, crossed, excused>>

\* _show_question.
StepAsks(c) ==
  /\ Answers(c, {"create", "answer"}) /\ c.left > 0
  /\ IF Open(c)
     THEN /\ page' = "question" /\ state' = c.left /\ enabled' = TRUE
          /\ calls' = Built(Rest(c))
     ELSE calls' = Rest(c) /\ UNCHANGED <<page, state, enabled>>
  /\ UNCHANGED <<answerFrame, providers, typed, remote, treeVars, accepted,
                 thrownBack, crossed, excused>>

\* _on_remotes_loaded.
Listed(c) ==
  /\ Answers(c, {"list"}) /\ calls' = Rest(c)
  /\ listed' = c.found /\ listedAt' = c.read
  /\ excused' = IF c.read < listedAt THEN TRUE
                ELSE IF c.read = now THEN FALSE ELSE excused
  /\ UNCHANGED <<answerFrame, page, providers, typed, remote, state, enabled,
                 accepted, thrownBack, crossed>>

\* _on_error: it enables the buttons of its page, and raises if they are gone,
\* before the error is shown.
Failed(c) ==
  /\ c.answer = "failed" /\ calls' = Rest(c)
  /\ enabled' = (enabled \/ (c \in Making /\ Open(c) /\ c.live))
  /\ lost' = (lost \/ (c \in Making /\ ~c.live))
  /\ excused' = (excused \/ c.kind = "list")
  /\ UNCHANGED <<config, now, page, dialogs, providers, typed, remote, state, sent,
                 treeVars, accepted, thrownBack, crossed, misread, events>>

Next ==
  \/ AddRemote \/ NextPage \/ ToggleAdvanced \/ Back \/ Create \/ Submit
  \/ Reject \/ Refresh
  \/ \E n \in Names : Type(n)
  \/ \E t \in Types : Select(t)
  \/ \E c \in BagToSet(calls) :
       \/ Begin(c) \/ Serve(c) \/ Fail(c) \/ ProvidersLoaded(c)
       \/ StepDone(c) \/ StepAsks(c) \/ Listed(c) \/ Failed(c)

Spec == Init /\ [][Next]_vars

-----------------------------------------------------------------------------
(* Providers that are late never take the user back from a later page, as  *)
(* the comment on it promises.                                             *)
NotThrownBack == ~thrownBack

(* The dialog closes by itself only when the remote is there and rclone has*)
(* nothing left to ask; a remote has the name and the type that were shown,*)
(* and an answer goes to the question it was given to.  (Not when the user *)
(* goes on while a call of the wizard is under way, as the box of the      *)
(* advanced options, and Escape with a new wizard, let him.)               *)
MadeAsShown ==
  ~crossed =>
    /\ accepted # "" => config[accepted].type # "" /\ config[accepted].left = 0
    /\ ~misread

(* A failure is shown, with the page it came from to try again, under the  *)
(* same condition.                                                         *)
ErrorsAreShown ==
  ~crossed => /\ ~lost
              /\ page # "none" /\ ~enabled => \E c \in Making : Open(c)

(* Once nothing is under way the tree lists the remotes that there are.    *)
(* (Not when they could not be listed, an older list came last, or the     *)
(* dialog was left after a call that may make one.)                        *)
TreeListsRemotes ==
  calls = EmptyBag /\ page = "none" /\ ~excused => listed = Remotes

WizardFollows ==
  NotThrownBack /\ MadeAsShown /\ ErrorsAreShown /\ TreeListsRemotes
=============================================================================

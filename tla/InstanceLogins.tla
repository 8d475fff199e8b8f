--------------------------- MODULE InstanceLogins ---------------------------
(***************************************************************************)
(* The logins of one Compute Engine instance (connection_manager's view,   *)
(* gcp_client.py, the secrets of core/settings.py): a password that is     *)
(* reset through the guest's agent, a public key that is uploaded, and the *)
(* login that Connect via RDP will use.                                    *)
(*                                                                         *)
(* Both changes read the metadata of the instance and write all of it, if  *)
(* nobody has written in between; they run on threads of their own, while  *)
(* dialogs, whose loops deliver answers too, show what was saved before.   *)
(* A password is the number of the job that set it, 0 for one of the       *)
(* user's own.  Left out: what the prompts say, and the copy button.       *)
(***************************************************************************)
EXTENDS Naturals, Sequences

CONSTANTS
  Users, Nobody,
  MaxJobs,     \* bounds of the model: of the changes asked for,
  MaxEvents    \* and of the user's and the server's other doings

\* Of the constants; an ASSUME of the module that instantiates this one.
UsersAssumption == Nobody \notin Users
BoundsAssumption == MaxJobs \in Nat /\ MaxEvents \in Nat

VARIABLES
  defaultUser, \* the default username
  jobs,        \* the changes asked for, in order
  metadata,    \* the requests and the keys of the instance
  running,     \* the instance is
  account,     \* each user's password in the guest
  serial,      \* what the agent has printed
  answers,     \* to the view
  saved,       \* _instance_rdp_credentials of the instance, or Nobody's
  file,        \* the same, in the settings
  sshUser,     \* _instance_ssh_username_overrides of the instance
  identity,    \* the SSH key: its number, and whether its .pub is there
  dialog,      \* RdpCredentialsDialog: whether open, and with which login
  shown,       \* a PasswordResetDialog is open
  status,      \* the status bar: the job it speaks of, or 0
  excused,     \* history: the saved password may be older than the account's
  overlapped,  \* history: two resets were under way at once
  events

serverVars == <<metadata, running, account, serial>>
savedVars == <<saved, file, sshUser>>
dialogVars == <<dialog, shown, status>>
histVars == <<excused, overlapped, events>>
vars == <<defaultUser, jobs, serverVars, answers, savedVars, identity,
          dialogVars, histVars>>

Passwords == 0..MaxJobs
Secrets == [password : Passwords, key : {1, 2}]
NoSecret == [password |-> 0, key |-> 0]
Logins == [user : Users \union {Nobody}, secret : Secrets \union {NoSecret}]
NoLogin == [user |-> Nobody, secret |-> NoSecret]
Metadata == [version : Nat, requests : SUBSET (1..MaxJobs), keys : SUBSET Users]
Jobs == [kind : {"reset", "key"}, user : Users, at : {"read", "post", "wait", "done", "failed"},
         seen : Metadata, before : Passwords]

TypeOK ==
  /\ defaultUser \in Users
  /\ jobs \in Seq(Jobs) /\ Len(jobs) <= MaxJobs
  /\ metadata \in Metadata
  /\ account \in [Users -> Passwords] /\ serial \subseteq 1..MaxJobs
  /\ answers \in Seq([job : 1..MaxJobs, ok : BOOLEAN])
  /\ {saved, file, dialog.login} \subseteq Logins
  /\ sshUser \in Users \union {Nobody}
  /\ identity \in [key : {1, 2}, pub : BOOLEAN]
  /\ status \in Passwords
  /\ {running, dialog.open, shown, excused, overlapped} \subseteq BOOLEAN
  /\ events \in 0..MaxEvents

Init ==
  /\ defaultUser \in Users /\ jobs = <<>>
  /\ metadata = [version |-> 0, requests |-> {}, keys |-> {}]
  /\ running = TRUE /\ account = [u \in Users |-> 0] /\ serial = {}
  /\ answers = <<>> /\ saved = NoLogin /\ file = NoLogin /\ sshUser = Nobody
  /\ identity = [key |-> 1, pub |-> TRUE]
  /\ dialog = [open |-> FALSE, login |-> NoLogin] /\ shown = FALSE /\ status = 0
  /\ excused = FALSE /\ overlapped = FALSE /\ events = 0

Event == events < MaxEvents /\ events' = events + 1

Resets == {j \in DOMAIN jobs : jobs[j].kind = "reset"}

\* Asked for, and not answered yet.
Open(j) ==
  jobs[j].at \notin {"done", "failed"} \/ \E i \in DOMAIN answers : answers[i].job = j

-----------------------------------------------------------------------------
(* The user, when no dialog is in the way.                                 *)

Free == ~dialog.open /\ ~shown

NewJob(kind, u) ==
  /\ Free /\ Len(jobs) < MaxJobs
  /\ jobs' = Append(jobs, [kind |-> kind, user |-> u, at |-> "read",
                           seen |-> metadata, before |-> status])

\* _on_set_instance_password_clicked, with _show_status.
SetPassword(u) ==
  /\ NewJob("reset", u) /\ status' = Len(jobs')
  /\ overlapped' = (overlapped \/ \E j \in Resets : Open(j))
  /\ UNCHANGED <<defaultUser, serverVars, answers, savedVars, identity, dialog,
                 shown, excused, events>>

\* _on_upload_ssh_key_clicked.
UploadKey(u) ==
  /\ NewJob("key", u)
  /\ UNCHANGED <<defaultUser, serverVars, answers, savedVars, identity,
                 dialogVars, histVars>>

\* _on_rdp_credentials_clicked: the login is read before the dialog opens.
OpenDialog ==
  /\ Free /\ Event
  /\ dialog' = [open |-> TRUE, login |-> saved]
  /\ UNCHANGED <<defaultUser, jobs, serverVars, answers, savedVars, identity,
                 shown, status, excused, overlapped>>

CloseDialog == dialog.open /\ ~shown /\ dialog' = [dialog EXCEPT !.open = FALSE]

DialogFrame == UNCHANGED <<defaultUser, jobs, serverVars, answers, sshUser,
                           identity, shown, status, overlapped, events>>

CancelDialog ==
  /\ CloseDialog /\ DialogFrame /\ UNCHANGED <<saved, file, excused>>

\* _store_instance_rdp_credentials.
Store(login) == saved' = login /\ file' = login

ClearLogin ==
  /\ CloseDialog /\ Store(NoLogin)
  /\ DialogFrame /\ UNCHANGED excused

Encrypted(p) == [password |-> p, key |-> identity.key]

\* A password has been typed.
TypeLogin(u) ==
  /\ CloseDialog
  /\ IF identity.pub
     THEN Store([user |-> u, secret |-> Encrypted(0)])
     ELSE UNCHANGED <<saved, file>>
  /\ DialogFrame /\ UNCHANGED excused

\* None has: that of the login shown is kept, for the same user.
KeepLogin(u) ==
  /\ CloseDialog
  /\ Store([user |-> u, secret |-> IF dialog.login.user = u
                                   THEN dialog.login.secret ELSE NoSecret])
  /\ excused' = (excused \/ saved # dialog.login)
  /\ DialogFrame

CloseShown ==
  /\ shown /\ shown' = FALSE
  /\ UNCHANGED <<defaultUser, jobs, serverVars, answers, savedVars, identity,
                 dialog, status, histVars>>

-----------------------------------------------------------------------------
(* The threads.                                                            *)

threadFrame == <<defaultUser, savedVars, identity, dialogVars, overlapped>>

Finish(j, ok) ==
  /\ jobs' = [jobs EXCEPT ![j].at = IF ok THEN "done" ELSE "failed"]
  /\ answers' = Append(answers, [job |-> j, ok |-> ok])

Read(j) ==
  /\ jobs[j].at = "read"
  /\ IF jobs[j].kind = "reset" /\ ~running
     THEN Finish(j, FALSE)
     ELSE /\ jobs' = [jobs EXCEPT ![j].at = "post", ![j].seen = metadata]
          /\ UNCHANGED answers
  /\ UNCHANGED <<serverVars, excused, events, threadFrame>>

\* What is written: all that was read, and the job's own line.  (A request
\* expires after the job has stopped to wait for it.)
Written(j) ==
  LET seen == jobs[j].seen IN
  [version |-> metadata.version + 1,
   requests |-> seen.requests \union {i \in {j} : jobs[i].kind = "reset"},
   keys |-> seen.keys \union {jobs[i].user : i \in {k \in {j} : jobs[k].kind = "key"}}]

\* setMetadata has the fingerprint of what was read.
Accepts(j) == jobs[j].at = "post" /\ metadata.version = jobs[j].seen.version

Post(j) ==
  /\ Accepts(j)
  /\ metadata' = Written(j)
  /\ IF jobs[j].kind = "key"
     THEN Finish(j, TRUE)
     ELSE jobs' = [jobs EXCEPT ![j].at = "wait"] /\ UNCHANGED answers
  /\ UNCHANGED <<running, account, serial, excused, events, threadFrame>>

PostRejected(j) ==
  /\ jobs[j].at = "post" /\ metadata.version # jobs[j].seen.version
  /\ Finish(j, FALSE)
  /\ UNCHANGED <<serverVars, excused, events, threadFrame>>

\* _wait_for_windows_password finds its own answer, however old, or gives up
\* after its timeout.
Found(j) ==
  /\ jobs[j].at = "wait" /\ j \in serial /\ Finish(j, TRUE)
  /\ UNCHANGED <<serverVars, excused, events, threadFrame>>

TimesOut(j) ==
  /\ Event /\ jobs[j].at = "wait" /\ Finish(j, FALSE)
  /\ excused' = TRUE
  /\ UNCHANGED <<serverVars, threadFrame>>

-----------------------------------------------------------------------------
(* The instance and its agent.                                             *)

Agent(j) ==
  /\ running /\ j \in metadata.requests \ serial
  /\ account' = [account EXCEPT ![jobs[j].user] = j]
  /\ serial' = serial \union {j}
  /\ UNCHANGED <<metadata, running, jobs, answers, excused, events, threadFrame>>

\* _run_instance_power_action.
Power ==
  /\ Event /\ running' = ~running
  /\ UNCHANGED <<metadata, account, serial, jobs, answers, excused, threadFrame>>

\* Another tool writes metadata of its own.
OtherWrites ==
  /\ Event /\ metadata' = [metadata EXCEPT !.version = @ + 1]
  /\ UNCHANGED <<running, account, serial, jobs, answers, excused, threadFrame>>

-----------------------------------------------------------------------------
(* The answers.                                                            *)

Answer(kind, ok) ==
  /\ answers # <<>> /\ Head(answers).ok = ok
  /\ jobs[Head(answers).job].kind = kind
  /\ answers' = Tail(answers)

\* The agent's last password was answered before this one.
Overtaken(j) ==
  LET newest == account[jobs[j].user] IN newest # j /\ ~Open(newest)

\* _on_password_reset; it may not be able to encrypt the password, or to
\* write the file.
PasswordReset ==
  /\ Answer("reset", TRUE) /\ shown' = TRUE
  /\ LET j == Head(answers).job
         login == [user |-> jobs[j].user, secret |-> Encrypted(j)]
     IN /\ status' = jobs[j].before
        /\ \/ /\ identity.pub /\ Store(login)
              /\ excused' = (excused \/ Overtaken(j)) /\ UNCHANGED events
           \/ /\ identity.pub /\ Event /\ saved' = login /\ UNCHANGED file
              /\ excused' = (excused \/ Overtaken(j))
           \/ /\ ~identity.pub /\ UNCHANGED <<saved, file, events>>
              /\ excused' = TRUE
  /\ UNCHANGED <<defaultUser, jobs, serverVars, sshUser, identity, dialog, overlapped>>

\* _on_password_reset_failed.
PasswordResetFailed ==
  /\ Answer("reset", FALSE)
  /\ status' = jobs[Head(answers).job].before
  /\ UNCHANGED <<defaultUser, jobs, serverVars, savedVars, identity, dialog,
                 shown, histVars>>

\* _on_ssh_key_uploaded.
KeyUploaded ==
  /\ Answer("key", TRUE)
  /\ LET u == jobs[Head(answers).job].user
     IN sshUser' = IF u # defaultUser THEN u ELSE sshUser
  /\ UNCHANGED <<defaultUser, jobs, serverVars, saved, file, identity,
                 dialogVars, histVars>>

KeyNotUploaded ==
  /\ Answer("key", FALSE)
  /\ UNCHANGED <<defaultUser, jobs, serverVars, savedVars, identity,
                 dialogVars, histVars>>

-----------------------------------------------------------------------------
(* The user's SSH key, and the settings.                                   *)

settingsFrame == <<jobs, serverVars, answers, savedVars, dialogVars, excused,
                   overlapped>>

NewIdentity ==
  /\ Event
  /\ identity' \in {[key |-> 2, pub |-> TRUE], [identity EXCEPT !.pub = ~@]}
  /\ UNCHANGED <<defaultUser, settingsFrame>>

SaveDefaultUser(u) ==
  /\ Event /\ Free /\ defaultUser' = u /\ u # defaultUser
  /\ UNCHANGED <<identity, settingsFrame>>

Next ==
  \/ \E u \in Users :
       \/ SetPassword(u) \/ UploadKey(u) \/ TypeLogin(u) \/ KeepLogin(u)
       \/ SaveDefaultUser(u)
  \/ OpenDialog \/ CancelDialog \/ ClearLogin \/ CloseShown
  \/ \E j \in DOMAIN jobs :
       Read(j) \/ Post(j) \/ PostRejected(j) \/ Found(j) \/ TimesOut(j) \/ Agent(j)
  \/ Power \/ OtherWrites
  \/ PasswordReset \/ PasswordResetFailed \/ KeyUploaded \/ KeyNotUploaded
  \/ NewIdentity

Spec == Init /\ [][Next]_vars

-----------------------------------------------------------------------------
\* _saved_rdp_password, which _start_session_from_instance signs in with.
SignsInWith ==
  IF saved.secret.key = identity.key THEN saved.secret.password ELSE 0

(* Connect via RDP signs in with the password that the account has, once   *)
(* every reset has been answered.  (Not if a reset timed out, which may    *)
(* have been done; if it could not be encrypted, which leaves the login    *)
(* before it; if two were answered in the other order; or if the dialog    *)
(* kept a password that had been replaced while it was open.)              *)
LoginIsCurrent ==
  (/\ SignsInWith # 0 /\ ~excused
   /\ \A j \in Resets : jobs[j].user = saved.user => ~Open(j))
     => account[saved.user] = SignsInWith

(* What was granted or asked for stays in the metadata, however the writes *)
(* of two jobs are interleaved, and SSH uses an account with a key.        *)
GrantsKept ==
  /\ \A j \in DOMAIN jobs :
       (jobs[j].kind = "key" /\ jobs[j].at = "done") => jobs[j].user \in metadata.keys
  /\ \A j \in Resets : jobs[j].at = "wait" => j \in metadata.requests
  /\ sshUser # Nobody => sshUser \in metadata.keys

(* When no reset is under way the status bar speaks of none, unless two    *)
(* overlapped: the later one brings back what it found, the earlier one's. *)
StatusEnds ==
  (~overlapped /\ \A j \in Resets : ~Open(j)) => status = 0

LoginsAgree == LoginIsCurrent /\ GrantsKept /\ StatusEnds
=============================================================================

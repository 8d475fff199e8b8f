----------------------------- MODULE AppUpdate -----------------------------
(***************************************************************************)
(* Updating the app in place on macOS: download_and_install_macos_update   *)
(* and the shell script it leaves behind to exchange the bundles           *)
(* (core/update_checker.py), started from the settings page                *)
(* (modules/settings/ui/main_view.py).                                     *)
(*                                                                         *)
(* Actors: the app, its pool thread that prepares the update, the script,  *)
(* the user, who may also run the app off a disk image, and a crash of the *)
(* machine.  What the file system does for mv and rm is modelled as they   *)
(* may be interrupted: a mv from another volume copies.                    *)
(***************************************************************************)
EXTENDS Naturals, TLAPS

CONSTANTS
  NewestApp,        \* versions are 1..NewestApp
  NoBundle,
  TornBundle,       \* a bundle that is incomplete
  MaxUpdateCrashes  \* bound of the model

AppVersions == 1..NewestApp

ASSUME BundlesAssumption ==
  /\ NewestApp \in Nat \ {0} /\ MaxUpdateCrashes \in Nat
  /\ NoBundle # TornBundle /\ {NoBundle, TornBundle} \intersect AppVersions = {}

VARIABLES
  target,        \* the bundle in the applications folder
  backup,        \* the same with ".old"
  newBundle,     \* the new bundle in the update's own folder
  runningApp,    \* the running app: its version and where its bundle is
  quitting,      \* the app has been asked to quit
  updateButtons, \* the update buttons are enabled
  updateJob,     \* what the pool's thread does next
  script,        \* what the script does next
  updateCrashes,
  stranded       \* history: the backup was all there was, and has been removed

updateVars ==
  <<target, backup, newBundle, runningApp, quitting, updateButtons, updateJob,
    script, updateCrashes, stranded>>

Bundles == AppVersions \union {NoBundle, TornBundle}
NoApp == [version |-> NoBundle, at |-> "nowhere"]
Apps == [version : AppVersions, at : {"target", "image"}] \union {NoApp}

UpdateTypeOK ==
  /\ target \in Bundles /\ backup \in Bundles /\ newBundle \in Bundles
  /\ runningApp \in Apps
  /\ quitting \in BOOLEAN /\ updateButtons \in BOOLEAN
  /\ updateJob \in {"idle", "download", "unpack", "hand over", "answer"}
  /\ script \in {"none", "wait", "clear", "put aside", "put in place",
                 "copy", "tidy", "undo", "put back", "open"}
  /\ updateCrashes \in 0..MaxUpdateCrashes
  /\ stranded \in BOOLEAN

\* The first version is installed and runs.
UpdateInit ==
  /\ target = 1 /\ backup = NoBundle /\ newBundle = NoBundle
  /\ runningApp = [version |-> 1, at |-> "target"] /\ quitting = FALSE
  /\ updateButtons = TRUE /\ updateJob = "idle"
  /\ script = "none"
  /\ updateCrashes = 0 /\ stranded = FALSE

AppRuns == runningApp # NoApp
UpdateFiles == <<target, backup, newBundle, stranded>>

-----------------------------------------------------------------------------
(* The app.                                                                *)

\* _on_install_update_clicked: of a version that is newer.
InstallUpdateClicked ==
  /\ AppRuns /\ ~quitting /\ updateButtons
  /\ runningApp.version < NewestApp
  /\ updateButtons' = FALSE
  /\ updateJob' = "download"
  /\ UNCHANGED <<UpdateFiles, runningApp, quitting, script, updateCrashes>>

\* _on_update_install_error
UpdateInstallError ==
  /\ updateJob' = "idle"
  /\ updateButtons' = TRUE

\* _download.  (Assumed: a script that was started before, for another update,
\* has ended by the time a download has.)
DownloadImage ==
  /\ updateJob = "download" /\ script = "none"
  /\ \/ updateJob' = "unpack" /\ UNCHANGED updateButtons
     \/ UpdateInstallError
  /\ UNCHANGED <<UpdateFiles, runningApp, quitting, script, updateCrashes>>

\* The image is attached, the bundle copied off it and the image detached; an
\* error removes the update's folder.
Unpack ==
  /\ updateJob = "unpack"
  /\ \/ /\ newBundle' \in {v \in AppVersions : v > runningApp.version}
        /\ updateJob' = "hand over" /\ UNCHANGED updateButtons
     \/ newBundle' = NoBundle /\ UpdateInstallError
  /\ UNCHANGED <<target, backup, stranded, runningApp, quitting, script,
                 updateCrashes>>

\* The script is started, unless that fails.
HandOver ==
  /\ updateJob = "hand over"
  /\ \/ /\ script' = "wait"
        /\ updateJob' = "answer" /\ UNCHANGED <<updateButtons, newBundle>>
     \/ newBundle' = NoBundle /\ UpdateInstallError /\ UNCHANGED script
  /\ UNCHANGED <<target, backup, stranded, runningApp, quitting, updateCrashes>>

\* _on_update_installed
UpdateInstalled ==
  /\ updateJob = "answer"
  /\ updateJob' = "idle"
  /\ quitting' = TRUE
  /\ UNCHANGED <<UpdateFiles, runningApp, updateButtons, script, updateCrashes>>

QuitToUpdate ==
  /\ AppRuns /\ ~quitting
  /\ quitting' = TRUE
  /\ UNCHANGED <<UpdateFiles, runningApp, updateButtons, updateJob, script,
                 updateCrashes>>

\* The end of the app waits for the pool's thread, and drops its answer.
AppEnds ==
  /\ quitting /\ updateJob \in {"idle", "answer"}
  /\ runningApp' = NoApp
  /\ quitting' = FALSE /\ updateJob' = "idle"
  /\ UNCHANGED <<UpdateFiles, updateButtons, script, updateCrashes>>

\* What is opened is a whole bundle, in the applications folder or on an image.
OpenApp(version, at) ==
  /\ runningApp' = [version |-> version, at |-> at]
  /\ quitting' = FALSE /\ updateButtons' = TRUE

UserStarts ==
  /\ ~AppRuns
  /\ \/ target \in AppVersions /\ OpenApp(target, "target")
     \/ \E v \in AppVersions : OpenApp(v, "image")
  /\ UNCHANGED <<UpdateFiles, updateJob, script, updateCrashes>>

\* The machine stops: what was being copied stays incomplete.
UpdateCrash ==
  /\ updateCrashes < MaxUpdateCrashes
  /\ updateCrashes' = updateCrashes + 1
  /\ runningApp' = NoApp /\ quitting' = FALSE /\ updateJob' = "idle"
  /\ script' = "none"
  /\ newBundle' = NoBundle
  /\ UNCHANGED <<target, backup, updateButtons, stranded>>

-----------------------------------------------------------------------------
(* The script, _MACOS_SWAP_SCRIPT.                                         *)

ScriptFrame == UNCHANGED <<updateButtons, updateJob, updateCrashes>>
AppFrame == UNCHANGED <<runningApp, quitting>>

\* It waits for the app's end, but for a minute only: the app may still run.
Waited ==
  /\ script = "wait"
  /\ script' = "clear"
  /\ UNCHANGED UpdateFiles /\ ScriptFrame /\ AppFrame

Clear ==
  /\ script = "clear"
  /\ backup' = NoBundle
  /\ stranded' = (stranded \/ (target \notin AppVersions /\ backup \in AppVersions))
  /\ script' = "put aside"
  /\ UNCHANGED <<target, newBundle>> /\ ScriptFrame /\ AppFrame

\* Mutant of PutAside: the installed bundle is removed to make room.
RemoveIt ==
  /\ script = "put aside"
  /\ target' = NoBundle
  /\ script' = "put in place"
  /\ UNCHANGED <<backup, newBundle, stranded>> /\ ScriptFrame /\ AppFrame

PutAside ==
  /\ script = "put aside"
  /\ \/ /\ target = NoBundle
        /\ script' = "put in place" /\ UNCHANGED <<target, backup>>
     \/ /\ target # NoBundle
        /\ backup' = target /\ target' = NoBundle
        /\ script' = "put in place"
     \/ target # NoBundle /\ script' = "open" /\ UNCHANGED <<target, backup>>
  /\ UNCHANGED <<newBundle, stranded>> /\ ScriptFrame /\ AppFrame

\* On one volume the bundle is there at once, or not at all; from another one
\* it is copied.
PutInPlace ==
  /\ script = "put in place"
  /\ \/ target' = newBundle /\ stranded' = FALSE /\ script' = "tidy"
     \/ target' = TornBundle /\ script' = "copy" /\ UNCHANGED stranded
     \/ script' = "undo" /\ UNCHANGED <<target, stranded>>
  /\ UNCHANGED <<backup, newBundle>> /\ ScriptFrame /\ AppFrame

CopyEnds ==
  /\ script = "copy"
  /\ \/ target' = newBundle /\ stranded' = FALSE /\ script' = "tidy"
     \/ script' = "undo" /\ UNCHANGED <<target, stranded>>
  /\ UNCHANGED <<backup, newBundle>> /\ ScriptFrame /\ AppFrame

Tidy ==
  /\ script = "tidy"
  /\ backup' = NoBundle
  /\ script' = "open"
  /\ UNCHANGED <<target, newBundle, stranded>> /\ ScriptFrame /\ AppFrame

Undo ==
  /\ script = "undo"
  /\ target' = NoBundle
  /\ script' = "put back"
  /\ UNCHANGED <<backup, newBundle, stranded>> /\ ScriptFrame /\ AppFrame

PutBack ==
  /\ script = "put back"
  /\ target' = backup /\ backup' = NoBundle
  /\ script' = "open"
  /\ UNCHANGED <<newBundle, stranded>> /\ ScriptFrame /\ AppFrame

\* An app that still runs is only brought to the front; the update's folder
\* goes.
OpenNew ==
  /\ script = "open"
  /\ script' = "none"
  /\ IF ~AppRuns /\ target \in AppVersions
       THEN OpenApp(target, "target") /\ UNCHANGED <<updateJob, updateCrashes>>
       ELSE AppFrame /\ ScriptFrame
  /\ newBundle' = NoBundle
  /\ UNCHANGED <<target, backup, stranded>>

-----------------------------------------------------------------------------
UpdateAppStep ==
  \/ InstallUpdateClicked \/ DownloadImage \/ Unpack \/ HandOver \/ UpdateInstalled
  \/ QuitToUpdate \/ AppEnds \/ UserStarts

ScriptStep ==
  \/ Waited \/ Clear \/ PutAside \/ PutInPlace \/ CopyEnds \/ Tidy \/ Undo
  \/ PutBack \/ OpenNew

UpdateNext == UpdateAppStep \/ ScriptStep \/ UpdateCrash

UpdateSpec == UpdateInit /\ [][UpdateNext]_updateVars

-----------------------------------------------------------------------------
Whole(bundle) == bundle \in AppVersions

\* A whole app is installed, under its name or as the backup.
AppIsKept == stranded \/ Whole(target) \/ Whole(backup)

\* The script opens a whole app; without a crash there is one in place unless
\* the script is exchanging them.
Exchanging == script \in {"put in place", "copy", "undo", "put back"}
AppIsInPlace ==
  /\ script = "open" => stranded \/ Whole(target)
  /\ updateCrashes = 0 /\ ~Exchanging => Whole(target)

(* Wherever an update fails or the machine stops, the app is not lost; the *)
(* one exception is an update off a disk image after a crash that had left *)
(* only the backup, which is removed before the new bundle is in place.    *)
AppSurvives == AppIsKept /\ AppIsInPlace

-----------------------------------------------------------------------------
(* The proofs, for any number of versions and of crashes: the types, and   *)
(* that the app is not lost.                                               *)

\* The job is the running app's; the new bundle is whole when the script is
\* started, and is not replaced while the script runs.
Prepared ==
  /\ updateJob # "idle" => AppRuns
  /\ updateJob = "hand over" \/ script # "none" => Whole(newBundle)
  /\ script # "none" => updateJob \in {"idle", "answer", "download"}

\* What is whole at each step of the script: the installed bundle before the
\* exchange and after it, the backup meanwhile.
WholeBefore == script = "put aside" => stranded \/ Whole(target)
WholeMeanwhile == Exchanging => (stranded /\ updateCrashes # 0) \/ Whole(backup)
WholeAfter == script = "tidy" => Whole(target)

UpdateInv ==
  UpdateTypeOK /\ Prepared /\ AppSurvives /\ WholeBefore /\ WholeMeanwhile /\ WholeAfter

LEMMA AppsHave ==
  /\ NoApp \in Apps
  /\ \A v \in AppVersions, at \in {"target", "image"} : [version |-> v, at |-> at] \in Apps
  BY DEF Apps

LEMMA UpdateCountsUp ==
  ASSUME NEW n \in 0..MaxUpdateCrashes, n < MaxUpdateCrashes
  PROVE  n + 1 \in 0..MaxUpdateCrashes /\ n + 1 # 0
  BY BundlesAssumption

LEMMA UpdateInitInv == UpdateInit => UpdateInv
<1> SUFFICES ASSUME UpdateInit PROVE UpdateInv
  OBVIOUS
<1>1. 1 \in AppVersions /\ 0 \in 0..MaxUpdateCrashes
  BY BundlesAssumption DEF AppVersions
<1>2. runningApp \in Apps /\ runningApp # NoApp
  <2>1. runningApp.at # NoApp.at
    BY DEF UpdateInit, NoApp
  <2> QED
    BY <1>1, <2>1, AppsHave DEF UpdateInit
<1>3. UpdateTypeOK
  BY <1>1, <1>2 DEF UpdateInit, UpdateTypeOK, Bundles
<1> QED
  BY <1>1, <1>2, <1>3 
     DEF UpdateInit, UpdateInv, Prepared, AppSurvives, AppIsKept, AppIsInPlace,
       Exchanging, WholeBefore, WholeMeanwhile, WholeAfter, Whole, AppRuns

LEMMA UpdateNextType ==
  UpdateTypeOK /\ Prepared /\ [UpdateNext]_updateVars => UpdateTypeOK'
<1> SUFFICES ASSUME UpdateTypeOK, Prepared, [UpdateNext]_updateVars PROVE UpdateTypeOK'
  OBVIOUS
<1> USE AppsHave DEF UpdateTypeOK, Bundles, UpdateFiles
<1>1. CASE InstallUpdateClicked
  BY <1>1 DEF InstallUpdateClicked
<1>2. CASE DownloadImage
  BY <1>2 DEF DownloadImage, UpdateInstallError
<1>3. CASE Unpack
  BY <1>3 DEF Unpack, UpdateInstallError
<1>4. CASE HandOver
  BY <1>4 DEF HandOver, UpdateInstallError
<1>5. CASE UpdateInstalled \/ QuitToUpdate \/ AppEnds
  BY <1>5 DEF UpdateInstalled, QuitToUpdate, AppEnds
<1>6. CASE UserStarts
  BY <1>6 DEF UserStarts, OpenApp
<1>7. CASE UpdateCrash
  <2>1. updateCrashes' \in 0..MaxUpdateCrashes
    BY <1>7, UpdateCountsUp DEF UpdateCrash
  <2> QED
    BY <1>7, <2>1 DEF UpdateCrash
<1>8. CASE Waited \/ Clear \/ PutAside \/ PutInPlace \/ CopyEnds \/ Tidy \/ Undo \/ PutBack
  BY <1>8 DEF Waited, Clear, PutAside, PutInPlace, CopyEnds, Tidy, Undo, PutBack,
       ScriptFrame, AppFrame
<1>9. CASE OpenNew
  BY <1>9 DEF OpenNew, OpenApp, ScriptFrame, AppFrame
<1>10. CASE UNCHANGED updateVars
  BY <1>10 DEF updateVars
<1> QED
  BY <1>1, <1>2, <1>3, <1>4, <1>5, <1>6, <1>7, <1>8, <1>9, <1>10
     DEF UpdateNext, UpdateAppStep, ScriptStep

LEMMA UpdateNextInv ==
  UpdateInv /\ [UpdateNext]_updateVars => UpdateInv'
<1> SUFFICES ASSUME UpdateInv, [UpdateNext]_updateVars PROVE UpdateInv'
  OBVIOUS
<1>t. UpdateTypeOK /\ UpdateTypeOK'
  BY UpdateNextType DEF UpdateInv
<1>n. NoBundle \notin AppVersions /\ TornBundle \notin AppVersions
  BY BundlesAssumption
<1> USE DEF UpdateInv, Prepared, AppSurvives, AppIsKept, AppIsInPlace, Exchanging,
      WholeBefore, WholeMeanwhile, WholeAfter, Whole, AppRuns, UpdateFiles
<1>1. CASE InstallUpdateClicked
  BY <1>1, <1>t DEF InstallUpdateClicked
<1>2. CASE DownloadImage
  BY <1>2, <1>t DEF DownloadImage, UpdateInstallError
<1>3. CASE Unpack
  BY <1>3, <1>t DEF Unpack, UpdateInstallError
<1>4. CASE HandOver
  BY <1>4, <1>t DEF HandOver, UpdateInstallError
<1>5. CASE UpdateInstalled \/ QuitToUpdate \/ AppEnds
  BY <1>5, <1>t DEF UpdateInstalled, QuitToUpdate, AppEnds
<1>6. CASE UserStarts
  BY <1>6, <1>t DEF UserStarts, OpenApp, NoApp, UpdateTypeOK
<1>7. CASE UpdateCrash
  <2>1. updateCrashes' # 0
    BY <1>7, <1>t, UpdateCountsUp DEF UpdateCrash, UpdateTypeOK
  <2> QED
    BY <1>7, <1>t, <2>1 DEF UpdateCrash
<1>8. CASE Waited
  BY <1>8, <1>t DEF Waited, ScriptFrame, AppFrame
<1>9. CASE Clear
  BY <1>9, <1>t DEF Clear, ScriptFrame, AppFrame
<1>10. CASE PutAside
  BY <1>10, <1>t, <1>n DEF PutAside, ScriptFrame, AppFrame
<1>11. CASE PutInPlace
  BY <1>11, <1>t DEF PutInPlace, ScriptFrame, AppFrame
<1>12. CASE CopyEnds
  BY <1>12, <1>t DEF CopyEnds, ScriptFrame, AppFrame
<1>13. CASE Tidy
  BY <1>13, <1>t DEF Tidy, ScriptFrame, AppFrame
<1>14. CASE Undo
  BY <1>14, <1>t DEF Undo, ScriptFrame, AppFrame
<1>15. CASE PutBack
  BY <1>15, <1>t DEF PutBack, ScriptFrame, AppFrame
<1>16. CASE OpenNew
  BY <1>16, <1>t DEF OpenNew, OpenApp, NoApp, ScriptFrame, AppFrame, UpdateTypeOK
<1>17. CASE UNCHANGED updateVars
  BY <1>17, <1>t DEF updateVars
<1> QED
  BY <1>1, <1>2, <1>3, <1>4, <1>5, <1>6, <1>7, <1>8, <1>9, <1>10, <1>11, <1>12, <1>13,
     <1>14, <1>15, <1>16, <1>17 DEF UpdateNext, UpdateAppStep, ScriptStep

\* The type invariant of the update, for any number of versions and crashes.
THEOREM AppTypeCorrect == UpdateSpec => []UpdateTypeOK
<1>1. UpdateInit => UpdateInv
  BY UpdateInitInv
<1>2. UpdateInv /\ [UpdateNext]_updateVars => UpdateInv'
  BY UpdateNextInv
<1>3. UpdateInv => UpdateTypeOK
  BY DEF UpdateInv
<1> QED
  BY <1>1, <1>2, <1>3, PTL DEF UpdateSpec

\* Wherever an update fails or the machine stops, a whole app is installed or kept
\* as the backup, the script opens a whole one, and without a crash one is in place
\* except while the bundles are exchanged; for any number of versions and crashes.
THEOREM AppNeverLost == UpdateSpec => []AppSurvives
<1>1. UpdateInit => UpdateInv
  BY UpdateInitInv
<1>2. UpdateInv /\ [UpdateNext]_updateVars => UpdateInv'
  BY UpdateNextInv
<1>3. UpdateInv => AppSurvives
  BY DEF UpdateInv
<1> QED
  BY <1>1, <1>2, <1>3, PTL DEF UpdateSpec
=============================================================================

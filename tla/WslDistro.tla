----------------------------- MODULE WslDistro -----------------------------
(***************************************************************************)
(* The Linux tools on Windows: the WSL distribution the app manages        *)
(* (core/wsl_distro.py), the backend that commands run through             *)
(* (core/linux_backend.py), the settings page that sets it up and removes  *)
(* it, and the QEMU part of the connection tree, which is there when the   *)
(* tools are.                                                              *)
(*                                                                         *)
(* Actors: the user, Qt's thread, one job on the pool's threads, and a     *)
(* crash of the app or of Windows.  An import by wsl.exe is registered     *)
(* while it is under way and may leave an incomplete distribution; a       *)
(* command that timed out may have had its effect.  The app is updated but *)
(* not downgraded, and nobody else touches the distribution.               *)
(***************************************************************************)
EXTENDS Naturals, TLAPS

CONSTANTS
  NewestTools,    \* versions of the distribution are 1..NewestTools
  NoDistro,       \* nothing is registered, or no version is named
  TornDistro,     \* a distribution that is incomplete
  MaxToolsCrashes \* bound of the model

ToolsVersions == 1..NewestTools

ASSUME VersionsAssumption ==
  /\ NewestTools \in Nat \ {0} /\ MaxToolsCrashes \in Nat
  /\ NoDistro # TornDistro /\ {NoDistro, TornDistro} \intersect ToolsVersions = {}

VARIABLES
  wsl,          \* WSL is installed
  distro,       \* what is registered
  marker,       \* the version that the file beside it names
  expected,     \* ROOTFS_VERSION of the app
  toolsApp,     \* the app runs
  backend,      \* the cached backend is a WslBackend; else it is None
  qemuTree,     \* the connection tree has its QEMU part
  toolsShown,   \* the state that the settings page shows
  toolsButtons, \* its buttons are enabled
  toolsJob,     \* what the job on the pool's thread does next
  toolsAnswer,  \* its end, waiting for Qt's thread
  toolsCrashes,
  leftover,     \* history: the marker of a removed distribution is still there
  unannounced   \* history: a job that failed has changed what is installed

toolsDisk == <<wsl, distro, marker, leftover>>
toolsViews == <<backend, qemuTree, toolsShown, toolsButtons>>
toolsVars ==
  <<toolsDisk, expected, toolsApp, toolsViews, toolsJob, toolsAnswer,
    toolsCrashes, unannounced>>

ToolsStates == {"no wsl", "not installed", "outdated", "ready"}

ToolsTypeOK ==
  /\ wsl \in BOOLEAN /\ toolsApp \in BOOLEAN
  /\ distro \in ToolsVersions \union {NoDistro, TornDistro}
  /\ marker \in ToolsVersions \union {NoDistro}
  /\ expected \in ToolsVersions
  /\ backend \in BOOLEAN /\ qemuTree \in BOOLEAN /\ toolsButtons \in BOOLEAN
  /\ toolsShown \in ToolsStates
  /\ toolsJob \in {"idle", "download", "replace", "make", "import", "mark", "sync",
              "remove", "erase", "use"}
  /\ toolsAnswer \in {"none", "installed", "removed", "used", "error"}
  /\ toolsCrashes \in 0..MaxToolsCrashes
  /\ leftover \in BOOLEAN /\ unannounced \in BOOLEAN

ToolsInit ==
  /\ wsl \in BOOLEAN /\ distro = NoDistro /\ marker = NoDistro
  /\ expected = 1 /\ toolsApp = FALSE
  /\ backend = FALSE /\ qemuTree = FALSE /\ toolsShown = "no wsl" /\ toolsButtons = TRUE
  /\ toolsJob = "idle" /\ toolsAnswer = "none"
  /\ toolsCrashes = 0 /\ leftover = FALSE /\ unannounced = FALSE

-----------------------------------------------------------------------------
\* status()
ToolsStatus(version) ==
  CASE ~wsl -> "no wsl"
    [] wsl /\ distro = NoDistro -> "not installed"
    [] wsl /\ distro # NoDistro /\ (marker = NoDistro \/ marker < version) -> "outdated"
    [] wsl /\ distro # NoDistro /\ marker # NoDistro /\ marker >= version -> "ready"
IsReady == ToolsStatus(expected) = "ready"

\* reset_backend(), and get_backend() by whoever asks next.
RereadBackend(version) == backend' = (ToolsStatus(version) = "ready")

\* _refresh_linux_tools_status
RefreshTools == toolsShown' = ToolsStatus(expected)

-----------------------------------------------------------------------------
(* The app and the user.                                                   *)

\* An update of the app may expect a newer distribution.
StartToolsApp ==
  /\ ~toolsApp
  /\ toolsApp' = TRUE
  /\ expected' \in {v \in ToolsVersions : v >= expected}
  /\ RereadBackend(expected') /\ qemuTree' = backend'
  /\ toolsShown' = ToolsStatus(expected') /\ toolsButtons' = TRUE
  /\ unannounced' = FALSE
  /\ UNCHANGED <<toolsDisk, toolsJob, toolsAnswer, toolsCrashes>>

\* The end of the app waits for its job.
ToolsAppEnds ==
  /\ toolsApp /\ toolsJob = "idle"
  /\ toolsApp' = FALSE /\ toolsAnswer' = "none"
  /\ UNCHANGED <<toolsDisk, expected, toolsViews, toolsJob, toolsCrashes,
                 unannounced>>

\* A marker that was being written may be empty then.
ToolsCrash ==
  /\ toolsApp /\ toolsCrashes < MaxToolsCrashes
  /\ toolsCrashes' = toolsCrashes + 1
  /\ toolsApp' = FALSE /\ toolsAnswer' = "none" /\ toolsJob' = "idle"
  /\ marker' \in {marker} \union {NoDistro : x \in {toolsJob} \intersect {"mark"}}
  /\ leftover' = (leftover /\ marker' # NoDistro)
  /\ UNCHANGED <<wsl, distro, expected, toolsViews, unannounced>>

\* The installer of WSL has done its work, and Windows has restarted if it must.
WslInstalled ==
  /\ ~wsl
  /\ wsl' = TRUE
  /\ UNCHANGED <<distro, marker, leftover, expected, toolsApp, toolsViews,
                 toolsJob, toolsAnswer, toolsCrashes, unannounced>>

ClickTools(state, next) ==
  /\ toolsApp /\ toolsButtons /\ toolsShown \in state
  /\ toolsButtons' = FALSE
  /\ toolsJob' = next
  /\ UNCHANGED <<toolsDisk, expected, toolsApp, backend, qemuTree, toolsShown,
                 toolsAnswer, toolsCrashes, unannounced>>

\* The installer runs in a window of its own.
StartWslInstall == ClickTools({"no wsl"}, "idle")

StartLinuxToolsInstall == ClickTools({"not installed", "outdated"}, "download")

\* Check Tools and Copy SSH Keys change nothing that is modelled here.
UseTools == backend /\ ClickTools({"ready"}, "use")

RemoveClicked == ClickTools({"outdated", "ready"}, "remove")

-----------------------------------------------------------------------------
(* The job: install(), with the keys copied at its end, remove() or a use  *)
(* of the tools.                                                           *)

Ends(how) == toolsJob' = "idle" /\ toolsAnswer' = how
Goes(next) == toolsJob' = next /\ UNCHANGED toolsAnswer
JobFrame == UNCHANGED <<wsl, expected, toolsApp, qemuTree, toolsShown,
                        toolsButtons, toolsCrashes>>

\* The checksum and the archive, which must have it.
DownloadTools ==
  /\ toolsJob = "download"
  /\ Goes("replace") \/ Ends("error")
  /\ UNCHANGED <<distro, marker, leftover, backend, unannounced>>
  /\ JobFrame

\* wsl --unregister, of a distribution that is registered.
Unregister(next) ==
  \/ distro' = NoDistro /\ Goes(next)
  \/ distro # NoDistro /\ distro' \in {NoDistro, distro} /\ Ends("error")

ReplaceDistro ==
  /\ toolsJob = "replace"
  /\ Unregister("make")
  /\ UNCHANGED <<marker, leftover, backend, unannounced>>
  /\ JobFrame

\* wsl --import registers the distribution, unless that fails at once.
Make ==
  /\ toolsJob = "make"
  /\ \/ distro' = TornDistro /\ Goes("import")
     \/ UNCHANGED distro /\ Ends("error")
  /\ UNCHANGED <<marker, leftover, backend, unannounced>>
  /\ JobFrame

Import ==
  /\ toolsJob = "import"
  /\ \/ distro' = expected /\ Goes("mark")
     \/ distro' \in {NoDistro, TornDistro} /\ Ends("error")
  /\ UNCHANGED <<marker, leftover, backend, unannounced>>
  /\ JobFrame

\* The job then asks for the backend anew.
Mark ==
  /\ toolsJob = "mark"
  /\ \/ /\ marker' = expected /\ leftover' = FALSE
        /\ backend' = TRUE
        /\ Goes("sync")
     \/ Ends("error") /\ UNCHANGED <<marker, leftover, backend>>
  /\ UNCHANGED <<distro, unannounced>>
  /\ JobFrame

\* sync_ssh_credentials
SyncKeys ==
  /\ toolsJob = "sync"
  /\ \/ Ends("installed") /\ UNCHANGED unannounced
     \/ Ends("error") /\ unannounced' = TRUE
  /\ UNCHANGED <<distro, marker, leftover, backend>>
  /\ JobFrame

\* remove()
RemoveTools ==
  /\ toolsJob = "remove"
  /\ Unregister("erase")
  /\ leftover' = (leftover \/ (distro' = NoDistro /\ marker # NoDistro))
  /\ unannounced' = (unannounced \/ (distro # NoDistro /\ distro' = NoDistro
                                     /\ toolsJob' = "idle"))
  /\ UNCHANGED <<marker, backend>>
  /\ JobFrame

\* The folder is removed, but an error is ignored.
Erase ==
  /\ toolsJob = "erase"
  /\ marker' \in {marker, NoDistro}
  /\ leftover' = (marker' # NoDistro)
  /\ Ends("removed")
  /\ UNCHANGED <<distro, backend, unannounced>>
  /\ JobFrame

UseInJob ==
  /\ toolsJob = "use"
  /\ Ends("used") \/ Ends("error")
  /\ UNCHANGED <<distro, marker, leftover, backend, unannounced>>
  /\ JobFrame

-----------------------------------------------------------------------------
(* The answers.                                                            *)

ToolsAnswered(how) ==
  /\ toolsApp /\ toolsAnswer \in how
  /\ toolsAnswer' = "none"
  /\ toolsButtons' = TRUE
  /\ UNCHANGED <<toolsDisk, expected, toolsApp, toolsJob, toolsCrashes>>

\* Mutant of BackendChanged: the change is not announced, and the tree stays as it was.
ChangedUnannounced ==
  /\ ToolsAnswered({"installed", "removed"})
  /\ RereadBackend(expected) /\ UNCHANGED qemuTree
  /\ RefreshTools
  /\ unannounced' = FALSE

\* _on_linux_tools_installed and _on_linux_tools_removed: the change is
\* announced, and the tree follows.
BackendChanged ==
  /\ ToolsAnswered({"installed", "removed"})
  /\ RereadBackend(expected) /\ qemuTree' = backend'
  /\ RefreshTools
  /\ unannounced' = FALSE

\* _on_linux_tools_error
ToolsError ==
  /\ ToolsAnswered({"error"})
  /\ RefreshTools
  /\ UNCHANGED <<backend, qemuTree, unannounced>>

\* _on_linux_tools_checked and _on_linux_tools_ssh_synced
ToolsUsed ==
  /\ ToolsAnswered({"used"})
  /\ UNCHANGED <<backend, qemuTree, toolsShown, unannounced>>

-----------------------------------------------------------------------------
ToolsAppStep ==
  \/ StartToolsApp \/ ToolsAppEnds \/ StartWslInstall \/ StartLinuxToolsInstall \/ UseTools
  \/ RemoveClicked \/ BackendChanged \/ ToolsError \/ ToolsUsed

ToolsJobStep ==
  \/ DownloadTools \/ ReplaceDistro \/ Make \/ Import \/ Mark \/ SyncKeys \/ RemoveTools \/ Erase
  \/ UseInJob

ToolsNext == ToolsAppStep \/ ToolsJobStep \/ ToolsCrash \/ WslInstalled

ToolsSpec == ToolsInit /\ [][ToolsNext]_toolsVars

-----------------------------------------------------------------------------
\* Tools that are reported ready are whole and no older than expected, unless
\* the removal of earlier ones has left the file that names their version.
ReadyIsWhole ==
  toolsApp /\ IsReady /\ ~leftover => distro \in ToolsVersions /\ distro >= expected

\* When no job is out the views agree with what is installed: the settings page
\* always (but for the installation of WSL itself), and offers its buttons;
\* commands and the tree unless a job that failed has changed it.
ViewsAgree ==
  toolsApp /\ toolsJob = "idle" /\ toolsAnswer = "none" =>
    /\ toolsShown # "no wsl" => toolsShown = ToolsStatus(expected) /\ toolsButtons
    /\ ~unannounced /\ ~leftover => backend = IsReady /\ qemuTree = IsReady

(* Wherever setting up, updating or removing the tools fails or is cut     *)
(* off, they are not taken for ready when they are not, and what the views *)
(* offer is what is there.                                                 *)
ToolsInStep == ReadyIsWhole /\ ViewsAgree

-----------------------------------------------------------------------------
(* The proofs, for any number of versions and of crashes: the types, and   *)
(* that the tools and the views are in step.                               *)

Installing == toolsJob \in {"download", "replace", "make", "import", "mark"}

\* One job at a time, of an app that runs and whose buttons are disabled.
OneJob ==
  /\ ~toolsApp => toolsJob = "idle" /\ toolsAnswer = "none"
  /\ toolsJob # "idle" => toolsAnswer = "none" /\ toolsShown # "no wsl"
  /\ toolsAnswer # "none" => toolsShown # "no wsl"
  /\ toolsApp /\ toolsButtons => toolsJob = "idle" /\ toolsAnswer = "none"
  /\ toolsApp /\ toolsJob = "idle" /\ toolsAnswer = "none" /\ toolsShown # "no wsl" => toolsButtons

\* WSL stays; without it nothing is registered.
WslIsThere == (toolsApp /\ toolsShown # "no wsl") \/ distro # NoDistro => wsl

\* A marker that is new enough is of the distribution that is registered.
MarkerIsTrue == ~leftover /\ marker # NoDistro => marker < expected \/ distro = marker

\* How far the job has come.
Progress ==
  /\ Installing /\ ~leftover => marker = NoDistro \/ marker < expected
  /\ toolsJob = "mark" => distro = expected
  /\ toolsJob = "sync" => distro = expected /\ marker = expected /\ ~leftover
  /\ toolsJob = "erase" => distro = NoDistro

\* The backend and the tree follow, until a job has changed what is installed
\* and its answer will be announced.
BackendFollows ==
  toolsApp /\ toolsJob \notin {"sync", "erase"}
    /\ toolsAnswer \notin {"installed", "removed"}
    /\ ~unannounced /\ ~leftover
  => backend = IsReady /\ qemuTree = IsReady

\* What the page shows, until a job may have changed it.
PageFollows ==
  toolsApp /\ toolsJob \in {"idle", "use"} /\ toolsAnswer \in {"none", "used"}
    /\ toolsShown # "no wsl"
  => toolsShown = ToolsStatus(expected)

ToolsInv ==
  /\ ToolsTypeOK /\ OneJob /\ WslIsThere /\ MarkerIsTrue /\ Progress
  /\ BackendFollows /\ PageFollows

LEMMA NoneIsNoVersion ==
  NoDistro \notin ToolsVersions /\ TornDistro \notin ToolsVersions /\ ToolsVersions \subseteq Nat
  BY VersionsAssumption DEF ToolsVersions

\* Each case of the status, of which there is always one.
LEMMA StatusFacts ==
  ASSUME ToolsTypeOK, NEW v \in ToolsVersions
  PROVE  /\ ToolsStatus(v) \in ToolsStates
         /\ ToolsStatus(v) = "ready" <=> wsl /\ distro # NoDistro /\ marker # NoDistro /\ ~(marker < v)
         /\ ToolsStatus(v) = "no wsl" <=> ~wsl
         /\ ToolsStatus(v) = "not installed" => distro = NoDistro
<1>1. marker # NoDistro => marker \in Nat /\ v \in Nat
  BY NoneIsNoVersion DEF ToolsTypeOK
<1>2. marker # NoDistro => (marker >= v <=> ~(marker < v))
  BY <1>1
<1>3. wsl \in BOOLEAN
  BY DEF ToolsTypeOK
<1> QED
  BY <1>2, <1>3 DEF ToolsStatus, ToolsStates

LEMMA ReadyMeans ==
  ToolsTypeOK =>
    /\ IsReady <=> wsl /\ distro # NoDistro /\ marker # NoDistro /\ ~(marker < expected)
    /\ ToolsStatus(expected) = "no wsl" <=> ~wsl
    /\ ToolsStatus(expected) = "not installed" => distro = NoDistro
    /\ ToolsStatus(expected) \in ToolsStates
<1> SUFFICES ASSUME ToolsTypeOK PROVE
      /\ IsReady <=> wsl /\ distro # NoDistro /\ marker # NoDistro /\ ~(marker < expected)
      /\ ToolsStatus(expected) = "no wsl" <=> ~wsl
      /\ ToolsStatus(expected) = "not installed" => distro = NoDistro
      /\ ToolsStatus(expected) \in ToolsStates
  OBVIOUS
<1>1. expected \in ToolsVersions
  BY DEF ToolsTypeOK
<1> QED
  BY <1>1, StatusFacts DEF IsReady

\* What IsReady comes to, without the cases.
MarkedReady == wsl /\ distro # NoDistro /\ marker # NoDistro /\ ~(marker < expected)

LEMMA ReadyMeansNext ==
  ToolsTypeOK' => (IsReady' <=> MarkedReady')
<1>1. ToolsTypeOK => (IsReady <=> MarkedReady)
  BY ReadyMeans DEF MarkedReady
<1> QED
  BY <1>1, PTL

LEMMA StatusStays ==
  UNCHANGED <<wsl, distro, marker, expected>>
  => ToolsStatus(expected)' = ToolsStatus(expected) /\ IsReady' = IsReady
  BY DEF ToolsStatus, IsReady

LEMMA ToolsInitInv == ToolsInit => ToolsInv
<1> SUFFICES ASSUME ToolsInit PROVE ToolsInv
  OBVIOUS
<1>1. 1 \in ToolsVersions /\ 0 \in 0..MaxToolsCrashes
  BY VersionsAssumption DEF ToolsVersions
<1>2. ToolsTypeOK
  BY <1>1 DEF ToolsInit, ToolsTypeOK, ToolsStates
<1> QED
  BY <1>2 DEF ToolsInit, ToolsInv, OneJob, WslIsThere, MarkerIsTrue, Progress, Installing,
       BackendFollows, PageFollows

LEMMA WslCountsUp ==
  ASSUME NEW n \in 0..MaxToolsCrashes, n < MaxToolsCrashes
  PROVE  n + 1 \in 0..MaxToolsCrashes
  BY VersionsAssumption

LEMMA ToolsNextType ==
  ToolsTypeOK /\ [ToolsNext]_toolsVars => ToolsTypeOK'
<1> SUFFICES ASSUME ToolsTypeOK, [ToolsNext]_toolsVars PROVE ToolsTypeOK'
  OBVIOUS
<1> USE DEF ToolsTypeOK, toolsDisk, toolsViews, JobFrame, Goes, Ends
<1>s. ToolsStatus(expected) \in ToolsStates
  BY StatusFacts
<1>1. CASE StartToolsApp
  <2>1. expected' \in ToolsVersions
    BY <1>1 DEF StartToolsApp
  <2>2. ToolsStatus(expected') \in ToolsStates
    BY <2>1, StatusFacts
  <2>3. toolsShown' \in ToolsStates /\ backend' \in BOOLEAN /\ qemuTree' \in BOOLEAN
    BY <1>1, <2>2 DEF StartToolsApp, RereadBackend
  <2> QED
    BY <1>1, <2>1, <2>3 DEF StartToolsApp
<1>2. CASE ToolsAppEnds
  BY <1>2 DEF ToolsAppEnds
<1>3. CASE StartWslInstall \/ StartLinuxToolsInstall \/ UseTools \/ RemoveClicked
  BY <1>3 DEF StartWslInstall, StartLinuxToolsInstall, UseTools, RemoveClicked, ClickTools
<1>4. CASE BackendChanged
  <2>1. backend' \in BOOLEAN /\ qemuTree' \in BOOLEAN
    BY <1>4 DEF BackendChanged, RereadBackend
  <2> QED
    BY <1>4, <1>s, <2>1 DEF BackendChanged, ToolsAnswered, RefreshTools
<1>5. CASE ToolsError \/ ToolsUsed
  BY <1>5, <1>s DEF ToolsError, ToolsUsed, ToolsAnswered, RefreshTools
<1>6. CASE DownloadTools
  BY <1>6 DEF DownloadTools
<1>7. CASE ReplaceDistro
  BY <1>7 DEF ReplaceDistro, Unregister
<1>8. CASE Make
  BY <1>8 DEF Make
<1>9. CASE Import
  BY <1>9 DEF Import
<1>10. CASE Mark
  BY <1>10 DEF Mark
<1>11. CASE SyncKeys
  BY <1>11 DEF SyncKeys
<1>12. CASE RemoveTools
  BY <1>12 DEF RemoveTools, Unregister
<1>13. CASE Erase
  BY <1>13 DEF Erase
<1>14. CASE UseInJob
  BY <1>14 DEF UseInJob
<1>15. CASE ToolsCrash
  <2>1. toolsCrashes' \in 0..MaxToolsCrashes
    BY <1>15, WslCountsUp DEF ToolsCrash
  <2>2. marker' \in ToolsVersions \union {NoDistro}
    BY <1>15 DEF ToolsCrash
  <2> QED
    BY <1>15, <2>1, <2>2 DEF ToolsCrash
<1>16. CASE WslInstalled
  BY <1>16 DEF WslInstalled
<1>17. CASE UNCHANGED toolsVars
  BY <1>17 DEF toolsVars
<1> QED
  BY <1>1, <1>2, <1>3, <1>4, <1>5, <1>6, <1>7, <1>8, <1>9, <1>10, <1>11, <1>12, <1>13,
     <1>14, <1>15, <1>16, <1>17 DEF ToolsNext, ToolsAppStep, ToolsJobStep

(* The types are kept, for any number of versions and of crashes. *)
THEOREM ToolsTypeCorrect == ToolsSpec => []ToolsTypeOK
<1>1. ToolsInit => ToolsTypeOK
  BY ToolsInitInv DEF ToolsInv
<1> QED
  BY <1>1, ToolsNextType, PTL DEF ToolsSpec

LEMMA LessStays ==
  ASSUME NEW m \in ToolsVersions, NEW v \in ToolsVersions, NEW w \in ToolsVersions,
         m < v, w >= v
  PROVE  m < w
  BY NoneIsNoVersion

LEMMA ToolsNextInv ==
  ToolsInv /\ [ToolsNext]_toolsVars => ToolsInv'
<1> SUFFICES ASSUME ToolsInv, [ToolsNext]_toolsVars PROVE ToolsInv'
  OBVIOUS
<1>t. ToolsTypeOK /\ ToolsTypeOK'
  BY ToolsNextType DEF ToolsInv
<1>n. NoDistro \notin ToolsVersions /\ TornDistro \notin ToolsVersions /\ ToolsVersions \subseteq Nat
  BY NoneIsNoVersion
<1>r. /\ IsReady <=> wsl /\ distro # NoDistro /\ marker # NoDistro /\ ~(marker < expected)
      /\ ToolsStatus(expected) = "no wsl" <=> ~wsl
      /\ ToolsStatus(expected) = "not installed" => distro = NoDistro
      /\ ToolsStatus(expected) \in ToolsStates
  BY <1>t, ReadyMeans
<1>p. IsReady' <=> wsl' /\ distro' # NoDistro /\ marker' # NoDistro /\ ~(marker' < expected')
  BY <1>t, ReadyMeansNext DEF MarkedReady
<1>e. expected \in ToolsVersions /\ expected' \in ToolsVersions
  BY <1>t DEF ToolsTypeOK
<1>v. \A v \in ToolsVersions : ToolsStatus(v) = "no wsl" <=> ~wsl
  BY <1>t, StatusFacts
<1> USE DEF ToolsInv, OneJob, WslIsThere, MarkerIsTrue, Progress, Installing,
      BackendFollows, PageFollows, toolsDisk, toolsViews, JobFrame, Goes, Ends
<1>1. CASE StartToolsApp
  <2>1. ToolsStatus(expected') = ToolsStatus(expected)'
    BY <1>1 DEF StartToolsApp, ToolsStatus
  <2>2. backend' = IsReady' /\ qemuTree' = IsReady' /\ toolsShown' = ToolsStatus(expected)'
    BY <1>1, <2>1 DEF StartToolsApp, RereadBackend, IsReady
  <2>3. (toolsApp' /\ toolsShown' # "no wsl") \/ distro' # NoDistro => wsl'
    <3>1. ToolsStatus(expected') # "no wsl" => wsl
      BY <1>v, <1>e
    <3> QED
      BY <1>1, <3>1 DEF StartToolsApp
  <2>4. MarkerIsTrue'
    <3>1. marker # NoDistro /\ marker < expected => marker < expected'
      <4>1. marker # NoDistro => marker \in ToolsVersions
        BY <1>t DEF ToolsTypeOK
      <4> QED
        BY <1>1, <1>e, <4>1, LessStays DEF StartToolsApp
    <3> QED
      BY <1>1, <3>1 DEF StartToolsApp
  <2>5. OneJob' /\ Progress'
    BY <1>1 DEF StartToolsApp
  <2> QED
    BY <1>t, <2>2, <2>3, <2>4, <2>5
<1>2. CASE ToolsAppEnds
  BY <1>2, <1>t, <1>p DEF ToolsAppEnds
<1>3. CASE StartWslInstall
  BY <1>3, <1>t, StatusStays DEF StartWslInstall, ClickTools
<1>4. CASE StartLinuxToolsInstall
  <2>1. toolsShown = ToolsStatus(expected) /\ ~IsReady
    BY <1>4 DEF StartLinuxToolsInstall, ClickTools, IsReady
  <2> QED
    BY <1>4, <1>t, <1>r, <2>1, StatusStays DEF StartLinuxToolsInstall, ClickTools
<1>5. CASE UseTools \/ RemoveClicked
  <2>1. CASE UseTools
    BY <2>1, <1>t, StatusStays DEF UseTools, ClickTools
  <2>2. CASE RemoveClicked
    BY <2>2, <1>t, StatusStays DEF RemoveClicked, ClickTools
  <2> QED
    BY <1>5, <2>1, <2>2
<1>6. CASE BackendChanged
  <2>1. backend' = IsReady' /\ qemuTree' = IsReady' /\ toolsShown' = ToolsStatus(expected)'
    BY <1>6, StatusStays DEF BackendChanged, ToolsAnswered, RereadBackend, RefreshTools, IsReady
  <2>2. toolsShown' = ToolsStatus(expected)
    BY <1>6 DEF BackendChanged, RefreshTools
  <2> QED
    BY <1>6, <1>t, <1>r, <2>1, <2>2 DEF BackendChanged, ToolsAnswered
<1>7. CASE ToolsError
  BY <1>7, <1>t, <1>r, StatusStays DEF ToolsError, ToolsAnswered, RefreshTools
<1>8. CASE ToolsUsed
  BY <1>8, <1>t, StatusStays DEF ToolsUsed, ToolsAnswered
<1>9. CASE DownloadTools
  BY <1>9, <1>t, StatusStays DEF DownloadTools
<1>10. CASE ReplaceDistro
  <2>1. IsReady' = IsReady \/ leftover'
    BY <1>10, <1>t, <1>r, <1>p DEF ReplaceDistro, Unregister, IsReady
  <2>2. BackendFollows'
    BY <1>10, <1>t, <2>1 DEF ReplaceDistro, Unregister
  <2>3. MarkerIsTrue' /\ Progress'
    BY <1>10, <1>t DEF ReplaceDistro, Unregister
  <2>4. OneJob' /\ WslIsThere' /\ PageFollows'
    BY <1>10, <1>t DEF ReplaceDistro, Unregister
  <2> QED
    BY <1>t, <2>2, <2>3, <2>4
<1>11. CASE Make
  <2>1. IsReady' = IsReady \/ leftover'
    BY <1>11, <1>t, <1>r, <1>p DEF Make, IsReady
  <2>2. BackendFollows'
    BY <1>11, <1>t, <2>1 DEF Make
  <2>3. MarkerIsTrue' /\ Progress'
    BY <1>11, <1>t DEF Make
  <2>4. OneJob' /\ WslIsThere' /\ PageFollows'
    BY <1>11, <1>t DEF Make
  <2> QED
    BY <1>t, <2>2, <2>3, <2>4
<1>12. CASE Import
  <2>1. IsReady' = IsReady \/ leftover'
    BY <1>12, <1>t, <1>r, <1>p DEF Import, IsReady
  <2>2. BackendFollows'
    BY <1>12, <1>t, <2>1 DEF Import
  <2>3. MarkerIsTrue' /\ Progress'
    BY <1>12, <1>t DEF Import
  <2>4. OneJob' /\ WslIsThere' /\ PageFollows'
    BY <1>12, <1>t DEF Import
  <2> QED
    BY <1>t, <2>2, <2>3, <2>4
<1>13. CASE Mark
  BY <1>13, <1>t, <1>n, <1>p, StatusStays DEF Mark
<1>14. CASE SyncKeys
  BY <1>14, <1>t, StatusStays DEF SyncKeys
<1>15. CASE RemoveTools
  BY <1>15, <1>t, <1>r, <1>p, StatusStays DEF RemoveTools, Unregister
<1>16. CASE Erase
  BY <1>16, <1>t DEF Erase
<1>17. CASE UseInJob
  BY <1>17, <1>t, StatusStays DEF UseInJob
<1>18. CASE ToolsCrash
  BY <1>18, <1>t DEF ToolsCrash
<1>19. CASE WslInstalled
  <2>1. /\ toolsApp /\ toolsShown # "no wsl" => ToolsStatus(expected)' = ToolsStatus(expected)
        /\ IsReady' = IsReady
    BY <1>19, <1>t, <1>r, <1>p DEF WslInstalled, IsReady
  <2> QED
    BY <1>19, <1>t, <2>1 DEF WslInstalled
<1>20. CASE UNCHANGED toolsVars
  BY <1>20, <1>t, StatusStays DEF toolsVars
<1> QED
  BY <1>1, <1>2, <1>3, <1>4, <1>5, <1>6, <1>7, <1>8, <1>9, <1>10, <1>11, <1>12, <1>13,
     <1>14, <1>15, <1>16, <1>17, <1>18, <1>19, <1>20 DEF ToolsNext, ToolsAppStep, ToolsJobStep

LEMMA ToolsInvSays == ToolsInv => ToolsInStep
<1> SUFFICES ASSUME ToolsInv PROVE ToolsInStep
  OBVIOUS
<1>1. /\ ToolsTypeOK
      /\ IsReady <=> wsl /\ distro # NoDistro /\ marker # NoDistro /\ ~(marker < expected)
  BY ReadyMeans DEF ToolsInv
<1>2. ReadyIsWhole
  <2> SUFFICES ASSUME toolsApp, IsReady, ~leftover PROVE distro \in ToolsVersions /\ distro >= expected
    BY DEF ReadyIsWhole
  <2>1. marker \in ToolsVersions /\ expected \in ToolsVersions /\ ~(marker < expected) /\ distro = marker
    BY <1>1 DEF ToolsInv, MarkerIsTrue, ToolsTypeOK
  <2>2. marker \in Nat /\ expected \in Nat
    BY <2>1, NoneIsNoVersion
  <2>3. marker >= expected
    BY <2>1, <2>2
  <2> QED
    BY <2>1, <2>3
<1>3. ViewsAgree
  BY DEF ToolsInv, OneJob, BackendFollows, PageFollows, ViewsAgree
<1> QED
  BY <1>2, <1>3 DEF ToolsInStep

(* Wherever setting up, updating or removing the tools fails or is cut     *)
(* off, they are not taken for ready when they are not, and the views      *)
(* follow: for any number of versions and of crashes.                      *)
THEOREM ToolsAreInStep == ToolsSpec => []ToolsInStep
<1>1. ToolsInit => ToolsInv
  BY ToolsInitInv
<1>2. ToolsInv /\ [ToolsNext]_toolsVars => ToolsInv'
  BY ToolsNextInv
<1>3. ToolsInv => ToolsInStep
  BY ToolsInvSays
<1> QED
  BY <1>1, <1>2, <1>3, PTL DEF ToolsSpec
=============================================================================

---------------------------- MODULE MCComponents ----------------------------
(***************************************************************************)
(* Model-checks the components that share no state with one another in one *)
(* run: Init chooses the part whose steps are taken, and the variables of  *)
(* the others keep their initial values.  (Interleaving them would         *)
(* multiply the states and add no behaviour to any of them.)  The ten      *)
(* components with proofs are extended: their invariants are checked here  *)
(* by the names that their theorems have for them.                         *)
(***************************************************************************)
EXTENDS AppUpdate, ConfigFiles, ConnectionTree, GcloudAccount, HelperTab,
        MboxBrowser, RdpPicture, SpiceAgent, SpiceInput, WslDistro, TLC

VARIABLES
  part,
  \* SpiceDisplay
  surface, dirty, recent, timeoutPending, frames, canvas, paints,
  \* StressTest
  state, testClosed, current, cleanup, prepare, root, stopped, worker, tree,
  wiper, wipeFrames, drops,
  \* FtpBrowser
  session, initial, pending, inProgress, calls, answers, paneShown, nextId,
  transfers, others, tried, open,
  \* ProftpdHelper
  saved, db, callRuns, mountJobs, units, mounted, pathOwner, strays, disturbed,
  helperCalls,
  \* HostingSites
  sites, chosenSite, siteShown, siteTab, panelsHold, vhosts, loadedFor, sftpLoaded,
  storageJob, polls, wasBusy, siteCalls, connected, hosted, moves, backups,
  astray, latePanels, unfollowed, siteEvents,
  \* SchedulerTab
  schedOn, schedCount, schedPage, autoRefresh, later, loadingTasks, schedCalls,
  openDialogs, now, told, listed, excused, stuck, schedSteps,
  \* RdpDesktop
  rdpWindow, fixedSize, debounce, clipboard, rdpInput, announced, stage,
  context, native, displayBound, clip, localText, offered, framebuffer,
  desktop, layouts, resets, missed, unreported, rdpEvents,
  \* InstanceLogins
  defaultUser, loginJobs, metadata, vmRunning, account, serial, loginAnswers,
  savedLogin, loginFile, sshUser, sshIdentity, dialog, resetShown, status,
  excusedLogin, overlapped, loginEvents,
  \* ProftpdTraffic
  trafficConnection, connections, connecting, trafficClosed, page, front,
  enabled, enabling, follower, tails, trafficTimer, trafficInFlight,
  unavailable, trafficCalls, server, trafficExcused, raised, trafficEvents,
  \* ProftpdUsers
  usersAccount, members, shown, shownMembers, combo, usersDialog, usersCalls,
  usersNow, usersListed, asked, muddled, usersExcused, since, usersEvents,
  \* CockpitMachines
  cockpitFile, cockpitTree, cockpitDialogs, detecting, cockpitJobs, password,
  cockpitOffered, installing, tabs, mine, torn, answered, behind, stale,
  cockpitEvents, cockpitChecks,
  \* SavedConnections
  entriesFile, entriesIdentity, entriesDialog, wanted, entriesTorn, refused,
  rebuilt, entriesBlanked, rekeyed, entriesEvents,
  \* StoredSettings
  settingsFile, exists, settingsPage, lastFolder, settingsLoaded,
  settingsExpected, cut, replaced, settingsStale, settingsEvents,
  \* VmDeployment
  vms, deployTree, preset, deployDialog, deployLoading, ready, pool,
  deployListed, typed, loads, deployAsked, deployShown, creates, deployDialogs,
  \* VmConfiguration
  vm, live, volumes, machineRunning, shownRunning, machineDialog, machineHeld,
  wish, machineJobs, failed, machineCrossed, storedOtherwise, reverted,
  machineAsked, broken, mistaken, saves, edits, machineDialogs, powers,
  \* IdentityBrowser
  keyFile, locked, left, identityGcloud, news, cached, prompts, signedIn,
  eventSeen, rows, identityStatus, identitySearching, leaves, identityPage,
  currentRow, device, fields, project, bindings, identityCalls, lastAsked,
  lastKey, identityFailed, overtaken, shifted, unasked, identityOpened, budget,
  \* HostingImport
  wizard, scan, importsJob, imported, importsListed, note, importsDialogs,
  waiting, importsAnswers, importsOthers, importsEvents,
  \* TerminalTab
  windows, prints, alive, owed, mode, out, inq, terminalReader, queue,
  notifier, feeding, writing, terminalRows, terminalScreen, document,
  terminalTimer, terminalTab, terminalFinished, terminalAsked, printed, fed,
  entered, terminalLeft, moved, terminalStale, terminalEvents,
  \* RcloneBrowser
  remoteTree, cloudPath, cloudRows, needle, cloudClosed, cloudCalls, begins,
  newest, cloudExcused, cloudLate, wandered, cloudAstray, cloudEvents,
  \* AddRemote
  remotes, wizardPage, wizards, providersKnown, wizardTyped, wizardRemote,
  wizardState, wizardEnabled, wizardCalls, remotesListed, remotesNow, remotesAt,
  wizardSent, accepted, thrownBack, wizardCrossed, misread, errorLost,
  wizardExcused, wizardEvents,
  \* GlinetDashboard
  wifi, tunnel, reachable, sessions, rebooting, radioRows, vpnRow, edited,
  tabClosed, routerCalls, wished, routerNow, shownAt, networksMuddled,
  routerExcused, leaked, routerEvents,
  \* HostingPanels
  panelsUp, panelsPage, panelsSeen, panelsCached, panelsCalls, panelsDialogs,
  panelsServer, changes, panelsTold, promised, noted, panelsExcused, forgotten,
  unnoted, panelsEvents

-----------------------------------------------------------------------------

D == INSTANCE SpiceDisplay WITH Heights <- {2, 3}, MaxPaints <- 4

\* Two workers; the first one's folder has a file, and a folder with two more.
T == INSTANCE StressTest
       WITH Paths <- 1..7, Dirs <- {1, 2, 3, 5},
            Within <- (2 :> 1 @@ 3 :> 1 @@ 4 :> 2 @@ 5 :> 2 @@ 6 :> 5 @@ 7 :> 5),
            Owner <- (2 :> 1 @@ 3 :> 2 @@ 4 :> 1 @@ 5 :> 1 @@ 6 :> 1 @@ 7 :> 1),
            Home <- <<2, 3>>, Wipers <- {1, 2}, MaxDrops <- 1,
            closed <- testClosed, frames <- wipeFrames

\* A folder with a file and a folder, which has a file too; and a single file.
F == INSTANCE FtpBrowser
       WITH Children <- (1 :> <<2, 3>> @@ 2 :> <<4>>), Chosen <- {1, 5},
            NoEntry <- 0, MaxRequests <- 1, MaxCalls <- 1,
            shown <- paneShown, requests <- transfers

\* Deleting a user frees a name for one who is created or renamed.
P == INSTANCE ProftpdHelper
       WITH Users <- {"u", "v"}, Names <- {"dir"}, Paths <- {"path"},
            Groups <- {"g"}, None <- "none", MaxCalls <- 4,
            running <- callRuns, todo <- mountJobs, owner <- pathOwner,
            calls <- helperCalls

\* Both sites are on the server, to begin with.
S == INSTANCE HostingSites
       WITH Sites <- {"a", "b"}, NoSite <- "none", MaxEvents <- 3, MaxCalls <- 2,
            selected <- chosenSite, site <- siteShown, tab <- siteTab,
            held <- panelsHold, job <- storageJob, timers <- polls,
            calls <- siteCalls, late <- latePanels, events <- siteEvents

L == INSTANCE SchedulerTab
       WITH MaxEvents <- 2, MaxCalls <- 2, connection <- schedOn,
            connections <- schedCount, page <- schedPage,
            requests <- schedCalls, steps <- schedSteps

K == INSTANCE RdpDesktop
       WITH Sizes <- {1, 2, 3}, Least <- 2, Texts <- {"a"}, NoText <- "none",
            MaxEvents <- 2, window <- rdpWindow, fixed <- fixedSize,
            input <- rdpInput, display <- displayBound, events <- rdpEvents

J == INSTANCE InstanceLogins
       WITH Users <- {"bob", "eve"}, Nobody <- "nobody", MaxJobs <- 2,
            MaxEvents <- 1, jobs <- loginJobs, running <- vmRunning,
            answers <- loginAnswers, saved <- savedLogin, file <- loginFile,
            identity <- sshIdentity, shown <- resetShown,
            excused <- excusedLogin, events <- loginEvents

E == INSTANCE ProftpdTraffic
       WITH MaxEvents <- 3, MaxCalls <- 2, connection <- trafficConnection,
            closed <- trafficClosed, timer <- trafficTimer,
            inFlight <- trafficInFlight, calls <- trafficCalls,
            excused <- trafficExcused, events <- trafficEvents

M == INSTANCE ProftpdUsers
       WITH Users <- {"u", "v"}, Nobody <- "nobody", MaxEvents <- 2,
            MaxCalls <- 2, account <- usersAccount, dialog <- usersDialog,
            calls <- usersCalls, now <- usersNow, listed <- usersListed,
            excused <- usersExcused, events <- usersEvents

\* Two old lists know the same machine; only its container has the helper.
OldServers ==
  <<[tool |-> "proftpd", key |-> "a", box |-> "none"],
    [tool |-> "proftpd", key |-> "a", box |-> "c"],
    [tool |-> "hosting", key |-> "a", box |-> "none"]>>
MachineTools ==
  [t \in {"a", "b"} \X {"none", "c"} |->
     {"proftpd-no-helper"} \union (IF t[2] = "c" THEN {"proftpd"} ELSE {"hosting"})]

O == INSTANCE CockpitMachines
       WITH Keys <- {"a", "b"}, Boxes <- {"none", "c"},
            Installed <- MachineTools, Old <- OldServers, MaxEvents <- 3,
            MaxChecks <- 2, MaxDialogs <- 2, file <- cockpitFile,
            tree <- cockpitTree, dialogs <- cockpitDialogs,
            jobs <- cockpitJobs, offered <- cockpitOffered,
            events <- cockpitEvents, checks <- cockpitChecks

Q == INSTANCE SavedConnections
       WITH Names <- {"n"}, MaxEntries <- 2, MaxEvents <- 3,
            file <- entriesFile, identity <- entriesIdentity,
            dialog <- entriesDialog, torn <- entriesTorn,
            blanked <- entriesBlanked, events <- entriesEvents

X == INSTANCE StoredSettings
       WITH Modules <- {"m", "n"}, MaxEvents <- 3, file <- settingsFile,
            page <- settingsPage, loaded <- settingsLoaded,
            expected <- settingsExpected, stale <- settingsStale,
            events <- settingsEvents

Y == INSTANCE VmDeployment
       WITH Names <- {"vm"}, MaxLoads <- 4, MaxDialogs <- 1,
            tree <- deployTree, dialog <- deployDialog,
            loading <- deployLoading, listed <- deployListed,
            asked <- deployAsked, shown <- deployShown,
            dialogs <- deployDialogs

Z == INSTANCE VmConfiguration
       WITH MaxSaves <- 2, MaxEdits <- 2, MaxEvents <- 3,
            running <- machineRunning, dialog <- machineDialog,
            held <- machineHeld, jobs <- machineJobs,
            crossed <- machineCrossed, staged <- storedOtherwise,
            asked <- machineAsked,
            dialogs <- machineDialogs

\* A key needs a passphrase and no account is signed in, or the account changes.
IdentityBudgets ==
  {[events |-> 3, looks |-> 1, changes |-> 0],
   [events |-> 1, looks |-> 2, changes |-> 1], [events |-> 1, looks |-> 1, changes |-> 2]}

Id == INSTANCE IdentityBrowser
       WITH Fields <- {"recovery"}, Budgets <- IdentityBudgets,
            gcloud <- identityGcloud, status <- identityStatus,
            searching <- identitySearching, page <- identityPage,
            calls <- identityCalls, failed <- identityFailed,
            opened <- identityOpened

Hi == INSTANCE HostingImport
       WITH MaxEvents <- 3, MaxDialogs <- 2, MaxCalls <- 2, job <- importsJob,
            listed <- importsListed, dialogs <- importsDialogs,
            answers <- importsAnswers, others <- importsOthers,
            events <- importsEvents

\* Programs that use the alternate screen, ask, or set modes.
TerminalPrograms ==
  {[kinds |-> {"text", "enter", "leave", "save"}, prints |-> 4, events |-> 0],
   [kinds |-> {"text", "enter", "leave"}, prints |-> 2, events |-> 1],
   [kinds |-> {"query", "private"}, prints |-> 2, events |-> 1],
   [kinds |-> {"mode", "reset"}, prints |-> 2, events |-> 1],
   [kinds |-> {"text"}, prints |-> 1, events |-> 2]}

Tt == INSTANCE TerminalTab
       WITH Programs <- TerminalPrograms, InRoom <- 1, OutRoom <- 2,
            reader <- terminalReader, rows <- terminalRows,
            screen <- terminalScreen, timer <- terminalTimer,
            tab <- terminalTab, finished <- terminalFinished,
            asked <- terminalAsked, left <- terminalLeft,
            stale <- terminalStale, events <- terminalEvents

Rb == INSTANCE RcloneBrowser
       WITH Files <- {"f", "g"}, Folders <- {"d"}, Picks <- {<<"f", "g">>},
            MaxDepth <- 1, MaxEvents <- 3, MaxCalls <- 2, there <- remoteTree,
            path <- cloudPath, rows <- cloudRows, closed <- cloudClosed,
            calls <- cloudCalls, excused <- cloudExcused, late <- cloudLate,
            astray <- cloudAstray, events <- cloudEvents

Ar == INSTANCE AddRemote
       WITH Names <- {"n"}, Questions <- ("plain" :> 0 @@ "asks" :> 1),
            MaxEvents <- 4, MaxCalls <- 2, config <- remotes,
            page <- wizardPage, dialogs <- wizards, providers <- providersKnown,
            typed <- wizardTyped, remote <- wizardRemote, state <- wizardState,
            enabled <- wizardEnabled, calls <- wizardCalls,
            listed <- remotesListed, now <- remotesNow, listedAt <- remotesAt,
            sent <- wizardSent, crossed <- wizardCrossed, lost <- errorLost,
            excused <- wizardExcused, events <- wizardEvents

\* The overview and the clients are loaded as the lists that are kept are.
Gl == INSTANCE GlinetDashboard
       WITH Radios <- {"main", "guest"}, NoRadio <- "none", Names <- {"a", "b"},
            Others <- {}, MaxEvents <- 2, MaxCalls <- 2, calls <- routerCalls,
            now <- routerNow, muddled <- networksMuddled,
            excused <- routerExcused, events <- routerEvents

Hp == INSTANCE HostingPanels
       WITH Addresses <- {"a"}, MaxEvents <- 2, MaxCalls <- 2, up <- panelsUp,
            page <- panelsPage, seen <- panelsSeen, cached <- panelsCached,
            calls <- panelsCalls, dialogs <- panelsDialogs,
            server <- panelsServer, told <- panelsTold,
            excused <- panelsExcused, events <- panelsEvents

ASSUME InstancesAssumption ==
  /\ D!HeightsAssumption /\ D!PaintsAssumption
  /\ T!StressAssumption
  /\ F!ChosenAssumption
  /\ P!NoneAssumption
  /\ S!SitesAssumption
  /\ L!BoundsAssumption
  /\ K!SizesAssumption /\ K!TextsAssumption
  /\ J!UsersAssumption /\ J!BoundsAssumption
  /\ E!BoundsAssumption
  /\ M!UsersAssumption /\ M!BoundsAssumption
  /\ O!InstalledAssumption /\ O!BoundsAssumption
  /\ Q!BoundsAssumption
  /\ X!EventsAssumption
  /\ Y!BoundsAssumption
  /\ Z!BoundsAssumption
  /\ Id!FieldsAssumption /\ Id!BudgetsAssumption
  /\ Hi!BoundsAssumption
  /\ Tt!ProgramsAssumption /\ Tt!RoomAssumption
  /\ Rb!BoundsAssumption
  /\ Ar!RemotesAssumption
  /\ Gl!RadiosAssumption /\ Gl!BoundsAssumption
  /\ Hp!BoundsAssumption

-----------------------------------------------------------------------------
Parts == {"config", "tab", "input", "display", "agent", "test", "browser",
          "account", "tree", "mailbox", "update", "proftpd",
          "tools", "hosting", "scheduler", "desktop", "picture", "logins",
          "traffic", "users", "cockpit", "entries", "settings", "deploy",
          "machine", "identity", "imports", "terminal", "cloud", "wizard",
          "router", "panels"}

dVars == <<surface, dirty, recent, timeoutPending, frames, canvas, paints>>
tVars == <<state, testClosed, current, cleanup, prepare, root, stopped, worker,
           tree, wiper, wipeFrames, drops>>
fVars == <<session, initial, pending, inProgress, calls, answers, paneShown,
           nextId, transfers, others, tried, open>>
pVars == <<saved, db, callRuns, mountJobs, units, mounted, pathOwner, strays,
           disturbed, helperCalls>>
sVars == <<sites, chosenSite, siteShown, siteTab, panelsHold, vhosts, loadedFor,
          sftpLoaded, storageJob, polls, wasBusy, siteCalls, connected, hosted,
          moves, backups, astray, latePanels, unfollowed, siteEvents>>
lVars == <<schedOn, schedCount, schedPage, autoRefresh, later, loadingTasks,
          schedCalls, openDialogs, now, told, listed, excused, stuck,
          schedSteps>>
kVars == <<rdpWindow, fixedSize, debounce, clipboard, rdpInput, announced,
          stage, context, native, displayBound, clip, localText, offered,
          framebuffer, desktop, layouts, resets, missed, unreported,
          rdpEvents>>
jVars == <<defaultUser, loginJobs, metadata, vmRunning, account, serial,
          loginAnswers, savedLogin, loginFile, sshUser, sshIdentity, dialog,
          resetShown, status, excusedLogin, overlapped, loginEvents>>
eVars == <<trafficConnection, connections, connecting, trafficClosed, page,
          front, enabled, enabling, follower, tails, trafficTimer,
          trafficInFlight, unavailable, trafficCalls, server, trafficExcused,
          raised, trafficEvents>>
mVars == <<usersAccount, members, shown, shownMembers, combo, usersDialog,
          usersCalls, usersNow, usersListed, asked, muddled, usersExcused,
          since, usersEvents>>
oVars == <<cockpitFile, cockpitTree, cockpitDialogs, detecting, cockpitJobs,
          password, cockpitOffered, installing, tabs, mine, torn, answered,
          behind, stale, cockpitEvents, cockpitChecks>>
qVars == <<entriesFile, entriesIdentity, entriesDialog, wanted, entriesTorn,
          refused, rebuilt, entriesBlanked, rekeyed, entriesEvents>>
xVars == <<settingsFile, exists, settingsPage, lastFolder, settingsLoaded,
          settingsExpected, cut, replaced, settingsStale, settingsEvents>>
yVars == <<vms, deployTree, preset, deployDialog, deployLoading, ready, pool,
          deployListed, typed, loads, deployAsked, deployShown, creates,
          deployDialogs>>
zVars == <<vm, live, volumes, machineRunning, shownRunning, machineDialog,
          machineHeld, wish, machineJobs, failed, machineCrossed,
          storedOtherwise, reverted, machineAsked, broken, mistaken, saves,
          edits, machineDialogs, powers>>
idVars == <<keyFile, locked, left, identityGcloud, news, cached, prompts,
          signedIn, eventSeen, rows, identityStatus, identitySearching, leaves,
          identityPage, currentRow, device, fields, project, bindings,
          identityCalls, lastAsked, lastKey, identityFailed, overtaken,
          shifted, unasked, identityOpened, budget>>
hiVars == <<wizard, scan, importsJob, imported, importsListed, note,
          importsDialogs, waiting, importsAnswers, importsOthers,
          importsEvents>>
ttVars == <<windows, prints, alive, owed, mode, out, inq, terminalReader,
          queue, notifier, feeding, writing, terminalRows, terminalScreen,
          document, terminalTimer, terminalTab, terminalFinished,
          terminalAsked, printed, fed, entered, terminalLeft, moved,
          terminalStale, terminalEvents>>
rbVars == <<remoteTree, cloudPath, cloudRows, needle, cloudClosed, cloudCalls,
          begins, newest, cloudExcused, cloudLate, wandered, cloudAstray,
          cloudEvents>>
arVars == <<remotes, wizardPage, wizards, providersKnown, wizardTyped,
          wizardRemote, wizardState, wizardEnabled, wizardCalls, remotesListed,
          remotesNow, remotesAt, wizardSent, accepted, thrownBack,
          wizardCrossed, misread, errorLost, wizardExcused, wizardEvents>>
glVars == <<wifi, tunnel, reachable, sessions, rebooting, radioRows, vpnRow,
          edited, tabClosed, routerCalls, wished, routerNow, shownAt,
          networksMuddled, routerExcused, leaked, routerEvents>>
hpVars == <<panelsUp, panelsPage, panelsSeen, panelsCached, panelsCalls,
          panelsDialogs, panelsServer, changes, panelsTold, promised, noted,
          panelsExcused, forgotten, unnoted, panelsEvents>>

vars == <<part, configVars, tabVars, inputVars, dVars, agentVars, tVars, fVars,
         accountVars, treeVars, mailVars, updateVars, pVars, toolsVars, sVars,
         lVars, kVars, pictureVars, jVars, eVars, mVars, oVars, qVars, xVars, yVars, zVars, idVars, hiVars,
         ttVars, rbVars, arVars, glVars, hpVars>>

\* Where a part may begin in several states, one that shows what it does.
\* The last conjunct has TLC compute every value here, for Active to leave out.
Init ==
  /\ part \in Parts
  /\ ConfigInit
  /\ part = "config" \/ \A n \in ConfigNames : config[n] # None /\ contents[n] = config[n]
  /\ TabInit /\ InputInit
  /\ D!Init /\ TreeInit /\ MailInit /\ UpdateInit
  /\ AgentInit /\ hostText = NoText /\ widgetSize = 1
  /\ T!Init /\ (part = "test" \/ cleanup)
  /\ F!Init /\ (part = "browser" \/ initial = 0)
  /\ AccountInit /\ gcloud = "a" /\ ~chosen
  /\ ToolsInit /\ ~wsl
  /\ P!Init /\ pathOwner["path"][1] = "absent"
            /\ DOMAIN saved.users = {"u", "v"} /\ saved.users["u"].uid = 1
            /\ DOMAIN saved.named = {"g"} /\ saved.named["g"].members = {"u", "v"}
  /\ S!Init /\ hosted = {"a", "b"} /\ siteTab \in {"sftp", "backups", "settings"}
            /\ vhosts = (siteTab # "settings")
            /\ (part = "hosting" \/ siteTab = "sftp")
  /\ L!Init
  /\ K!Init /\ (part = "desktop" \/ (fixedSize = 0 /\ rdpWindow = 1 /\ clipboard = "a"))
  /\ PictureInit /\ (part = "picture" \/ gpuView = "none")
  /\ J!Init /\ defaultUser = "bob"
  /\ E!Init /\ (part = "traffic" \/ server.helper)
  /\ M!Init /\ usersAccount["u"] = "open"
  /\ O!Init
  /\ Q!Init /\ (part = "entries" \/ entriesIdentity.pub)
  /\ X!Init
  /\ Y!Init /\ (part = "deploy" \/ preset = "")
  /\ Z!Init /\ (part = "machine" \/ ~machineRunning)
  /\ Id!Init /\ (keyFile = "none") = (budget.changes > 0)
            /\ (identityGcloud = "nobody") = locked /\ locked = (budget.changes = 0)
            /\ (part = "identity" \/ (~locked /\ budget.looks = 1))
  /\ Hi!Init
  /\ part = "imports" \/ (wizard = "zabbix" /\ scan = {} /\ importsJob = Hi!NoJob)
  /\ Tt!Init /\ (part = "terminal" \/ (windows /\ prints.events = 2))
  /\ Rb!Init /\ <<"f">> \in remoteTree
  /\ Ar!Init
  /\ Gl!Init /\ \A n \in {"main", "guest"} : wifi[n].ssid = "a"
  /\ Hp!Init
  /\ vars = vars

(* Jobs of the account that are alike but for their numbers, by which      *)
(* nothing is decided, are only counted.                                   *)
AccountView ==
  LET Alike(j) == {i \in jobs : [i EXCEPT !.id = j.id] = j}
  IN <<gcloud, settings, manager, dialogs, chosen, identity, changesCrossed, unsure,
       lateList, {[j EXCEPT !.id = Cardinality(Alike(j))] : j \in jobs}>>

(* What tells two states apart: the others are as they began.              *)
Active ==
  <<part, CASE part = "config" -> configVars
            [] part = "tab" -> tabVars
            [] part = "input" -> inputVars
            [] part = "display" -> dVars
            [] part = "agent" -> agentVars
            [] part = "test" -> tVars
            [] part = "browser" -> fVars
            [] part = "account" -> AccountView
            [] part = "tree" -> treeVars
            [] part = "mailbox" -> mailVars
            [] part = "update" -> updateVars
            [] part = "proftpd" -> pVars
            [] part = "tools" -> toolsVars
            [] part = "hosting" -> sVars
            [] part = "scheduler" -> lVars
            [] part = "desktop" -> kVars
            [] part = "picture" -> pictureVars
            [] part = "logins" -> jVars
            [] part = "traffic" -> eVars
            [] part = "users" -> mVars
            [] part = "cockpit" -> oVars
            [] part = "entries" -> qVars
            [] part = "settings" -> xVars
            [] part = "deploy" -> yVars
            [] part = "machine" -> zVars
            [] part = "identity" -> idVars
            [] part = "imports" -> hiVars
            [] part = "terminal" -> ttVars
            [] part = "cloud" -> rbVars
            [] part = "wizard" -> arVars
            [] part = "router" -> glVars
            [] part = "panels" -> hpVars>>

(* The other components stand still.                                       *)
Rest ==
  /\ UNCHANGED part
  /\ part # "config" => UNCHANGED configVars
  /\ part # "tab" => UNCHANGED tabVars
  /\ part # "input" => UNCHANGED inputVars
  /\ part # "display" => UNCHANGED dVars
  /\ part # "agent" => UNCHANGED agentVars
  /\ part # "test" => UNCHANGED tVars
  /\ part # "browser" => UNCHANGED fVars
  /\ part # "account" => UNCHANGED accountVars
  /\ part # "tree" => UNCHANGED treeVars
  /\ part # "mailbox" => UNCHANGED mailVars
  /\ part # "update" => UNCHANGED updateVars
  /\ part # "proftpd" => UNCHANGED pVars
  /\ part # "tools" => UNCHANGED toolsVars
  /\ part # "hosting" => UNCHANGED sVars
  /\ part # "scheduler" => UNCHANGED lVars
  /\ part # "desktop" => UNCHANGED kVars
  /\ part # "picture" => UNCHANGED pictureVars
  /\ part # "logins" => UNCHANGED jVars
  /\ part # "traffic" => UNCHANGED eVars
  /\ part # "users" => UNCHANGED mVars
  /\ part # "cockpit" => UNCHANGED oVars
  /\ part # "entries" => UNCHANGED qVars
  /\ part # "settings" => UNCHANGED xVars
  /\ part # "deploy" => UNCHANGED yVars
  /\ part # "machine" => UNCHANGED zVars
  /\ part # "identity" => UNCHANGED idVars
  /\ part # "imports" => UNCHANGED hiVars
  /\ part # "terminal" => UNCHANGED ttVars
  /\ part # "cloud" => UNCHANGED rbVars
  /\ part # "wizard" => UNCHANGED arVars
  /\ part # "router" => UNCHANGED glVars
  /\ part # "panels" => UNCHANGED hpVars

ConfigStep == part = "config" /\ Rest /\ ConfigNext
TabStep == part = "tab" /\ Rest /\ TabNext
InputStep == part = "input" /\ Rest /\ InputNext
DisplayStep == part = "display" /\ Rest /\ D!Next
AgentStep == part = "agent" /\ Rest /\ AgentNext
TestStep == part = "test" /\ Rest /\ T!Next
BrowserStep == part = "browser" /\ Rest /\ F!Next
AccountStep == part = "account" /\ Rest /\ AccountNext
TreeStep == part = "tree" /\ Rest /\ TreeNext
MailboxStep == part = "mailbox" /\ Rest /\ MailNext
UpdateStep == part = "update" /\ Rest /\ UpdateNext
ProftpdStep == part = "proftpd" /\ Rest /\ P!Next
ToolsStep == part = "tools" /\ Rest /\ ToolsNext
HostingStep == part = "hosting" /\ Rest /\ S!Next
SchedulerStep == part = "scheduler" /\ Rest /\ L!Next
DesktopStep == part = "desktop" /\ Rest /\ K!Next
PictureStep == part = "picture" /\ Rest /\ PictureNext
LoginsStep == part = "logins" /\ Rest /\ J!Next
TrafficStep == part = "traffic" /\ Rest /\ E!Next
UsersStep == part = "users" /\ Rest /\ M!Next
CockpitStep == part = "cockpit" /\ Rest /\ O!Next
EntriesStep == part = "entries" /\ Rest /\ Q!Next
SettingsStep == part = "settings" /\ Rest /\ X!Next
DeployStep == part = "deploy" /\ Rest /\ Y!Next
MachineStep == part = "machine" /\ Rest /\ Z!Next
IdentityStep == part = "identity" /\ Rest /\ Id!Next
ImportStep == part = "imports" /\ Rest /\ Hi!Next
TerminalStep == part = "terminal" /\ Rest /\ Tt!Next
CloudStep == part = "cloud" /\ Rest /\ Rb!Next
WizardStep == part = "wizard" /\ Rest /\ Ar!Next
RouterStep == part = "router" /\ Rest /\ Gl!Next
PanelsStep == part = "panels" /\ Rest /\ Hp!Next

Next ==
  \/ ConfigStep \/ TabStep \/ InputStep \/ DisplayStep \/ AgentStep
  \/ TestStep \/ BrowserStep \/ AccountStep \/ TreeStep
  \/ MailboxStep \/ UpdateStep \/ ProftpdStep \/ ToolsStep \/ HostingStep
  \/ SchedulerStep \/ DesktopStep \/ PictureStep \/ LoginsStep \/ TrafficStep
  \/ UsersStep \/ CockpitStep \/ EntriesStep \/ SettingsStep \/ DeployStep
  \/ MachineStep \/ IdentityStep \/ ImportStep \/ TerminalStep \/ CloudStep
  \/ WizardStep \/ RouterStep \/ PanelsStep

Spec == Init /\ [][Next]_vars

-----------------------------------------------------------------------------
(* Every variable of every component keeps to its type.                    *)
TypeOK ==
  /\ part = "config" => ConfigTypeOK
  /\ part = "tab" => TabTypeOK
  /\ part = "input" => InputTypeOK
  /\ part = "display" => D!TypeOK
  /\ part = "agent" => AgentTypeOK
  /\ part = "test" => T!TypeOK
  /\ part = "browser" => F!TypeOK
  /\ part = "account" => AccountTypeOK
  /\ part = "tree" => TreeTypeOK
  /\ part = "mailbox" => MailTypeOK
  /\ part = "update" => UpdateTypeOK
  /\ part = "proftpd" => P!TypeOK
  /\ part = "tools" => ToolsTypeOK
  /\ part = "hosting" => S!TypeOK
  /\ part = "scheduler" => L!TypeOK
  /\ part = "desktop" => K!TypeOK
  /\ part = "picture" => PictureTypeOK
  /\ part = "logins" => J!TypeOK
  /\ part = "traffic" => E!TypeOK
  /\ part = "users" => M!TypeOK
  /\ part = "cockpit" => O!TypeOK
  /\ part = "entries" => Q!TypeOK
  /\ part = "settings" => X!TypeOK
  /\ part = "deploy" => Y!TypeOK
  /\ part = "machine" => Z!TypeOK
  /\ part = "identity" => Id!TypeOK
  /\ part = "imports" => Hi!TypeOK
  /\ part = "terminal" => Tt!TypeOK
  /\ part = "cloud" => Rb!TypeOK
  /\ part = "wizard" => Ar!TypeOK
  /\ part = "router" => Gl!TypeOK
  /\ part = "panels" => Hp!TypeOK

(* SchedulerTab: the lists come to show what the user was told was done.     *)
(* IdentityBrowser: lists and pages are of what was asked for last.          *)
(* RcloneBrowser: the rows are the folder's, and uploads go where it says.   *)
(* HostingPanels: what was allowed stays, the tabs come to show the server.  *)
(* HostingSites: nothing is restored to, shown for or told of another site.  *)
(* HostingImport: an import that runs is shown, and followed to its end.     *)
(* ProftpdHelper: records, mounts and owners stay in step.                   *)
(* ProftpdTraffic: the traffic is followed once, while it is shown as on.    *)
(* StressTest: a run whose folder is to be removed leaves nothing behind.    *)
(* FtpBrowser: the tab's own uses of its connection do not overlap.          *)
AskedIsDone ==
  /\ part = "test" => T!NothingIsLeft
  /\ part = "browser" => F!TransfersOneByOne
  /\ part = "proftpd" => P!ServerInStep
  /\ part = "traffic" => E!TrafficFollowed
  /\ part = "hosting" => S!SiteFollowsUser
  /\ part = "imports" => Hi!ImportFollowed
  /\ part = "scheduler" => L!ListsFollow
  /\ part = "identity" => Id!BrowserFollows
  /\ part = "cloud" => Rb!RemoteFollows
  /\ part = "panels" => Hp!PanelsFollow

(* InstanceLogins: what a session signs in with is what the instance has.    *)
(* ProftpdUsers: the lists show the users, and what was asked for an account *)
(* stays.  CockpitMachines: the machines stay, with the tools found on them. *)
(* SavedConnections: what was entered stays, and its passwords are readable. *)
(* StoredSettings: what was set is what is read, and what the page shows.    *)
(* VmDeployment: a machine is made with the image chosen, and is shown.      *)
(* VmConfiguration: a machine gets what is accepted, and loses nothing else. *)
(* AddRemote: a remote is made as it was shown, and listed.                  *)
(* GlinetDashboard: the router gets what was asked for, and no call stays.   *)
KeptAsEntered ==
  /\ part = "logins" => J!LoginsAgree
  /\ part = "users" => M!UsersFollow
  /\ part = "cockpit" => O!CockpitFollows
  /\ part = "entries" => Q!ConnectionsKept
  /\ part = "settings" => X!SettingsKept
  /\ part = "deploy" => Y!DeployFollows
  /\ part = "machine" => Z!VmAsAsked
  /\ part = "wizard" => Ar!WizardFollows
  /\ part = "router" => Gl!RouterFollows

(* RdpDesktop: the context ends, the desktop gets the size of the window    *)
(* and pastes what was copied last.  SpiceDisplay: every row the canvas    *)
(* will not show as it is has been kept as dirty, with a timeout that      *)
(* takes it pending.                                                       *)
(* TerminalTab: what is printed is fed and drawn, and the shell comes back.   *)
DesktopFollows ==
  /\ part = "display" => D!PictureArrives
  /\ part = "desktop" => K!DesktopFollows
  /\ part = "terminal" => Tt!TerminalFollows
=============================================================================

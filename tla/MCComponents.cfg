\* ConfigFiles: two files, so that a loop can be cut short between them, and a
\* second restore that undoes the first or meets what it left.
\* HelperTab: an attempt whose close waits in the pool, one that fails or is
\* given up, and one that is made meanwhile.
\* SpiceInput: a burst of moves and a click behind it, or a click of which the
\* move is coalesced into the flush of an earlier one.
\* ConnectionTree: signing out and in again while requests are out.
\* The other parts have their constants in the module.
SPECIFICATION Spec
VIEW Active
CONSTANTS
    Queries = {"x", "y"}
    Messages = {"m", "n"}
    Nothing = "nothing"
    MaxMailEvents = 4
    Texts = {"one", "two"}
    NoText = "none"
    Sizes = {1, 2}
    MaxAgentEvents = 3
    MaxPicturePaints = 3
    MaxPictureEvents = 3
    NewestApp = 3
    NoBundle = 0
    TornBundle = 9
    MaxUpdateCrashes = 2
    NewestTools = 3
    NoDistro = 0
    TornDistro = 9
    MaxToolsCrashes = 2
    ConfigNames = {a, b}
    ConfigValues = {x}
    None = none
    Torn = torn
    MaxRestores = 2
    Connections = {1, 2, 3}
    NoConnection = 0
    MaxMoves = 3
    Accounts = {"a", "b"}
    Nobody = "nobody"
    Unread = "unread"
    Token = "token"
    MaxJobs = 2
    Categories = {"vms"}
    Hosts = {"host"}
    MaxBuilds = 4
    MaxAge = 3
    MaxRequests = 2
INVARIANTS
    TypeOK
    RestoreIsUndoable
    ConnectionsAccounted
    PointerNeverBehind
    ClipboardFollowsHost
    AccountsAgree
    AppSurvives
    ToolsInStep
    DesktopFollows
    FrameArrives
    MailboxFollowsUser
    AskedIsDone
    KeptAsEntered
PROPERTIES
    NoStaleAnswer
CHECK_DEADLOCK FALSE

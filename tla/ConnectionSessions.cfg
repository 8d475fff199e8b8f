\* Two tunnelled sessions on a pool of one thread, and a tab
\* without one.
SPECIFICATION FairSpec
CONSTANTS
    Iap = {vm}
    Gateway = {desk}
    Direct = {shell}
    Silent = {}
    Guarded = {desk}
    PoolSize = 1
    None = None
    vm = vm
    desk = desk
    shell = shell
INVARIANTS TypeOK TablesAgree OnlyAskedSessionsClose TunnelStoppedOnce
PROPERTIES StopsEnd AttemptsResolve
CHECK_DEADLOCK FALSE

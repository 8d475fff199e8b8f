\* stop() right after start(): the window before _serve_task is assigned.
SPECIFICATION FairSpec
CONSTANTS
    Iap = {vm}
    Gateway = {desk}
    Direct = {shell}
    Silent = {}
    Guarded = {desk}
    PoolSize = 1
    None = None
    vm = vm
    desk = desk
    shell = shell
PROPERTIES StopTearsDown
CHECK_DEADLOCK FALSE

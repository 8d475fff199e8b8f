\* Quitting while the only mount is coming up.
CONSTANTS
    Remotes = {r1}
    Procs = {1}
    Files = {}
    Jobs = {j1}
    None = None
SPECIFICATION Spec
INVARIANT MountsEndWithTheApp

CONSTANTS
    Paths = {"/auth/login", "/configuration"}
    Servers <- MCServers
    Threads = {t1, t2}
SPECIFICATION Spec
INVARIANTS
    TypeOK
    HandlersGuarded
    RefusedWithoutEffect
    RefusedOnlyOnDemand

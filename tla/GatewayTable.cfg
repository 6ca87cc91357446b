CONSTANTS
    Hostnames = {"api", "admin"}
    Paths = {"/a", "/b"}
    Hosts = {"h1", "h2"}
    NoHost = ""
    EndPoints <- MCEndPoints
SPECIFICATION Spec
INVARIANTS
    TypeOK
    StartedByItsServices
CHECK_DEADLOCK FALSE

CONSTANTS
    Docs = {d1, d2}
    MaxKills = 2
SPECIFICATION Spec
INVARIANTS
    DownloadedOrThrown

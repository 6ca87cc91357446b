CONSTANTS
    Docs = {d1, d2}
    MaxKills = 2
SPECIFICATION FairSpec
INVARIANTS
    TypeOK
    ServesWhatItDownloaded
PROPERTIES
    ComesBack

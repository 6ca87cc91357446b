----------------------------- MODULE ConfigBoot -----------------------------
(***************************************************************************)
(* How a proxy process gets its configuration when it is started, again    *)
(* and again, by a supervisor: the constructor of ConfigSingleton          *)
(* downloads the document from CONFIG_FILE_URL over the file at            *)
(* CONFIG_FILE_PATH, then loads that file.  The file outlives the process; *)
(* the configuration in memory, and with it every hot reload, does not.    *)
(* The process may be killed between any two steps.  Without a             *)
(* CONFIG_FILE_URL the file is only read, which needs no model.            *)
(***************************************************************************)
EXTENDS FiniteSets, Naturals

CONSTANTS
    Docs,      \* the documents an operator may publish or post, all loadable
    MaxKills   \* bound: how often the process is killed from outside

\* What the file may hold besides a whole document.
Debris == {"missing", "empty", "partial", "errorPage"}

ASSUME DocsAssumption == IsFiniteSet(Docs) /\ Docs # {} /\ Docs \cap Debris = {}

ASSUME MaxKillsAssumption == MaxKills \in Nat

None == "none"

VARIABLES
    published,  \* the document behind CONFIG_FILE_URL
    file,       \* content of the file at CONFIG_FILE_PATH
    phase,      \* where the process is
    memory,     \* the configuration it serves
    posted,     \* a hot reload has replaced it
    seen,       \* history: what was published since this start
    kills       \* how often it has been killed

vars == <<published, file, phase, memory, posted, seen, kills>>

Phases == {"down", "constructing", "downloading", "closing", "loading", "serving"}

TypeOK ==
    /\ published \in Docs
    /\ file \in Docs \cup Debris
    /\ phase \in Phases
    /\ memory \in Docs \cup {None}
    /\ posted \in BOOLEAN
    /\ seen \subseteq Docs
    /\ kills \in 0 .. MaxKills

Init ==
    /\ published \in Docs
    /\ file \in Docs \cup {"missing"}
    /\ phase = "down"
    /\ memory = None
    /\ posted = FALSE
    /\ seen = {}
    /\ kills = 0

-----------------------------------------------------------------------------
(* Outside the process: the operator's web server and the supervisor. *)

PublishDocument ==
    /\ \E d \in Docs \ {published} :
          /\ published' = d
          /\ seen' = IF phase = "down" THEN seen ELSE seen \cup {d}
    /\ UNCHANGED <<file, phase, memory, posted, kills>>

Start ==
    /\ phase = "down"
    /\ phase' = "constructing"
    /\ seen' = {published}
    /\ UNCHANGED <<published, file, memory, posted, kills>>

\* The process ends: killed, or an exception has left the constructor.
Down ==
    /\ phase' = "down"
    /\ memory' = None
    /\ posted' = FALSE

Killed ==
    /\ phase # "down"
    /\ kills < MaxKills
    /\ kills' = kills + 1
    /\ Down
    /\ UNCHANGED <<published, file, seen>>

-----------------------------------------------------------------------------
(* DownloadConfigFile *)

\* Faulty variant: a file that cannot be opened is loaded as it is.
LenientOpenOutputFile ==
    /\ phase = "constructing"
    /\ \/ file' = "empty" /\ phase' = "downloading"
       \/ UNCHANGED file /\ phase' = "loading"
    /\ UNCHANGED <<published, memory, posted, seen, kills>>

\* Faulty variant: a file that exists is not overwritten.
ExclusiveOpenOutputFile ==
    /\ phase = "constructing"
    /\ \/ /\ file = "missing"
          /\ file' = "empty" /\ phase' = "downloading"
          /\ UNCHANGED <<memory, posted>>
       \/ Down /\ UNCHANGED file
    /\ UNCHANGED <<published, seen, kills>>

\* std::ios::trunc empties the file before a byte has arrived.
OpenOutputFile ==
    /\ phase = "constructing"
    /\ \/ file' = "empty" /\ phase' = "downloading" /\ UNCHANGED <<memory, posted>>
       \/ Down /\ UNCHANGED file
    /\ UNCHANGED <<published, seen, kills>>

\* Chunks reach the file; whatever the server sends with an HTTP error status
\* does too, and counts as CURLE_OK.
ReceiveChunk ==
    /\ phase = "downloading"
    /\ file' = "partial"
    /\ UNCHANGED <<published, phase, memory, posted, seen, kills>>

TransferSucceeds ==
    /\ phase = "downloading"
    /\ file' \in {published, "errorPage"}
    /\ phase' = "closing"
    /\ UNCHANGED <<published, memory, posted, seen, kills>>

\* A time-out, a refused connection, a failed write: the exception leaves the
\* file as it is.
TransferFails ==
    /\ phase = "downloading"
    /\ Down
    /\ UNCHANGED <<published, file, seen, kills>>

\* close() flushes the rest of the buffer; nobody looks whether it could.
CloseOutputFile ==
    /\ phase = "closing"
    /\ file' \in {file, "partial"}
    /\ phase' = "loading"
    /\ UNCHANGED <<published, memory, posted, seen, kills>>

-----------------------------------------------------------------------------
(* LoadConfigurationsFromFile, and the process that then runs *)

\* Faulty variant: the error of the load is ignored.
FaultyLoadConfigurationsFromFile ==
    /\ phase = "loading"
    /\ phase' = "serving"
    /\ memory' = file
    /\ UNCHANGED <<published, file, posted, seen, kills>>

LoadConfigurationsFromFile ==
    /\ phase = "loading"
    /\ \/ /\ file \in Docs
          /\ phase' = "serving"
          /\ memory' = file
          /\ UNCHANGED posted
       \/ file \in Debris /\ Down
    /\ UNCHANGED <<published, file, seen, kills>>

HotReload ==
    /\ phase = "serving"
    /\ memory' \in Docs
    /\ posted' = TRUE
    /\ UNCHANGED <<published, file, phase, seen, kills>>

-----------------------------------------------------------------------------
Boot ==
    \/ OpenOutputFile
    \/ ReceiveChunk
    \/ CloseOutputFile
    \/ LoadConfigurationsFromFile

Next ==
    \/ PublishDocument
    \/ Start
    \/ Killed
    \/ Boot
    \/ TransferSucceeds
    \/ TransferFails
    \/ HotReload

Spec == Init /\ [][Next]_vars

Delivered == TransferSucceeds /\ file' = published

Opened == OpenOutputFile /\ phase' = "downloading"

Flushed == CloseOutputFile /\ file \in Docs /\ file' = file

\* The supervisor restarts the process (docker-compose.yaml: "restart:
\* unless-stopped"); the steps of booting go on; and what can always go well
\* again goes well in the end.
FairSpec ==
    /\ Spec
    /\ WF_vars(Start)
    /\ SF_vars(Opened)
    /\ SF_vars(Delivered)
    /\ WF_vars(CloseOutputFile)
    /\ SF_vars(Flushed)
    /\ WF_vars(LoadConfigurationsFromFile)

-----------------------------------------------------------------------------
\* A process that serves, and has not been reloaded, serves a document that was
\* behind the URL while it booted: never what an earlier process left in the
\* file, whichever step that one was killed in.
ServesWhatItDownloaded ==
    (phase = "serving" /\ ~posted) => memory \in seen

\* Whatever a crash or a failed download has left in the file, the service
\* comes back: no content of the file keeps later starts from succeeding.
ComesBack == phase = "down" ~> phase = "serving"

\* When the transfer counts as a success, the file holds a document that was
\* published, and it still does when DownloadConfigFile returns without an
\* exception and the file is loaded.
DownloadedOrThrown == phase \in {"closing", "loading"} => file \in seen

=============================================================================

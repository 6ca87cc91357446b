-------------------------- MODULE ConfigBootProofs --------------------------
(***************************************************************************)
(* Theorems about ConfigBoot, for any set of documents and any number of   *)
(* kills: what an unreloaded process serves was published while it booted, *)
(* and what alone can make a download return without a document.           *)
(***************************************************************************)
EXTENDS ConfigBoot, TLAPS

LEMMA StepType == TypeOK /\ [Next]_vars => TypeOK'
<1> USE DEF TypeOK, Phases
<1> SUFFICES ASSUME TypeOK, [Next]_vars PROVE TypeOK'
  OBVIOUS
<1>1. CASE PublishDocument \/ Start
  BY <1>1 DEF PublishDocument, Start
<1>2. CASE Killed
  <2>1. kills' \in 0 .. MaxKills
    BY <1>2, MaxKillsAssumption DEF Killed
  <2> QED
    BY <1>2, <2>1, Zenon DEF Killed, Down
<1>3. CASE OpenOutputFile \/ TransferFails
  BY <1>3 DEF OpenOutputFile, TransferFails, Down, Debris
<1>4. CASE ReceiveChunk \/ CloseOutputFile \/ TransferSucceeds
  BY <1>4 DEF ReceiveChunk, CloseOutputFile, TransferSucceeds, Debris
<1>5. CASE LoadConfigurationsFromFile \/ HotReload
  BY <1>5 DEF LoadConfigurationsFromFile, HotReload, Down
<1>6. CASE UNCHANGED vars
  BY <1>6 DEF vars
<1> QED
  BY <1>1, <1>2, <1>3, <1>4, <1>5, <1>6 DEF Next, Boot

\* A document in the file of a process that is past its download, and the one
\* it then serves, were published while it ran; before, the file holds none.
Fetched ==
    /\ phase # "down" => published \in seen
    /\ phase = "downloading" => file \notin Docs
    /\ phase \in {"closing", "loading"} => (file \in Docs => file \in seen)
    /\ ServesWhatItDownloaded

LEMMA StepFetched == TypeOK /\ Fetched /\ [Next]_vars => Fetched'
<1> USE DEF Fetched, ServesWhatItDownloaded
<1> SUFFICES ASSUME TypeOK, Fetched, [Next]_vars PROVE Fetched'
  OBVIOUS
<1>1. \A d \in Debris : d \notin Docs
  BY DocsAssumption
<1>2. CASE PublishDocument
  BY <1>2 DEF PublishDocument, TypeOK
<1>3. CASE Start
  BY <1>3 DEF Start
<1>4. CASE Killed \/ TransferFails
  BY <1>4 DEF Killed, TransferFails, Down
<1>5. CASE OpenOutputFile
  BY <1>1, <1>5 DEF OpenOutputFile, Down, Debris
<1>6. CASE ReceiveChunk
  BY <1>1, <1>6 DEF ReceiveChunk, Debris
<1>7. CASE TransferSucceeds
  BY <1>1, <1>7 DEF TransferSucceeds, Debris
<1>8. CASE CloseOutputFile
  BY <1>1, <1>8 DEF CloseOutputFile, Debris
<1>9. CASE LoadConfigurationsFromFile
  BY <1>9 DEF LoadConfigurationsFromFile, Down
<1>10. CASE HotReload
  BY <1>10 DEF HotReload
<1>11. CASE UNCHANGED vars
  BY <1>11 DEF vars
<1> QED
  BY <1>2, <1>3, <1>4, <1>5, <1>6, <1>7, <1>8, <1>9, <1>10, <1>11 DEF Next, Boot

LEMMA InitHolds == Init => TypeOK /\ Fetched
<1>1. 0 \in 0 .. MaxKills
  BY MaxKillsAssumption
<1>2. Init => TypeOK
  BY <1>1, Zenon DEF Init, TypeOK, Phases, Debris
<1> QED
  BY <1>2 DEF Init, Fetched, ServesWhatItDownloaded

\* The variables of ConfigBoot keep their types; the file holds a document or
\* one of the four kinds of debris.
THEOREM TypeCorrect == Spec => []TypeOK
BY InitHolds, StepType, PTL DEF Spec

\* A process that serves, and was not reloaded, serves a document published
\* during its own boot, however often and wherever its forerunners were killed.
THEOREM BootsOnWhatWasPublished == Spec => []ServesWhatItDownloaded
<1>1. Fetched => ServesWhatItDownloaded
  BY DEF Fetched
<1> QED
  BY <1>1, InitHolds, StepType, StepFetched, PTL DEF Spec

-----------------------------------------------------------------------------
(***************************************************************************)
(* DownloadConfigFile may return with no document in the file, and there   *)
(* are two ways to that: a page that came with an HTTP error status, and a *)
(* rest of the buffer that could not be written.  There is no third.       *)
(***************************************************************************)
ErrorPageDelivered == TransferSucceeds /\ file' = "errorPage"

FlushLost == CloseOutputFile /\ file' # file

Intact == [][~ErrorPageDelivered /\ ~FlushLost]_vars

LEMMA StepDownloaded ==
    ASSUME TypeOK, Fetched, DownloadedOrThrown, [Next]_vars,
           [~ErrorPageDelivered /\ ~FlushLost]_vars
    PROVE  DownloadedOrThrown'
<1> USE DEF DownloadedOrThrown
<1>1. CASE PublishDocument
  BY <1>1 DEF PublishDocument
<1>2. CASE Start \/ Killed \/ TransferFails
  BY <1>2 DEF Start, Killed, TransferFails, Down
<1>3. CASE OpenOutputFile \/ ReceiveChunk
  BY <1>3 DEF OpenOutputFile, ReceiveChunk, Down
<1>4. CASE TransferSucceeds
  <2>1. file' # "errorPage" \/ UNCHANGED vars
    BY <1>4 DEF ErrorPageDelivered
  <2>2. phase = "downloading" /\ phase' = "closing" /\ seen' = seen
        /\ file' \in {published, "errorPage"}
    BY <1>4 DEF TransferSucceeds
  <2>3. file' = published
    BY <2>1, <2>2 DEF vars
  <2> QED
    BY <2>2, <2>3 DEF Fetched
<1>5. CASE CloseOutputFile
  <2>1. file' = file
    BY <1>5 DEF FlushLost, vars
  <2> QED
    BY <1>5, <2>1 DEF CloseOutputFile
<1>6. CASE LoadConfigurationsFromFile \/ HotReload
  BY <1>6 DEF LoadConfigurationsFromFile, HotReload, Down
<1>7. CASE UNCHANGED vars
  BY <1>7 DEF vars
<1> QED
  BY <1>1, <1>2, <1>3, <1>4, <1>5, <1>6, <1>7 DEF Next, Boot

\* As long as no error page is delivered and every flush succeeds, a download
\* that returns without an exception has left a published document in the
\* file, however often the process is killed and its file found in pieces:
\* what refutes DownloadedOrThrown are those two omissions of the code alone.
THEOREM OnlyTwoOmissions == Spec /\ Intact => []DownloadedOrThrown
<1>1. Init => DownloadedOrThrown
  BY DEF Init, DownloadedOrThrown
<1>2. TypeOK /\ Fetched /\ DownloadedOrThrown /\ [Next]_vars
          /\ [~ErrorPageDelivered /\ ~FlushLost]_vars => DownloadedOrThrown'
  BY StepDownloaded
<1>3. Spec => [](TypeOK /\ Fetched)
  BY InitHolds, StepType, StepFetched, PTL DEF Spec
<1> QED
  BY <1>1, <1>2, <1>3, PTL DEF Spec, Intact

=============================================================================

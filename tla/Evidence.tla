------------------------------ MODULE Evidence ------------------------------
(***************************************************************************)
(* The read side of one evidra server: GET /v1/changes paging through the *)
(* change list (ChangeAggregation) and POST /v1/exports requests          *)
(* (Export) run concurrently with each other and with the ingest of new   *)
(* events into the one repository they both read.  Each HTTP request step *)
(* is one step of its component; the other component's state is left      *)
(* alone by it, and an ingest changes only the shared store.              *)
(***************************************************************************)
EXTENDS Export

CONSTANTS PageLimit, ChangeFilters

VARIABLES filter, cursor, returned, done, snapshot

CA == INSTANCE ChangeAggregation

caVars     == <<filter, cursor, returned, done, snapshot>>
exportVars == <<clock, jobs, files, req, fetched, lostWrites>>
allVars    == <<store, caVars, exportVars>>

EvidenceInit == Init /\ CA!Init

\* Repository.IngestEvent of a new event (the accept branch of store.go).
Ingest(e) ==
  /\ e \notin store
  /\ store' = store \cup {e}
  /\ UNCHANGED <<caVars, exportVars>>

EvidenceNext ==
  \/ CA!FetchChanges /\ UNCHANGED exportVars
  \/ /\ \/ \E c \in Clients, f \in Filters : CreateExport(c, f)
        \/ \E c \in Clients : FetchItems(c) \/ WritePack(c) \/ CompleteExport(c)
     /\ UNCHANGED caVars
  \/ \E e \in Universe : Ingest(e)

EvidenceSpec == EvidenceInit /\ [][EvidenceNext]_allVars

-----------------------------------------------------------------------------
\* The change list's paging properties, stated in ChangeAggregation, hold
\* while exports run beside it.

\* Each change's summary (result, health, initiator, times, count) is the
\* one spec §4.4 defines from the events of its group.
ChangeSummaryMatchesSpec == CA!ChangeSummaryMatchesSpec

\* No change id is returned on two pages of one cursor walk, however
\* events are ingested between the pages (applyChangeCursor over a list
\* rebuilt from the first QueryLimit timeline events at every request).
ChangePagesNeverRepeat == CA!ChangePagesNeverRepeat

\* A cursor walk with no ingest during it returns exactly the changes of a
\* single request without limit, in order.
ChangePagesEqualSingleQuery == CA!ChangePagesEqualSingleQuery

\* The evidence sub-view lists each change's supporting observations and
\* its approvals once per key.
EvidenceViewMatchesSpec == CA!EvidenceViewMatchesSpec

=============================================================================

---------------------------- MODULE ArgoCollector ----------------------------
(***************************************************************************)
(* The GitOps collector of ingest/argo/collector.go in watch mode: an      *)
(* informer delivers every update of an Argo CD Application to             *)
(* handleAppEvent, which synthesises one "argo.sync.finished" source event *)
(* from the object, filters it through the per-application checkpoint      *)
(* cursor (shouldProcess), normalises it (normalize.go), ingests it into   *)
(* the repository, advances the cursor and saves the checkpoint file       *)
(* (checkpoint.go).  On start the collector loads the checkpoint and the   *)
(* informer's initial list delivers the current object again.              *)
(*                                                                         *)
(* The Application itself is changed by the Argo CD controller, which is   *)
(* outside this repository; it is modelled only through the status fields *)
(* handleAppEvent reads: status.sync.revision and .status,                 *)
(* status.operationState.phase and .finishedAt, and the last entry of      *)
(* status.history (id, revision, deployedAt).  Health-only updates change  *)
(* nothing handleAppEvent decides on and are covered by Refresh.           *)
(*                                                                         *)
(* One application is modelled (the cursor map is keyed by its uid).  The *)
(* event id handleAppEvent mints is uid + "-" + time.Now().UnixNano(), so  *)
(* every ingest is of a fresh id and the repository never answers         *)
(* "duplicate": the store is the sequence of records ingested.             *)
(***************************************************************************)
EXTENDS Naturals, Sequences, FiniteSets

CONSTANTS
  Revisions,    \* git revisions the application can be synced to
  MaxCommits,   \* bound on new target revisions
  MaxSyncs,     \* bound on sync operations the controller starts
  MaxClock,     \* bound on the wall clock
  MaxQueue,     \* bound on undelivered informer notifications
  MaxFailures,  \* bound on transient ingest failures
  MaxRestarts,  \* bound on collector process restarts
  MaxGaps,      \* bound on watch disconnections
  InMemoryRepository \* every start of the process gets the in-memory repository

ASSUME InMemoryRepository \in BOOLEAN

VARIABLES
  \* Argo CD controller (environment)
  syncRev,      \* status.sync.revision ("" before the first comparison)
  syncStatus,   \* status.sync.status
  opPhase,      \* status.operationState.phase ("" when no operation)
  opFinishedAt, \* status.operationState.finishedAt (0 when absent)
  history,      \* status.history: sequence of [id, rev, deployedAt]
  syncs,        \* number of sync operations started (bound only)
  commits,      \* number of new target revisions (bound only)
  clock,        \* wall clock
  \* collector
  watching,     \* the informer's watch is connected
  gaps,         \* number of watch disconnections (bound only)
  queue,        \* informer notifications not yet handled (object snapshots)
  inflight,     \* source event ingested but not yet checkpointed, or None
  cursor,       \* c.appCursors[uid] (in memory)
  saved,        \* the checkpoint file's entry for uid
  restarts,     \* number of restarts (bound only)
  failures,     \* number of failed ingests (bound only)
  \* repository
  store,        \* events ingested by the collector, in order
  epochs        \* history variable: the restart count at each ingest of store

ctrlVars == <<syncRev, syncStatus, opPhase, opFinishedAt, history, syncs, commits>>
collVars == <<watching, gaps, queue, inflight, cursor, saved, restarts, failures>>
vars == <<ctrlVars, clock, collVars, store, epochs>>

None == [none |-> TRUE]
NoRev == ""

\* The checkpoint file after a crash in the middle of os.WriteFile: it
\* exists but does not parse.
Torn == [torn |-> TRUE]

Phases == {"", "Running", "Succeeded", "Failed"}
HistoryEntry == [id : Nat, rev : Revisions, deployedAt : 0..MaxClock]

\* The Application object as the informer hands it to handleAppEvent.
Snapshot == [syncRev : Revisions \cup {NoRev}, syncStatus : {"Synced", "OutOfSync"},
             opPhase : Phases, opFinishedAt : 0..MaxClock,
             lastHist : HistoryEntry \cup {None}]

CurrentSnapshot ==
  [syncRev |-> syncRev, syncStatus |-> syncStatus, opPhase |-> opPhase,
   opFinishedAt |-> opFinishedAt,
   lastHist |-> IF history = <<>> THEN None ELSE history[Len(history)]]

\* AppCheckpoint (checkpoint.go); LastStartKey and LastHealth are only
\* written for argo.sync.started / argo.health.changed, which the watch
\* path never emits, so they stay "" and are left out.
AppCheckpoint == [lastHistoryID : Nat, lastHistoryAt : 0..MaxClock,
                  lastTerminalKey : Revisions \cup {NoRev}]
ZeroCheckpoint == [lastHistoryID |-> 0, lastHistoryAt |-> 0, lastTerminalKey |-> NoRev]

\* loadCheckpoint: a file that fails to parse is logged and the cursor map
\* stays empty.
Loaded(file) == IF file = Torn THEN ZeroCheckpoint ELSE file

SourceEvent == [historyID : Nat, operationKey : Revisions \cup {NoRev},
                result : Phases \cup {"Synced", "OutOfSync"}, occurred : 0..MaxClock]

\* A stored event, reduced to the extensions the properties read:
\* history_id, operation_id, argo_result, and the event time.
Record == SourceEvent

\* Faulty variant: reads the first history entry instead of the last.
SourceEventFirstHist(s) ==
  LET h == IF s.lastHist = None THEN None ELSE [s.lastHist EXCEPT !.id = 1]
  IN [historyID    |-> IF h = None THEN 0 ELSE h.id,
      operationKey |-> IF s.syncRev /= NoRev THEN s.syncRev
                       ELSE IF h = None THEN NoRev ELSE h.rev,
      result       |-> IF s.opPhase /= "" THEN s.opPhase ELSE s.syncStatus,
      occurred     |-> IF h /= None THEN h.deployedAt
                       ELSE IF s.opFinishedAt /= 0 THEN s.opFinishedAt
                       ELSE clock]

(***************************************************************************)
(* handleAppEvent, lines building se: the operation key is the sync        *)
(* revision, else the last history entry's revision; the result is the    *)
(* operation phase, else the sync status; the time is the last history     *)
(* entry's deployedAt, else operationState.finishedAt, else time.Now().    *)
(***************************************************************************)
SourceEventOf(s) ==
  LET histRev == IF s.lastHist = None THEN NoRev ELSE s.lastHist.rev
  IN [historyID    |-> IF s.lastHist = None THEN 0 ELSE s.lastHist.id,
      operationKey |-> IF s.syncRev /= NoRev THEN s.syncRev ELSE histRev,
      result       |-> IF s.opPhase /= "" THEN s.opPhase ELSE s.syncStatus,
      occurred     |-> IF s.lastHist /= None THEN s.lastHist.deployedAt
                       ELSE IF s.opFinishedAt /= 0 THEN s.opFinishedAt
                       ELSE clock]

\* Faulty variant: an off-by-one in the history comparison.
shouldProcessGE(se, cp) ==
  IF se.historyID > 0
  THEN se.historyID >= cp.lastHistoryID
  ELSE se.operationKey /= NoRev /\ se.operationKey /= cp.lastTerminalKey

\* shouldProcess, case "argo.sync.finished".
shouldProcess(se, cp) ==
  IF se.historyID > 0
  THEN \/ se.historyID > cp.lastHistoryID
       \/ se.historyID = cp.lastHistoryID /\ se.occurred > cp.lastHistoryAt
  ELSE se.operationKey /= NoRev /\ se.operationKey /= cp.lastTerminalKey

\* advanceCheckpoint, case "argo.sync.finished".
advanceCheckpoint(cp, se) ==
  IF se.historyID > 0
  THEN [cp EXCEPT !.lastHistoryID = IF se.historyID > @ THEN se.historyID ELSE @,
                  !.lastHistoryAt = IF se.occurred > @ THEN se.occurred ELSE @]
  ELSE IF se.operationKey /= NoRev
       THEN [cp EXCEPT !.lastTerminalKey = se.operationKey]
       ELSE cp

\* Faulty variant: the record drops history_id when it is not positive.
NormalizeOmitting(se) ==
  IF se.historyID > 0 THEN se
  ELSE [operationKey |-> se.operationKey, result |-> se.result, occurred |-> se.occurred]

\* NormalizeSourceEvent: the record carries history_id only when positive
\* and operation_id only when non-empty; both are kept here as 0 / "".
Normalize(se) == se

TypeOK ==
  /\ syncRev \in Revisions \cup {NoRev}
  /\ syncStatus \in {"Synced", "OutOfSync"}
  /\ opPhase \in Phases
  /\ opFinishedAt \in 0..MaxClock
  /\ history \in Seq(HistoryEntry)
  /\ clock \in 0..MaxClock
  /\ queue \in Seq(Snapshot)
  /\ inflight \in SourceEvent \cup {None}
  /\ cursor \in AppCheckpoint
  /\ saved \in AppCheckpoint \cup {Torn}
  /\ watching \in BOOLEAN
  /\ store \in Seq(Record)
  /\ epochs \in Seq(0..MaxRestarts)

Init ==
  /\ syncRev = NoRev
  /\ syncStatus = "OutOfSync"
  /\ opPhase = ""
  /\ opFinishedAt = 0
  /\ history = <<>>
  /\ syncs = 0
  /\ commits = 0
  /\ clock = 1
  /\ watching = TRUE
  /\ gaps = 0
  /\ queue = <<CurrentSnapshot>>   \* the informer's initial list
  /\ inflight = None
  /\ cursor = ZeroCheckpoint        \* no checkpoint file yet
  /\ saved = ZeroCheckpoint
  /\ restarts = 0
  /\ failures = 0
  /\ store = <<>>
  /\ epochs = <<>>

-----------------------------------------------------------------------------
(***************************************************************************)
(* The Argo CD controller.  Every change of the Application is delivered   *)
(* by the watch as an update notification carrying the new object, unless *)
(* the watch is disconnected: the change is then never notified.           *)
(***************************************************************************)
Notify == queue' = IF watching THEN Append(queue, CurrentSnapshot') ELSE queue

\* A new commit becomes the comparison target.
NewRevision(r) ==
  /\ commits < MaxCommits /\ Len(queue) < MaxQueue
  /\ r /= syncRev
  /\ opPhase /= "Running"
  /\ syncRev' = r
  /\ syncStatus' = "OutOfSync"
  /\ commits' = commits + 1
  /\ UNCHANGED <<watching, gaps, opPhase, opFinishedAt, history, syncs, clock, inflight, cursor,
                 saved, restarts, failures, store, epochs>>
  /\ Notify

\* A sync operation (automated or manual) starts on the target revision.
StartSync ==
  /\ syncs < MaxSyncs /\ Len(queue) < MaxQueue
  /\ syncRev /= NoRev
  /\ opPhase /= "Running"
  /\ opPhase' = "Running"
  /\ opFinishedAt' = 0
  /\ syncs' = syncs + 1
  /\ UNCHANGED <<watching, gaps, syncRev, syncStatus, history, commits, clock, inflight, cursor,
                 saved, restarts, failures, store, epochs>>
  /\ Notify

\* The operation succeeds: a history entry with the next id is recorded.
SyncSucceeded ==
  /\ opPhase = "Running" /\ Len(queue) < MaxQueue
  /\ opPhase' = "Succeeded"
  /\ opFinishedAt' = clock
  /\ syncStatus' = "Synced"
  /\ history' = Append(history, [id |-> Len(history) + 1, rev |-> syncRev,
                                  deployedAt |-> clock])
  /\ UNCHANGED <<watching, gaps, syncRev, syncs, commits, clock, inflight, cursor, saved,
                 restarts, failures, store, epochs>>
  /\ Notify

\* The operation fails: no history entry is recorded.
SyncFailed ==
  /\ opPhase = "Running" /\ Len(queue) < MaxQueue
  /\ opPhase' = "Failed"
  /\ opFinishedAt' = clock
  /\ UNCHANGED <<watching, gaps, syncRev, syncStatus, history, syncs, commits, clock, inflight,
                 cursor, saved, restarts, failures, store, epochs>>
  /\ Notify

\* Periodic reconciliation (or a health-only change) updates the object
\* without changing any field handleAppEvent decides on.
Refresh ==
  /\ watching
  /\ Len(queue) < MaxQueue
  /\ queue' = Append(queue, CurrentSnapshot)
  /\ UNCHANGED <<ctrlVars, clock, watching, gaps, inflight, cursor, saved, restarts,
                 failures, store, epochs>>

Tick ==
  /\ clock < MaxClock
  /\ clock' = clock + 1
  /\ UNCHANGED <<ctrlVars, collVars, store, epochs>>

(***************************************************************************)
(* buildRepository (bootstrap/runtime.go), on every start of the process:  *)
(* with no database configured, or when the database cannot be opened,    *)
(* answers no ping within 10 s, fails its migration or its repository     *)
(* init, the process runs on a new, empty in-memory repository; otherwise *)
(* on the SQL database, which keeps every event ingested before.  The     *)
(* checkpoint file is not touched either way.                             *)
(***************************************************************************)
StartRepository ==
  /\ store' = IF InMemoryRepository THEN <<>> ELSE store
  /\ epochs' = IF InMemoryRepository THEN <<>> ELSE epochs

-----------------------------------------------------------------------------
(***************************************************************************)
(* The collector.  The informer calls handleAppEvent for one notification  *)
(* at a time.  Its ingest is a blocking repository call, so a restart can  *)
(* fall between the ingest and the checkpoint save that follows it.        *)
(***************************************************************************)
Handling == inflight = None /\ queue /= <<>>
HeadEvent == SourceEventOf(Head(queue))

\* handleAppEvent returns early: shouldProcess rejects the event.
SkipAppEvent ==
  /\ Handling
  /\ ~shouldProcess(HeadEvent, cursor)
  /\ queue' = Tail(queue)
  /\ UNCHANGED <<ctrlVars, clock, watching, gaps, inflight, cursor, saved, restarts,
                 failures, store, epochs>>

\* handleAppEvent: Normalize and Sink.IngestEvent succeed.
IngestAppEvent ==
  /\ Handling
  /\ shouldProcess(HeadEvent, cursor)
  /\ store' = Append(store, Normalize(HeadEvent))
  /\ epochs' = Append(epochs, restarts)
  /\ inflight' = HeadEvent
  /\ queue' = Tail(queue)
  /\ UNCHANGED <<ctrlVars, clock, watching, gaps, cursor, saved, restarts, failures>>

\* Faulty variant: the cursor is advanced before the ingest, which fails.
IngestFailsAdvancing ==
  /\ Handling
  /\ failures < MaxFailures
  /\ shouldProcess(HeadEvent, cursor)
  /\ failures' = failures + 1
  /\ queue' = Tail(queue)
  /\ cursor' = advanceCheckpoint(cursor, HeadEvent)
  /\ saved' = cursor'
  /\ UNCHANGED <<ctrlVars, clock, watching, gaps, inflight, restarts, store, epochs>>

\* handleAppEvent: Sink.IngestEvent fails (storage error); the error is
\* logged and the notification is dropped without touching the cursor.
IngestFails ==
  /\ Handling
  /\ failures < MaxFailures
  /\ shouldProcess(HeadEvent, cursor)
  /\ failures' = failures + 1
  /\ queue' = Tail(queue)
  /\ UNCHANGED <<ctrlVars, clock, watching, gaps, inflight, cursor, saved, restarts,
                 store, epochs>>

\* handleAppEvent, last two lines: advanceCheckpoint, then saveCheckpoint,
\* whose failure is only logged.
AdvanceAndSave ==
  /\ inflight /= None
  /\ cursor' = advanceCheckpoint(cursor, inflight)
  /\ saved' \in {cursor', saved}
  /\ inflight' = None
  /\ UNCHANGED <<ctrlVars, clock, watching, gaps, queue, restarts, failures, store, epochs>>

\* The process dies (OOM kill, node loss) and starts again: NewRuntime
\* builds the repository, then Start calls loadCheckpoint and the informer's initial list delivers the current
\* object; undelivered notifications and an in-flight handler are lost.
Crash ==
  /\ restarts < MaxRestarts
  /\ cursor' = Loaded(saved)
  /\ inflight' = None
  /\ watching' = TRUE
  /\ queue' = <<CurrentSnapshot>>
  /\ restarts' = restarts + 1
  /\ StartRepository
  /\ UNCHANGED <<ctrlVars, clock, gaps, saved, failures>>

\* The process dies inside saveCheckpoint, after os.WriteFile truncated the
\* file and before it wrote all of it; on start Load fails to parse it.
TornCrash ==
  /\ restarts < MaxRestarts
  /\ inflight /= None
  /\ saved' = Torn
  /\ cursor' = ZeroCheckpoint
  /\ inflight' = None
  /\ watching' = TRUE
  /\ queue' = <<CurrentSnapshot>>
  /\ restarts' = restarts + 1
  /\ StartRepository
  /\ UNCHANGED <<ctrlVars, clock, gaps, failures>>

\* Shutdown on context cancellation: Start saves the checkpoint after
\* <-ctx.Done() (the save may fail, and a handler still in flight does not
\* get to advance the cursor), then the process starts again.
Shutdown ==
  /\ restarts < MaxRestarts
  /\ \E s \in {cursor, saved} :
       /\ saved' = s
       /\ cursor' = Loaded(s)
  /\ inflight' = None
  /\ watching' = TRUE
  /\ queue' = <<CurrentSnapshot>>
  /\ restarts' = restarts + 1
  /\ StartRepository
  /\ UNCHANGED <<ctrlVars, clock, gaps, failures>>

\* The watch connection drops (API server restart, watch timeout).
WatchDrops ==
  /\ watching
  /\ gaps < MaxGaps
  /\ watching' = FALSE
  /\ gaps' = gaps + 1
  /\ UNCHANGED <<ctrlVars, clock, queue, inflight, cursor, saved, restarts, failures,
                 store, epochs>>

\* The reflector re-lists and re-watches: the current object is delivered
\* once, and the changes made while disconnected are never delivered.
Relist ==
  /\ ~watching
  /\ Len(queue) < MaxQueue
  /\ watching' = TRUE
  /\ queue' = Append(queue, CurrentSnapshot)
  /\ UNCHANGED <<ctrlVars, clock, gaps, inflight, cursor, saved, restarts, failures,
                 store, epochs>>

ControllerNext ==
  \/ \E r \in Revisions : NewRevision(r)
  \/ StartSync \/ SyncSucceeded \/ SyncFailed \/ Refresh \/ Tick

CollectorNext ==
  \/ SkipAppEvent \/ IngestAppEvent \/ IngestFails \/ AdvanceAndSave
  \/ WatchDrops \/ Relist

\* Without process restarts.
Next == ControllerNext \/ CollectorNext

\* With crashes and graceful restarts.
NextRestart == Next \/ Crash \/ TornCrash \/ Shutdown

\* The informer goroutine keeps delivering queued notifications, Argo CD
\* re-reconciles every application periodically (timeout.reconciliation),
\* and the reflector retries a dropped watch with backoff.
Fairness ==
  /\ WF_vars(SkipAppEvent \/ IngestAppEvent \/ IngestFails)
  /\ WF_vars(AdvanceAndSave)
  /\ WF_vars(Refresh)
  /\ WF_vars(Relist)

Spec        == Init /\ [][Next]_vars /\ Fairness
SpecRestart == Init /\ [][NextRestart]_vars /\ Fairness

-----------------------------------------------------------------------------
(***************************************************************************)
(* Properties.                                                             *)
(***************************************************************************)

Recorded(hid) == \E i \in 1..Len(store) : store[i].historyID = hid

\* Replaying the Application after restart or re-delivery is idempotent:
\* each history entry of the controller is ingested at most once.
HistoryIngestedOnce ==
  \A i, j \in 1..Len(store) :
    (i < j /\ store[i].historyID > 0) => store[j].historyID /= store[i].historyID

\* Within one run of the collector process each history entry is ingested
\* at most once: the in-memory cursor dedups every re-delivery, so a
\* re-ingest can only follow a restart.
HistoryIngestedOncePerRun ==
  \A i, j \in 1..Len(store) :
    (i < j /\ store[i].historyID > 0 /\ epochs[i] = epochs[j])
      => store[j].historyID /= store[i].historyID

\* The checkpoint, in memory and on disk, never runs ahead of the
\* repository: every position it records was ingested, so an event can
\* never be skipped because its position was checkpointed first.
CheckpointBehindStore ==
  \A cp \in {cursor, saved} \ {Torn} :
    /\ cp.lastHistoryID > 0 => Recorded(cp.lastHistoryID)
    /\ cp.lastTerminalKey /= NoRev =>
         \E i \in 1..Len(store) : store[i].operationKey = cp.lastTerminalKey

\* Every sync operation that reached a terminal phase has its result in the
\* repository once the collector is watching (so the terminal object was
\* delivered, by an update or by the re-list) and has handled every
\* notification: handleAppEvent's shouldProcess must not skip it.
TerminalResultRecorded ==
  (watching /\ queue = <<>> /\ inflight = None /\ opPhase \in {"Succeeded", "Failed"})
    => \E i \in 1..Len(store) : /\ store[i].result = opPhase
                                 /\ store[i].operationKey = syncRev

\* The latest deployment the controller recorded eventually reaches the
\* repository, despite transient ingest failures and restarts.
LatestDeploymentRecorded ==
  <>[](history /= <<>> => Recorded(history[Len(history)].id))
=============================================================================

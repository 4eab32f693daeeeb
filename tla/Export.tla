------------------------------- MODULE Export -------------------------------
(***************************************************************************)
(* POST /v1/exports (api/handlers_exports.go -> Service.CreateExport,     *)
(* app/service.go): the handler creates a pending job record, fetches the *)
(* subject's events through the timeline, writes the evidence pack to     *)
(* <baseDir>/<jobID>.json (export/fs.go) and marks the job completed,     *)
(* then re-reads it for the 202 answer.  A failed fetch or pack write     *)
(* marks the job failed (the error of that update is ignored).  Several   *)
(* requests run concurrently with ingest.                                  *)
(*                                                                         *)
(* The repository is the SQL one: every statement on the exports table   *)
(* may fail (the in-memory repository is the case where none does).  A    *)
(* job id is exp_<UnixNano> read at creation; two creations are assumed   *)
(* to read different nanoseconds, so the clock advances at every one.     *)
(***************************************************************************)
EXTENDS EvidenceEvents

CONSTANTS
  Clients,  \* concurrent export requests
  Filters,  \* "complete", "partial" (from, to or subject empty), "invalid"
  MaxJobs   \* bound on the number of jobs created (the clock's range)

JobIds == 0..MaxJobs - 1

VARIABLES
  store,      \* the events in the repository
  clock,      \* time.Now().UnixNano() at the next creation
  jobs,       \* the exports table: id -> job record, or None
  files,      \* the artifact directory: path -> evidence pack, or None
  req,        \* per client: the handler's progress
  fetched,    \* history: the items each job's request fetched (<<>> before)
  lostWrites  \* history: jobs a statement on which returned an error

vars == <<store, clock, jobs, files, req, fetched, lostWrites>>

None == [none |-> TRUE]

Idle == [pc |-> "idle", job |-> NoValue, filter |-> NoValue, items |-> <<>>]

(***************************************************************************)
(* The evidence pack (CreateEvidencePack): the sorted events and the       *)
(* primary change derived from them.  generated_at, created_at and the     *)
(* two checksums are functions of these or of the wall clock.              *)
(***************************************************************************)
ExportSuccessWords == {"Succeeded", "Completed"}
ExportFailWords    == {"Failed", "Error", "Degraded"}

\* One iteration of the loop of derivePrimaryChange: the correlation
\* fields come from the extensions only.
DeriveStep(out, e) ==
  [revision  |-> IF out.revision = NoValue THEN e.rev ELSE out.revision,
   initiator |-> IF out.initiator = NoValue THEN e.initiator ELSE out.initiator,
   xcid      |-> IF out.xcid = NoValue
                 THEN FirstNonEmpty(<<e.ext["external_change_id"], e.ext["change_id"]>>)
                 ELSE out.xcid,
   ticket    |-> IF out.ticket = NoValue
                 THEN FirstNonEmpty(<<e.ext["ticket_id"], e.ext["ticket_key_primary"]>>)
                 ELSE out.ticket,
   degraded  |-> out.degraded,
   result    |-> IF e.status \in ExportFailWords THEN "failed"
                 ELSE IF out.result /= "failed" /\ e.status \in ExportSuccessWords
                 THEN "succeeded" ELSE out.result]

\* post_deploy_degradation is the literal {"observed": false}.
DerivePrimaryChange(evs) ==
  LET empty == [revision |-> NoValue, initiator |-> NoValue, xcid |-> NoValue,
                ticket |-> NoValue, degraded |-> FALSE]
  IN IF evs = <<>> THEN [empty EXCEPT !.degraded = NoValue] @@ [result |-> NoValue]
     ELSE FoldLeft(DeriveStep, empty @@ [result |-> "unknown"], evs)

Pack(items) ==
  LET evs == SortSeq(items, EventBefore)
  IN [timeline |-> evs, change |-> DerivePrimaryChange(evs)]

\* Faulty variant: every pack is written to the same file.
PackPathShared(id) == 0

\* filepath.Join(f.baseDir, jobID + ".json").
PackPath(id) == id

TypeOK ==
  /\ store \subseteq Universe
  /\ clock \in 0..MaxJobs
  /\ jobs \in [JobIds -> [status : {"pending", "completed", "failed"},
                          filter : Filters, artifact : JobIds \cup {NoValue}]
                         \cup {None}]
  /\ \A p \in JobIds : files[p] = None \/ DOMAIN files[p] = {"timeline", "change"}
  /\ \A c \in Clients : req[c].pc \in {"idle", "created", "fetched", "packed"}
  /\ fetched \in [JobIds -> Seq(Universe)]
  /\ lostWrites \subseteq JobIds

Init ==
  /\ store \in SUBSET Universe
  /\ clock = 0
  /\ jobs = [id \in JobIds |-> None]
  /\ files = [p \in JobIds |-> None]
  /\ req = [c \in Clients |-> Idle]
  /\ fetched = [id \in JobIds |-> <<>>]
  /\ lostWrites = {}

\* Faulty variant: the failure path forgets to call SetExportFailed.
MarkFailedSkipped(id) == UNCHANGED <<jobs, lostWrites>>

\* SetExportFailed, whose error the service ignores.
MarkFailed(id) ==
  \/ /\ jobs' = [jobs EXCEPT ![id].status = "failed"]
     /\ UNCHANGED lostWrites
  \/ /\ UNCHANGED jobs
     /\ lostWrites' = lostWrites \cup {id}

\* The request ends; the handler answers with an error.
EndRequest(c) == req' = [req EXCEPT ![c] = Idle]

\* handleExports -> CreateExport: INSERT a pending job, then GetExport it.
\* If the insert fails no job exists; if the re-read fails the job exists
\* but the handler answers with the error and goes no further.
CreateExport(c, f) ==
  LET job == [status |-> "pending", filter |-> f, artifact |-> NoValue] IN
  /\ req[c].pc = "idle"
  /\ clock < MaxJobs
  /\ clock' = clock + 1
  /\ \/ /\ jobs' = [jobs EXCEPT ![clock] = job]
        /\ req' = [req EXCEPT ![c] = [pc |-> "created", job |-> clock,
                                      filter |-> f, items |-> <<>>]]
        /\ UNCHANGED lostWrites
     \/ /\ UNCHANGED <<jobs, req, lostWrites>>
     \/ /\ jobs' = [jobs EXCEPT ![clock] = job]
        /\ lostWrites' = lostWrites \cup {clock}
        /\ UNCHANGED req
  /\ UNCHANGED <<store, files, fetched>>

\* exportItemsForJob: a filter without from, to or subject exports no
\* events; one that does not parse fails; otherwise QueryTimeline (which
\* may fail) returns the items.  A failure marks the job failed and ends
\* the request.
FetchItems(c) ==
  LET id == req[c].job IN
  /\ req[c].pc = "created"
  /\ \/ /\ req[c].filter \in {"partial", "complete"}
        /\ LET items == IF req[c].filter = "partial" THEN <<>> ELSE TimelineItems(store)
           IN /\ req' = [req EXCEPT ![c].pc = "fetched", ![c].items = items]
              /\ fetched' = [fetched EXCEPT ![id] = items]
        /\ UNCHANGED <<jobs, lostWrites>>
     \/ /\ req[c].filter \in {"invalid", "complete"}
        /\ MarkFailed(id)
        /\ EndRequest(c)
        /\ UNCHANGED fetched
  /\ UNCHANGED <<store, clock, files>>

\* Faulty variant: the handler goes on after a failed pack write.
WritePackNoReturn(c) ==
  LET id == req[c].job IN
  /\ req[c].pc = "fetched"
  /\ \/ /\ files' = [files EXCEPT ![PackPath(id)] = Pack(req[c].items)]
        /\ UNCHANGED <<jobs, lostWrites>>
     \/ /\ MarkFailed(id)
        /\ UNCHANGED files
  /\ req' = [req EXCEPT ![c].pc = "packed"]
  /\ UNCHANGED <<store, clock, fetched>>

\* CreateEvidencePack: write the pack to the job's file; MkdirAll,
\* marshalling or WriteFile may fail, which marks the job failed.
WritePack(c) ==
  LET id == req[c].job IN
  /\ req[c].pc = "fetched"
  /\ \/ /\ files' = [files EXCEPT ![PackPath(id)] = Pack(req[c].items)]
        /\ req' = [req EXCEPT ![c].pc = "packed"]
        /\ UNCHANGED <<jobs, lostWrites>>
     \/ /\ MarkFailed(id)
        /\ EndRequest(c)
        /\ UNCHANGED files
  /\ UNCHANGED <<store, clock, fetched>>

\* Faulty variant: the completed status is misspelled.
CompleteExportMisspelled(c) ==
  LET id == req[c].job IN
  /\ req[c].pc = "packed"
  /\ jobs' = [jobs EXCEPT ![id].status = "complete", ![id].artifact = PackPath(id)]
  /\ EndRequest(c)
  /\ UNCHANGED <<store, clock, files, fetched, lostWrites>>

\* SetExportCompleted, then GetExport for the 202 answer.  If the update
\* fails the handler answers with the error and the job stays pending.
CompleteExport(c) ==
  LET id == req[c].job IN
  /\ req[c].pc = "packed"
  /\ \/ /\ jobs' = [jobs EXCEPT ![id].status = "completed",
                                 ![id].artifact = PackPath(id)]
        /\ UNCHANGED lostWrites
     \/ /\ lostWrites' = lostWrites \cup {id}
        /\ UNCHANGED jobs
  /\ EndRequest(c)
  /\ UNCHANGED <<store, clock, files, fetched>>

\* A producer's event is ingested while exports run.
IngestEvent(e) ==
  /\ e \notin store
  /\ store' = store \cup {e}
  /\ UNCHANGED <<clock, jobs, files, req, fetched, lostWrites>>

Next ==
  \/ \E c \in Clients, f \in Filters : CreateExport(c, f)
  \/ \E c \in Clients : FetchItems(c) \/ WritePack(c) \/ CompleteExport(c)
  \/ \E e \in Universe : IngestEvent(e)

Spec == Init /\ [][Next]_vars

-----------------------------------------------------------------------------
(***************************************************************************)
(* Properties (spec: an export job goes pending -> completed or failed     *)
(* exactly once and is then terminal; the artifact is keyed by job id).    *)
(***************************************************************************)

\* A job record, once created, is never removed, and once completed or
\* failed it never changes again, whatever the concurrent requests do.
ExportJobsSettleOnce ==
  [][\A id \in JobIds :
       jobs[id] /= None =>
         /\ jobs'[id] /= None
         /\ jobs[id].status /= "pending" => jobs'[id] = jobs[id]]_vars

\* The artifact of a completed job (what /download returns) is the pack of
\* exactly the events that job's own request fetched.
ArtifactMatchesJob ==
  \A id \in JobIds :
    (jobs[id] /= None /\ jobs[id].status = "completed") =>
      files[jobs[id].artifact] = Pack(fetched[id])

\* A job no request is working on any more is completed or failed, unless
\* a repository statement on that job (the re-read after the insert, or a
\* status update) returned an error: the failure paths never forget a job.
NoOrphanPending ==
  \A id \in JobIds :
    (/\ jobs[id] /= None
     /\ jobs[id].status = "pending"
     /\ \A c \in Clients : req[c].job /= id)
      => id \in lostWrites
=============================================================================

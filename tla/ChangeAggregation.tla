-------------------------- MODULE ChangeAggregation --------------------------
(***************************************************************************)
(* GET /v1/changes (api/handlers_changes.go -> Service.ListChanges,        *)
(* app/changes.go): every request re-reads the subject's timeline, groups  *)
(* the events into changes by their identity, derives each change's       *)
(* summary, sorts the changes by (completed_at DESC, id ASC), filters     *)
(* them, skips to the client's cursor and cuts a page.  A client follows  *)
(* next_cursor while producers keep ingesting events.                     *)
(***************************************************************************)
EXTENDS EvidenceEvents

CONSTANTS
  PageLimit,     \* q.Limit of the client (100 by default, at most 500)
  ChangeFilters  \* the filter query parameters a client may send

VARIABLES
  store,     \* the events in the repository
  filter,    \* the client's filter query parameters
  cursor,    \* the next_cursor the client will send, or None
  returned,  \* [id, completed] of every change received so far, in order
  done,      \* a page came back without next_cursor
  snapshot   \* the events present when the client asked for the first page

vars == <<store, filter, cursor, returned, done, snapshot>>

None == [none |-> TRUE]

(***************************************************************************)
(* Per-event classification (inferResultStatus, inferHealthStatus).        *)
(***************************************************************************)
FailWords    == {"Failed", "Error", "Degraded"}
SuccessWords == {"Succeeded", "Healthy", "Completed"}

InferResultStatus(e) ==
  IF e.status \in FailWords THEN "failed"
  ELSE IF e.status \in SuccessWords THEN "succeeded"
  ELSE "unknown"

\* The health_status extension, lowercased; anything else is "unknown".
InferHealthStatus(e) ==
  IF e.health \in {"healthy", "degraded", "progressing", "missing"}
  THEN e.health ELSE "unknown"

\* Faulty variant: a later success overrides an earlier failure.
MergeResultStatusLastWins(current, next) ==
  IF next /= "unknown" THEN next ELSE current

MergeResultStatus(current, next) ==
  IF current = "failed" \/ next = "failed" THEN "failed"
  ELSE IF current = "succeeded" \/ next = "succeeded" THEN "succeeded"
  ELSE "unknown"

MergeHealthStatus(current, next) ==
  CASE next = "degraded"                              -> "degraded"
    [] next = "progressing" /\ current /= "degraded"  -> "progressing"
    [] next = "healthy" /\ current = "unknown"        -> "healthy"
    [] next = "missing" /\ current = "unknown"        -> "missing"
    [] OTHER                                          -> current

(***************************************************************************)
(* Correlation and approvals of one event.                                 *)
(***************************************************************************)
\* externalCorrelationFromEvent: the extension first (external_change_id,
\* then change_id), else the evidra.io annotation of the source payload.
ExternalCorrelation(e) ==
  [xcid        |-> FirstNonEmpty(<<e.ext["external_change_id"], e.ext["change_id"],
                                   e.ann["evidra.io/change-id"]>>),
   ticket      |-> FirstNonEmpty(<<e.ext["ticket_id"], e.ann["evidra.io/ticket"]>>),
   approvalRef |-> FirstNonEmpty(<<e.ext["approval_reference"],
                                   e.ann["evidra.io/approvals-ref"]>>)]

\* approvalsFromData: the entries of the approvals array and of the
\* approvals-json annotation, without the ones whose fields are all blank
\* (appendIfSet).
ApprovalsFromData(e) ==
  SelectSeq(e.approvals, LAMBDA a : \E f \in ApprovalFields : a[f] /= NoValue)

(***************************************************************************)
(* deriveChangeIdentity: with a reference extension (primary_reference,   *)
(* operation_id, history_id, ...) the change is the reference; without    *)
(* one it is the revision and the event's time formatted to the second.   *)
(***************************************************************************)
ChangeKey(e) ==
  IF e.ref /= NoValue THEN <<"ref", e.ref>>
  ELSE <<"rev", e.rev, RFC3339Second(e.time)>>

ChangeIdOf(e) == StableHash(ChangeKey(e))

\* The change a group's first event opens.
NewChange(e) ==
  [id |-> ChangeIdOf(e), revision |-> e.rev, initiator |-> NoValue,
   events |-> <<>>, started |-> e.time, completed |-> e.time,
   result |-> "unknown", health |-> "unknown",
   xcid |-> NoValue, ticket |-> NoValue, approvalRef |-> NoValue,
   hasApprovals |-> FALSE]

\* One iteration of the loop of buildChangesByID over the timeline items.
AddEvent(out, e) ==
  LET id  == ChangeIdOf(e)
      cur == IF id \in DOMAIN out THEN out[id] ELSE NewChange(e)
      corr == ExternalCorrelation(e)
      upd == [cur EXCEPT
                !.xcid         = IF @ = NoValue THEN corr.xcid ELSE @,
                !.ticket       = IF @ = NoValue THEN corr.ticket ELSE @,
                !.approvalRef  = IF @ = NoValue THEN corr.approvalRef ELSE @,
                !.hasApprovals = @ \/ ApprovalsFromData(e) /= <<>>,
                !.initiator = IF @ = NoValue THEN e.initiator ELSE @,
                !.events    = Append(@, e),
                !.started   = IF e.time < @ THEN e.time ELSE @,
                !.completed = IF e.time > @ THEN e.time ELSE @,
                !.result    = MergeResultStatus(@, InferResultStatus(e)),
                !.health    = MergeHealthStatus(@, InferHealthStatus(e))]
  IN [x \in DOMAIN out \cup {id} |-> IF x = id THEN upd ELSE out[x]]

\* The health scan of finalizeChange over the sorted events.
HealthScan(started, completed, acc, e) ==
  LET h == InferHealthStatus(e) IN
  IF h = "unknown" THEN acc
  ELSE [start |-> IF e.time <= started THEN h ELSE acc.start,
        end   |-> IF e.time >= completed THEN h ELSE acc.end,
        firstDegraded |->
          IF acc.firstDegraded = NoValue /\ e.time > started /\ h = "degraded"
          THEN e.time ELSE acc.firstDegraded,
        last  |-> h]

\* finalizeChange: sort the events, take started/completed from the ends,
\* and derive the health at the start, after the deploy and degradation.
FinalizeChange(c) ==
  LET evs       == SortSeq(c.events, EventBefore)
      started   == evs[1].time
      completed == evs[Len(evs)].time
      scan(acc, e) == HealthScan(started, completed, acc, e)
      h == FoldLeft(scan,
                    [start |-> "unknown", end |-> "unknown",
                     firstDegraded |-> NoValue, last |-> "unknown"], evs)
  IN [id |-> c.id, revision |-> c.revision, initiator |-> c.initiator,
      events |-> evs, started |-> started, completed |-> completed,
      count |-> Len(evs), result |-> c.result, health |-> c.health,
      xcid |-> c.xcid, ticket |-> c.ticket, approvalRef |-> c.approvalRef,
      hasApprovals |-> c.hasApprovals,
      healthStart |-> h.start,
      healthAfter |-> IF h.end = "unknown" THEN h.last ELSE h.end,
      degraded |-> h.start = "healthy" /\ h.firstDegraded /= NoValue]

BuildChangesByID(evs) ==
  LET out == FoldLeft(AddEvent, [x \in {} |-> None], evs)
  IN [id \in DOMAIN out |-> FinalizeChange(out[id])]

\* buildChanges: completed_at DESC, then id ASC.
ChangeBefore(a, b) ==
  a.completed > b.completed \/ (a.completed = b.completed /\ a.id < b.id)

BuildChanges(evs) ==
  LET byID == BuildChangesByID(evs)
  IN SetToSortSeq({byID[id] : id \in DOMAIN byID}, ChangeBefore)

\* strings.EqualFold, over the strings of the model.
EqualFold(a, b) == ToLower(a) = ToLower(b)

\* filterChanges: every parameter that is given ("" = not given) narrows
\* the list; the *_state and has_approvals values arrive lowercased.
KeepChange(c, f) ==
  /\ f.result_status = "" \/ c.result = f.result_status
  /\ f.health_status = "" \/ c.health = f.health_status
  /\ f.external_change_id_state = "set" => c.xcid /= NoValue
  /\ f.external_change_id_state = "unset" => c.xcid = NoValue
  /\ f.external_change_id = "" \/ EqualFold(c.xcid, f.external_change_id)
  /\ f.ticket_id_state = "set" => c.ticket /= NoValue
  /\ f.ticket_id_state = "unset" => c.ticket = NoValue
  /\ f.ticket_id = "" \/ EqualFold(c.ticket, f.ticket_id)
  /\ f.approval_reference = "" \/ EqualFold(c.approvalRef, f.approval_reference)
  /\ f.has_approvals = "yes" => c.hasApprovals
  /\ f.has_approvals = "no" => ~c.hasApprovals

FilterChanges(cs, f) == SelectSeq(cs, LAMBDA c : KeepChange(c, f))

\* applyChangeCursor: strictly past (cursor_ts, cursor_id) in page order.
ApplyChangeCursor(cs, cur) ==
  SelectSeq(cs, LAMBDA c : c.completed < cur.ts
                           \/ (c.completed = cur.ts /\ c.id > cur.id))

\* Faulty variant: the next cursor is taken from the first item not returned.
ListChangesFromOverflow(S, f, cur) ==
  LET cs0 == FilterChanges(BuildChanges(TimelineItems(S)), f)
      cs  == IF cur = None THEN cs0 ELSE ApplyChangeCursor(cs0, cur)
  IN IF Len(cs) > PageLimit
     THEN [items |-> SubSeq(cs, 1, PageLimit),
           next  |-> [ts |-> cs[PageLimit + 1].completed, id |-> cs[PageLimit + 1].id]]
     ELSE [items |-> cs, next |-> None]

\* ListChanges: one timeline read, build, filter, cursor, limit; the next
\* cursor encodes the last item's (completed_at, id).
ListChanges(S, f, cur) ==
  LET cs0 == FilterChanges(BuildChanges(TimelineItems(S)), f)
      cs  == IF cur = None THEN cs0 ELSE ApplyChangeCursor(cs0, cur)
  IN IF Len(cs) > PageLimit
     THEN [items |-> SubSeq(cs, 1, PageLimit),
           next  |-> [ts |-> cs[PageLimit].completed, id |-> cs[PageLimit].id]]
     ELSE [items |-> cs, next |-> None]

(***************************************************************************)
(* The views of one change (GET /v1/changes/{id}, .../timeline,           *)
(* .../evidence): each rebuilds the changes from the subject's timeline.  *)
(***************************************************************************)
NotFound == [notFound |-> TRUE]

\* GetChange after buildChangesByID: the change of that id, its events
\* sorted by (time, id).
LookupChange(byID, id) ==
  IF id \in DOMAIN byID
  THEN [byID[id] EXCEPT !.events = SortSeq(@, EventBefore)]
  ELSE NotFound

GetChange(S, id) == LookupChange(BuildChangesByID(TimelineItems(S)), id)

\* GetChangeTimeline: only the sorted events of the change.
GetChangeTimeline(S, id) ==
  LET c == GetChange(S, id) IN IF c = NotFound THEN NotFound ELSE c.events

\* The dedup key of GetChangeEvidence: source and identity lowercased.
\* Faulty variant: the key keeps their case.
ApprovalKeyCaseSensitive(a) ==
  <<a.source, a.identity, a.timestamp, a.reference, a.summary>>

ApprovalKey(a) ==
  <<ToLower(a.source), ToLower(a.identity), a.timestamp, a.reference, a.summary>>

\* The loop of GetChangeEvidence over the events of change c: the
\* supporting observations, and the approvals in event order, each key
\* kept once.
EvidenceOf(c) ==
  LET all == FoldLeft(LAMBDA acc, e : acc \o ApprovalsFromData(e), <<>>, c.events)
      keep(acc, a) == IF \E i \in DOMAIN acc : ApprovalKey(acc[i]) = ApprovalKey(a)
                      THEN acc ELSE Append(acc, a)
  IN [change     |-> c,
      supporting |-> SelectSeq(c.events, LAMBDA e : e.supporting),
      approvals  |-> FoldLeft(keep, <<>>, all)]

GetChangeEvidence(S, id) == EvidenceOf(GetChange(S, id))

\* What a client keeps of a listed change.
Summary(c) == [id |-> c.id, completed |-> c.completed]

Times     == {e.time : e \in Universe}
ChangeIds == {ChangeIdOf(e) : e \in Universe}
Cursors   == [ts : Times, id : ChangeIds]

TypeOK ==
  /\ store \subseteq Universe
  /\ filter \in ChangeFilters
  /\ cursor \in Cursors \cup {None}
  /\ returned \in Seq([id : ChangeIds, completed : Times])
  /\ done \in BOOLEAN
  /\ snapshot \subseteq Universe

\* Any store the repository can hold; the client has not asked yet.
Init ==
  /\ store \in SUBSET Universe
  /\ filter \in ChangeFilters
  /\ cursor = None
  /\ returned = <<>>
  /\ done = FALSE
  /\ snapshot = store

\* One GET /v1/changes with the client's cursor (handleChanges).
FetchChanges ==
  /\ ~done
  /\ LET p == ListChanges(store, filter, cursor) IN
       /\ returned' = returned \o [i \in DOMAIN p.items |-> Summary(p.items[i])]
       /\ IF p.next = None
          THEN done' = TRUE /\ cursor' = cursor
          ELSE cursor' = p.next /\ done' = FALSE
  /\ UNCHANGED <<store, filter, snapshot>>

\* A producer's event is ingested between two pages.
IngestEvent(e) ==
  /\ e \notin store
  /\ store' = store \cup {e}
  /\ UNCHANGED <<filter, cursor, returned, done, snapshot>>

Next ==
  \/ FetchChanges
  \/ \E e \in Universe : IngestEvent(e)

Spec == Init /\ [][Next]_vars

-----------------------------------------------------------------------------
(***************************************************************************)
(* The derivations of section 4.4 of the specification, stated over the   *)
(* set of events of a group rather than over the order the code folds     *)
(* them in.                                                                *)
(***************************************************************************)
Group(evs, id) == {evs[i] : i \in {k \in DOMAIN evs : ChangeIdOf(evs[k]) = id}}

LastOf(S) == CHOOSE e \in S : \A x \in S : x = e \/ EventBefore(x, e)
FirstOf(S) == CHOOSE e \in S : \A x \in S : x = e \/ EventBefore(e, x)

SpecResult(G) ==
  IF \E e \in G : InferResultStatus(e) = "failed" THEN "failed"
  ELSE IF \E e \in G : InferResultStatus(e) = "succeeded" THEN "succeeded"
  ELSE "unknown"

\* The latest health observation at or before the start.
SpecHealthAtStart(G, started) ==
  LET O == {e \in G : InferHealthStatus(e) /= "unknown" /\ e.time <= started}
  IN IF O = {} THEN "unknown" ELSE InferHealthStatus(LastOf(O))

\* A correlation field: the first non-empty value in event order, from the
\* extensions or the annotations.
SpecCorrelation(G, f) ==
  LET W == {e \in G : ExternalCorrelation(e)[f] /= NoValue}
  IN IF W = {} THEN NoValue ELSE ExternalCorrelation(FirstOf(W))[f]

\* post_deploy_degradation.observed: healthy at the start, and a degraded
\* observation after it.
SpecDegraded(G) ==
  LET started == Min({e.time : e \in G}) IN
  /\ SpecHealthAtStart(G, started) = "healthy"
  /\ \E e \in G : e.time > started /\ InferHealthStatus(e) = "degraded"

\* The approval identity of section 4.4 (sub-views).
SpecApprovalKey(a) ==
  <<ToLower(a.source), ToLower(a.identity), a.timestamp, a.reference, a.summary>>

SpecInitiator(G) ==
  LET I == {e \in G : e.initiator /= NoValue}
  IN IF I = {} THEN NoValue ELSE FirstOf(I).initiator

CurrentChanges == BuildChangesByID(TimelineItems(store))

\* Every change the engine builds from the current timeline groups exactly
\* the events of its identity and derives started/completed, event_count,
\* result_status, health_at_operation_start, post-deploy degradation and
\* the initiator as section 4.4 defines them, whatever events arrived.
ChangeSummaryMatchesSpec ==
  LET cs == CurrentChanges IN
  \A id \in DOMAIN cs :
    LET c == cs[id]
        G == Group(TimelineItems(store), id)
        started == Min({e.time : e \in G})
    IN /\ {c.events[i] : i \in DOMAIN c.events} = G
       /\ c.started = started
       /\ c.completed = Max({e.time : e \in G})
       /\ c.count = Cardinality(G)
       /\ c.result = SpecResult(G)
       /\ c.healthStart = SpecHealthAtStart(G, started)
       /\ c.degraded = SpecDegraded(G)
       /\ c.initiator = SpecInitiator(G)
       /\ \A f \in {"xcid", "ticket", "approvalRef"} : c[f] = SpecCorrelation(G, f)
       /\ c.hasApprovals = \E e \in G : ApprovalsFromData(e) /= <<>>

\* Following next_cursor never lists a change twice, even while events are
\* ingested between pages and move a change's completed_at.
ChangePagesNeverRepeat ==
  \A i, j \in DOMAIN returned : i < j => returned[i].id /= returned[j].id

\* With no ingest between pages, the pages together are the list a single
\* request without limit returns.
ChangePagesEqualSingleQuery ==
  (done /\ store = snapshot) =>
    LET all == FilterChanges(BuildChanges(TimelineItems(snapshot)), filter)
    IN returned = [i \in DOMAIN all |-> Summary(all[i])]

\* GET /v1/changes/{id}/evidence returns, for every change, exactly its
\* supporting observations in time order, and each approval of its events
\* once per key lower(source)|lower(identity)|timestamp|reference|summary,
\* however the same approval is repeated across events and in which case.
EvidenceViewMatchesSpec ==
  LET cs == CurrentChanges IN
  \A id \in DOMAIN cs :
    LET v  == EvidenceOf(LookupChange(cs, id))
        G  == Group(TimelineItems(store), id)
        As == UNION {Range(ApprovalsFromData(e)) : e \in G}
    IN /\ Range(v.supporting) = {e \in G : e.supporting}
       /\ \A i \in 1..Len(v.supporting) - 1 :
            EventBefore(v.supporting[i], v.supporting[i + 1])
       /\ {SpecApprovalKey(a) : a \in Range(v.approvals)} = {SpecApprovalKey(a) : a \in As}
       /\ Cardinality({SpecApprovalKey(a) : a \in Range(v.approvals)}) = Len(v.approvals)
=============================================================================

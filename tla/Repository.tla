----------------------------- MODULE Repository -----------------------------
(***************************************************************************)
(* The ingest path of the event repository: POST /v1/events               *)
(* (api/handlers_events.go) parses a CloudEvent or a batch of them         *)
(* (cloudevents/ingest.go), then hands each parsed event in turn to        *)
(* Service.IngestEvent and MemoryRepository.IngestEvent (store/store.go),  *)
(* which decides accepted / duplicate / conflict under the write lock.     *)
(*                                                                         *)
(* Several HTTP handlers run concurrently (one per client); the lock makes *)
(* each single-event ingest atomic, but a batch is ingested one event at a *)
(* time, so ingests of different requests interleave between the events   *)
(* of a batch.                                                             *)
(*                                                                         *)
(* Data abstraction: an event's body (source, type, subject, extensions,  *)
(* data) is a model value of Bodies; the integrity hash is modelled by the *)
(* canonical tuple it is computed from, so two hashes are equal exactly    *)
(* when id, body and time are (SHA-256 collisions are not modelled).       *)
(***************************************************************************)
EXTENDS Naturals, Sequences, FiniteSets

CONSTANTS
  Ids,          \* event ids producers use
  Bodies,       \* distinct event bodies
  Times,        \* event times a producer may put in the "time" field
  NoTime,       \* the "time" field is absent
  Clients,      \* concurrent HTTP requests
  MaxBatch,     \* largest batch a client posts (application/cloudevents-batch+json)
  MaxClock,     \* bound on the wall clock
  MaxResponses, \* bound on the number of ingest outcomes
  Posts         \* the wire events producers post (a subset of RawEvent)

ASSUME NoTime \notin Times
ASSUME Times \subseteq 0..MaxClock

VARIABLES
  events,   \* MemoryRepository.events: id -> stored event, or None
  clock,    \* time.Now(), in whole ticks
  todo,     \* per client: the parsed events of its request still to ingest
  outcomes  \* every per-event ingest outcome, in the order they happened

vars == <<events, clock, todo, outcomes>>

None == [none |-> TRUE]

\* A CloudEvent as it arrives on the wire.
RawEvent == [id : Ids, body : Bodies, time : Times \cup {NoTime}]

\* ComputeIntegrityHash: SHA-256 over specversion, id, source, type,
\* subject, RFC3339Nano time, sorted extensions and data.
IntegrityHash(id, body, t) == <<id, body, t>>

\* Faulty variants (a time left unset; a parser that always stamps now).
ParseNoDefault(raw) ==
  [id |-> raw.id, body |-> raw.body, time |-> raw.time, raw |-> raw,
   hash |-> IntegrityHash(raw.id, raw.body, raw.time)]
ParseAlwaysNow(raw) ==
  [id |-> raw.id, body |-> raw.body, time |-> clock, raw |-> raw,
   hash |-> IntegrityHash(raw.id, raw.body, clock)]

\* rawToStoredEvent + Validate: a missing time is stamped with the wall
\* clock at parse time, and the hash is computed over the stamped time.
Parse(raw) ==
  LET t == IF raw.time = NoTime THEN clock ELSE raw.time
  IN  [id |-> raw.id, body |-> raw.body, time |-> t, raw |-> raw,
       hash |-> IntegrityHash(raw.id, raw.body, t)]

ParsedEvent == [id : Ids, body : Bodies, time : 0..MaxClock, raw : RawEvent,
                hash : Ids \X Bodies \X (0..MaxClock)]

StoredEvent == [event : ParsedEvent, ingestedAt : 0..MaxClock]

Outcome == [event : ParsedEvent,
            status : {"accepted", "duplicate", "conflict"},
            ingestedAt : 0..MaxClock]

TypeOK ==
  /\ events \in [Ids -> StoredEvent \cup {None}]
  /\ clock \in 0..MaxClock
  /\ todo \in [Clients -> Seq(ParsedEvent)]
  /\ outcomes \in Seq(Outcome)

Init ==
  /\ events = [i \in Ids |-> None]
  /\ clock = 0
  /\ todo = [c \in Clients |-> <<>>]
  /\ outcomes = <<>>

\* Faulty variant: the request's events are queued without ParseRequest.
PostEventsUnparsed(c, batch) ==
  /\ todo[c] = <<>>
  /\ todo' = [todo EXCEPT ![c] = batch]
  /\ UNCHANGED <<events, clock, outcomes>>

(***************************************************************************)
(* handleEvents up to the ingest loop: the body is parsed as a whole       *)
(* (ParseRequest) before any event is ingested.  Every raw event here is   *)
(* valid (id, source, type and data present), so parsing succeeds.         *)
(***************************************************************************)
PostEvents(c, batch) ==
  /\ todo[c] = <<>>
  /\ todo' = [todo EXCEPT ![c] = [i \in 1..Len(batch) |-> Parse(batch[i])]]
  /\ UNCHANGED <<events, clock, outcomes>>

\* Faulty variant: no existence check (overwrite).
IngestEventOverwrite(c) ==
  /\ todo[c] /= <<>>
  /\ Len(outcomes) < MaxResponses
  /\ LET e == Head(todo[c]) IN
       /\ events' = [events EXCEPT ![e.id] = [event |-> e, ingestedAt |-> clock]]
       /\ outcomes' = Append(outcomes, [event |-> e, status |-> "accepted",
                                        ingestedAt |-> clock])
       /\ todo' = [todo EXCEPT ![c] = Tail(@)]
  /\ UNCHANGED clock
(***************************************************************************)
(* One iteration of the ingest loop of handleEvents: Service.IngestEvent   *)
(* and MemoryRepository.IngestEvent under m.mu.Lock().  A conflict ends    *)
(* the request (the handler writes 409 and returns), dropping the rest of  *)
(* the batch; events before it stay committed.                             *)
(***************************************************************************)
IngestEvent(c) ==
  /\ todo[c] /= <<>>
  /\ Len(outcomes) < MaxResponses
  /\ LET e        == Head(todo[c])
         existing == events[e.id]
     IN \/ /\ existing = None
           /\ events' = [events EXCEPT ![e.id] = [event |-> e, ingestedAt |-> clock]]
           /\ outcomes' = Append(outcomes, [event |-> e, status |-> "accepted",
                                            ingestedAt |-> clock])
           /\ todo' = [todo EXCEPT ![c] = Tail(@)]
        \/ /\ existing /= None
           /\ existing.event.hash = e.hash
           /\ outcomes' = Append(outcomes, [event |-> e, status |-> "duplicate",
                                            ingestedAt |-> existing.ingestedAt])
           /\ todo' = [todo EXCEPT ![c] = Tail(@)]
           /\ UNCHANGED events
        \/ /\ existing /= None
           /\ existing.event.hash /= e.hash
           /\ outcomes' = Append(outcomes, [event |-> e, status |-> "conflict",
                                            ingestedAt |-> 0])
           /\ todo' = [todo EXCEPT ![c] = <<>>]
           /\ UNCHANGED events
  /\ UNCHANGED clock

\* The wall clock advances.
Tick ==
  /\ clock < MaxClock
  /\ clock' = clock + 1
  /\ UNCHANGED <<events, todo, outcomes>>

Batches == UNION {[1..n -> Posts] : n \in 1..MaxBatch}

Next ==
  \/ \E c \in Clients, b \in Batches : PostEvents(c, b)
  \/ \E c \in Clients : IngestEvent(c)
  \/ Tick

Spec == Init /\ [][Next]_vars

-----------------------------------------------------------------------------
(***************************************************************************)
(* Properties.                                                             *)
(***************************************************************************)

AcceptedOutcomes(id) ==
  {i \in 1..Len(outcomes) : outcomes[i].status = "accepted"
                            /\ outcomes[i].event.id = id}

\* For a single id ingest is linearizable: among all concurrent and
\* repeated ingests of that id exactly one is ever "accepted", and the
\* stored event is the one that was accepted (the first body wins).
FirstAcceptedWins ==
  \A id \in Ids :
    /\ Cardinality(AcceptedOutcomes(id)) <= 1
    /\ \A i \in AcceptedOutcomes(id) :
         events[id].event.hash = outcomes[i].event.hash

\* Re-delivery conflicts only through the time stamp: when the bytes of an
\* accepted wire event are posted again and answered with a conflict, those
\* bytes carry no "time" (Validate, validate.go:22, stamped each delivery
\* with the wall clock of its own parse) and the two stamps differ.  The
\* later answer's stamp need not be the later time: a request parsed
\* before another may ingest after it.
RedeliveryConflictsOnlyWhenRestamped ==
  \A i, j \in 1..Len(outcomes) :
    (/\ i < j
     /\ outcomes[i].status = "accepted"
     /\ outcomes[j].event.raw = outcomes[i].event.raw
     /\ outcomes[j].status = "conflict")
      => /\ outcomes[i].event.raw.time = NoTime
         /\ outcomes[j].event.time /= outcomes[i].event.time

=============================================================================

---------------------------- MODULE SQLRepository ----------------------------
(***************************************************************************)
(* SQLRepository.IngestEvent (store/sql.go) behind the same HTTP ingest   *)
(* loop as Repository.  The existence check and the insert are separate   *)
(* statements of one transaction opened with default isolation           *)
(* (BeginTx(ctx, nil): READ COMMITTED on Postgres, a deferred transaction *)
(* on SQLite), so two requests ingesting the same id can both find it     *)
(* absent.  The table has a unique index on id, and the loser of such a   *)
(* race fails on it (Postgres: unique violation once the winner commits;  *)
(* SQLite: the second writer gets SQLITE_BUSY); the error is neither      *)
(* ErrConflict nor a duplicate, so the handler answers 500.               *)
(*                                                                         *)
(* The table is the set of committed rows; the insert and its commit are  *)
(* one step, since a row is invisible to READ COMMITTED readers and blocks *)
(* concurrent inserts of its id until the commit decides it.              *)
(***************************************************************************)
EXTENDS Naturals, Sequences, FiniteSets

CONSTANTS Ids, Bodies, Times, NoTime, Clients, MaxBatch, MaxClock,
          MaxResponses, Posts

VARIABLES
  rows,     \* the events table: committed rows [event, ingestedAt]
  clock,    \* time.Now()
  todo,     \* per client: the parsed events of its request still to ingest
  outcomes, \* every per-event answer, in order
  phase,    \* per client: "idle", or "selected" after getEventTx
  seen      \* per client: the row getEventTx returned, or None

vars == <<rows, clock, todo, outcomes, phase, seen>>

None == [none |-> TRUE]

\* The abstract ingest path, for its parser, input sets and properties.
Mem == INSTANCE Repository WITH events <- [i \in Ids |-> None],
                                outcomes <- <<>>, todo <- [c \in Clients |-> <<>>]

\* The row of id i, or None: SELECT ... FROM events WHERE id = i.
RowOf(i) == IF \E r \in rows : r.event.id = i
            THEN CHOOSE r \in rows : r.event.id = i
            ELSE None

\* An outcome of the SQL path may also be a store error (HTTP 500).
SQLOutcome == [event : Mem!ParsedEvent,
               status : {"accepted", "duplicate", "conflict", "error"},
               ingestedAt : 0..MaxClock]

TypeOK ==
  /\ rows \subseteq Mem!StoredEvent
  /\ clock \in 0..MaxClock
  /\ todo \in [Clients -> Seq(Mem!ParsedEvent)]
  /\ outcomes \in Seq(SQLOutcome)
  /\ phase \in [Clients -> {"idle", "selected"}]
  /\ seen \in [Clients -> Mem!StoredEvent \cup {None}]

Init ==
  /\ rows = {}
  /\ clock = 0
  /\ todo = [c \in Clients |-> <<>>]
  /\ outcomes = <<>>
  /\ phase = [c \in Clients |-> "idle"]
  /\ seen = [c \in Clients |-> None]

\* handleEvents up to the ingest loop (ParseRequest, as in Repository).
PostEvents(c, batch) ==
  /\ todo[c] = <<>>
  /\ todo' = [todo EXCEPT ![c] = [i \in 1..Len(batch) |-> Mem!Parse(batch[i])]]
  /\ UNCHANGED <<rows, clock, outcomes, phase, seen>>

\* BeginTx, then getEventTx reads the row of the event's id.  (The bound
\* counts the answers given and those of transactions in flight.)
SelectEvent(c) ==
  /\ phase[c] = "idle"
  /\ todo[c] /= <<>>
  /\ Len(outcomes) + Cardinality({d \in Clients : phase[d] = "selected"}) < MaxResponses
  /\ phase' = [phase EXCEPT ![c] = "selected"]
  /\ seen' = [seen EXCEPT ![c] = RowOf(Head(todo[c]).id)]
  /\ UNCHANGED <<rows, clock, todo, outcomes>>

Answer(c, e, status, at) ==
  outcomes' = Append(outcomes, [event |-> e, status |-> status, ingestedAt |-> at])

\* Faulty variant: the found row is compared by id only.
FoundEventIdOnly(c) ==
  /\ phase[c] = "selected"
  /\ seen[c] /= None
  /\ LET e == Head(todo[c]) IN
       /\ Answer(c, e, "duplicate", seen[c].ingestedAt)
       /\ todo' = [todo EXCEPT ![c] = Tail(@)]
  /\ phase' = [phase EXCEPT ![c] = "idle"]
  /\ seen' = [seen EXCEPT ![c] = None]
  /\ UNCHANGED <<rows, clock>>

\* The row exists: equal hash commits and answers duplicate with the stored
\* ingested_at; a different hash returns ErrConflict (409, request ends).
FoundEvent(c) ==
  /\ phase[c] = "selected"
  /\ seen[c] /= None
  /\ LET e == Head(todo[c]) IN
     \/ /\ seen[c].event.hash = e.hash
        /\ Answer(c, e, "duplicate", seen[c].ingestedAt)
        /\ todo' = [todo EXCEPT ![c] = Tail(@)]
     \/ /\ seen[c].event.hash /= e.hash
        /\ Answer(c, e, "conflict", 0)
        /\ todo' = [todo EXCEPT ![c] = <<>>]
  /\ phase' = [phase EXCEPT ![c] = "idle"]
  /\ seen' = [seen EXCEPT ![c] = None]
  /\ UNCHANGED <<rows, clock>>

\* Faulty variant: a table without the unique index on id.
NoUniqueIndex(i) == TRUE

\* The unique index on events(id) (db/migrations): an insert succeeds only
\* if no committed row has the id.
UniqueId(i) == RowOf(i) = None

\* Faulty variant: the row is written from the request's wire fields.
InsertEventRaw(c) ==
  /\ phase[c] = "selected"
  /\ seen[c] = None
  /\ LET e == Head(todo[c]) IN
       /\ UniqueId(e.id)
       /\ rows' = rows \cup {[event |-> e.raw, ingestedAt |-> clock]}
       /\ Answer(c, e, "accepted", clock)
       /\ todo' = [todo EXCEPT ![c] = Tail(@)]
  /\ phase' = [phase EXCEPT ![c] = "idle"]
  /\ UNCHANGED <<clock, seen>>

\* The row was absent: INSERT and Commit.  If a concurrent transaction
\* committed the id in between, the insert fails and the handler answers
\* 500 through handleStoreErr, ending the request.
InsertEvent(c) ==
  /\ phase[c] = "selected"
  /\ seen[c] = None
  /\ LET e == Head(todo[c]) IN
     \/ /\ UniqueId(e.id)
        /\ rows' = rows \cup {[event |-> e, ingestedAt |-> clock]}
        /\ Answer(c, e, "accepted", clock)
        /\ todo' = [todo EXCEPT ![c] = Tail(@)]
     \/ /\ ~UniqueId(e.id)
        /\ Answer(c, e, "error", 0)
        /\ todo' = [todo EXCEPT ![c] = <<>>]
        /\ UNCHANGED rows
  /\ phase' = [phase EXCEPT ![c] = "idle"]
  /\ UNCHANGED <<clock, seen>>

Tick ==
  /\ clock < MaxClock
  /\ clock' = clock + 1
  /\ UNCHANGED <<rows, todo, outcomes, phase, seen>>

Next ==
  \/ \E c \in Clients, b \in Mem!Batches : PostEvents(c, b)
  \/ \E c \in Clients : SelectEvent(c) \/ FoundEvent(c) \/ InsertEvent(c)
  \/ Tick

Spec == Init /\ [][Next]_vars

-----------------------------------------------------------------------------
(***************************************************************************)
(* Refinement: the table seen as the in-memory map of Repository.         *)
(***************************************************************************)
EventsMap == [i \in Ids |-> RowOf(i)]

Abs == INSTANCE Repository WITH events <- EventsMap

\* Whatever the interleaving of transactions, an id is accepted at most
\* once and the table holds the accepted event.
SQLFirstAcceptedWins == Abs!FirstAcceptedWins

\* A step that answers client c with a store error (500) for an event
\* whose id is in the table: the insert lost the race on the unique index.
IndexRaceError(c) ==
  /\ todo[c] /= <<>>
  /\ EventsMap[Head(todo[c]).id] /= None
  /\ outcomes' = Append(outcomes, [event |-> Head(todo[c]), status |-> "error",
                                   ingestedAt |-> 0])
  /\ todo' = [todo EXCEPT ![c] = <<>>]
  /\ UNCHANGED <<EventsMap, clock>>

\* The lost race on the unique index is the only way the SQL ingest path
\* departs from the in-memory repository: every step, seen through the
\* table, is a step of MemoryRepository.IngestEvent's handler loop (the
\* SELECT alone changes nothing it shows) or a 500 for an id another
\* transaction committed after this one looked.  The answers of
\* FoundEvent rest on a row read earlier in the transaction.
SQLDivergesOnlyByIndexRace ==
  [][Abs!Next \/ \E c \in Clients : IndexRaceError(c)]_<<EventsMap, clock, todo, outcomes>>
=============================================================================

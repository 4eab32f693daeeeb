------------------------------ MODULE Timeline ------------------------------
(***************************************************************************)
(* Paging through GET /v1/timeline (api/handlers_query.go): a client calls *)
(* QueryTimeline with a [from, to] range and follows next_cursor until a  *)
(* page comes back without one, while producers keep ingesting events.    *)
(*                                                                         *)
(* Three repository dialects answer the query:                           *)
(*  - "memory" (MemoryRepository.QueryTimeline, store/store.go) filters   *)
(*    and orders on time.Time values and ids;                              *)
(*  - "postgres" (SQLRepository.QueryTimeline, store/sql.go) binds        *)
(*    time.Time values, compared as timestamps;                            *)
(*  - "sqlite" (the same code) writes every timestamp as the RFC3339Nano  *)
(*    string of tsValue, so the range filter, the ORDER BY and the cursor *)
(*    predicate compare strings.                                           *)
(* Unless include_supporting is "true", each dialect drops the events it  *)
(* reads as supporting observations, each from the JSON value of the      *)
(* supporting_observation extension in its own way.                       *)
(*                                                                         *)
(* Data abstraction: all events fall on the same day, hour and minute, so *)
(* a time is a second (0 or 1) and a fraction, the fraction's decimal     *)
(* digits without trailing zeros, as RFC3339Nano prints them.  The text   *)
(* of a time is the tail of its RFC3339Nano string from the seconds on,   *)
(* as character codes: "0Z", "1.5Z", "0.55Z", ...  Ids are compared as    *)
(* Go compares strings; they are small naturals here.  The extension's    *)
(* JSON value is fixed per id, like the rest of the body: a record of its *)
(* JSON kind and its text.                                                 *)
(***************************************************************************)
EXTENDS Naturals, Sequences, SequencesExt, FiniteSets

CONSTANTS
  Ids,        \* event ids, ordered as their strings are
  Seconds,    \* whole seconds of event times
  Fractions,  \* fractional digits of event times (no trailing zeros)
  Limit,      \* the page size the client asks for (q.Limit)
  Dialects,   \* the repositories the server may run on
  Supporting, \* id -> JSON value of its supporting_observation extension
  Canon(_),   \* strings.ToLower(strings.TrimSpace(.)) on the strings used
  MaxItems    \* bound on the items a client collects (only a client that
              \* is handed the same items again reaches it)

ASSUME Dialects \subseteq {"memory", "postgres", "sqlite"}
ASSUME \A i \in Ids : Supporting[i].kind \in {"absent", "bool", "number", "string"}
ASSUME Limit \in 1..500

VARIABLES
  dialect,   \* the repository the server runs on
  store,     \* the events in the repository
  includeSupporting, \* the query parameter include_supporting
  from, to,  \* the query's range (query parameters "from" and "to")
  cursor,    \* the next_cursor the client will send, or None
  returned,  \* the items of all pages received so far, in order
  done,      \* a page came back without next_cursor
  snapshot   \* the events present when the client asked for the first page

vars == <<dialect, store, includeSupporting, from, to, cursor, returned, done, snapshot>>

None == [none |-> TRUE]

Times == [sec : Seconds, frac : Fractions]
Events == [id : Ids, t : Times]
Cursors == [t : Times, id : Ids]

\* The value of a time in hundredths of a second (fractions have at most
\* two digits here).
RECURSIVE FracValue(_, _)
FracValue(digits, scale) ==
  IF digits = <<>> THEN 0
  ELSE Head(digits) * scale + FracValue(Tail(digits), scale \div 10)

Value(t) == t.sec * 100 + FracValue(t.frac, 10)

\* tsValue for SQLite: t.UTC().Format(time.RFC3339Nano), from the seconds
\* on.  RFC3339Nano drops the fraction's trailing zeros, and the dot with
\* them when the fraction is zero.
Text(t) ==
  LET digit(d) == 48 + d
  IN <<digit(t.sec)>>
     \o (IF t.frac = <<>> THEN <<>>
         ELSE <<46>> \o [i \in DOMAIN t.frac |-> digit(t.frac[i])])
     \o <<90>>

\* SQLite compares TEXT values bytewise.
RECURSIVE TextBefore(_, _)
TextBefore(a, b) ==
  IF a = <<>> THEN b /= <<>>
  ELSE IF b = <<>> THEN FALSE
  ELSE IF Head(a) /= Head(b) THEN Head(a) < Head(b)
  ELSE TextBefore(Tail(a), Tail(b))

\* The order a time comparison of the dialect uses.
TimeBefore(a, b) ==
  IF dialect = "sqlite" THEN TextBefore(Text(a), Text(b)) ELSE Value(a) < Value(b)

\* ORDER BY event_time ASC, id ASC (sortStoredEvents in memory).
Before(a, b) == TimeBefore(a.t, b.t) \/ (a.t = b.t /\ a.id < b.id)

\* The From/To filters: event_time >= from AND event_time <= to.
InQueryRange(e, lo, hi) == ~TimeBefore(e.t, lo) /\ ~TimeBefore(hi, e.t)

\* Faulty variant: the cursor keeps events equal to it.
AfterCursorInclusive(e, c) == c = None \/ TimeBefore(c.t, e.t) \/ (c.t = e.t /\ e.id >= c.id)

\* The cursor filter: strictly after (cursor_ts, cursor_id).
AfterCursor(e, c) == c = None \/ TimeBefore(c.t, e.t) \/ (c.t = e.t /\ e.id > c.id)

\* Faulty variant: the cursor encodes the time only.
CursorOfTimeOnly(e) == [t |-> e.t, id |-> 0]

\* encodeCursor(last.Time, last.ID), decoded again by decodeCursor.
CursorOf(e) == [t |-> e.t, id |-> e.id]

\* ExtensionBool (cloudevents/ingest.go): JSON true, a nonzero number, or
\* a string that reads "true", "1" or "yes" once trimmed and lowercased.
ExtensionBool(x) ==
  \/ x.kind = "bool" /\ x.val = "true"
  \/ x.kind = "number" /\ x.val /= "0"
  \/ x.kind = "string" /\ Canon(x.val) \in {"true", "1", "yes"}

\* Postgres: COALESCE(extensions->>'supporting_observation', 'false') !=
\* 'true'; ->> yields the JSON text of a boolean or number and the
\* untrimmed content of a string.
PostgresKeeps(x) == ~(x.kind \in {"bool", "string"} /\ x.val = "true")

\* SQLite: COALESCE(json_extract(extensions, '$.supporting_observation'),
\* 0) = 0; json_extract yields 1 or 0 for a boolean, the number, or TEXT
\* for a string, and TEXT never equals an integer.
SQLiteKeeps(x) ==
  \/ x.kind = "absent"
  \/ x.kind \in {"bool", "number"} /\ x.val \in {"false", "0"}

\* Faulty variant: the filter ignores include_supporting.
ShownAlwaysFiltered(e) ==
  LET x == Supporting[e.id] IN
  CASE dialect = "memory"   -> ~ExtensionBool(x)
    [] dialect = "postgres" -> PostgresKeeps(x)
    [] OTHER                -> SQLiteKeeps(x)

\* The supporting_observation filter, applied unless include_supporting.
Shown(e) ==
  LET x == Supporting[e.id] IN
  \/ includeSupporting
  \/ dialect = "memory" /\ ~ExtensionBool(x)
  \/ dialect = "postgres" /\ PostgresKeeps(x)
  \/ dialect = "sqlite" /\ SQLiteKeeps(x)

\* The matching events in the dialect's order, before the limit.
Matching(S, lo, hi, c) ==
  SetToSortSeq({e \in S : InQueryRange(e, lo, hi) /\ Shown(e) /\ AfterCursor(e, c)}, Before)

\* Faulty variant: the cursor is taken from the overflow item.
PageFromOverflow(S, lo, hi, c) ==
  LET items == Matching(S, lo, hi, c)
  IN IF Len(items) > Limit
     THEN [items |-> SubSeq(items, 1, Limit), next |-> CursorOf(items[Limit + 1])]
     ELSE [items |-> items, next |-> None]

\* QueryTimeline: LIMIT q.Limit+1; more than q.Limit rows means there is a
\* next page, whose cursor is the last item returned.
Page(S, lo, hi, c) ==
  LET items == Matching(S, lo, hi, c)
  IN IF Len(items) > Limit
     THEN [items |-> SubSeq(items, 1, Limit), next |-> CursorOf(items[Limit])]
     ELSE [items |-> items, next |-> None]

\* Stores the repository can hold: one event per id.
Stores == {S \in SUBSET Events : \A a, b \in S : a.id = b.id => a = b}

TypeOK ==
  /\ dialect \in Dialects
  /\ store \in Stores
  /\ includeSupporting \in BOOLEAN
  /\ from \in Times /\ to \in Times
  /\ cursor \in Cursors \cup {None}
  /\ returned \in Seq(Events)
  /\ done \in BOOLEAN
  /\ snapshot \in Stores

\* handleTimeline requires both "from" and "to" (time.Parse fails on "");
\* include_supporting is true when it reads "true" in any case.
Init ==
  /\ dialect \in Dialects
  /\ store \in Stores
  /\ includeSupporting \in BOOLEAN
  /\ from \in Times /\ to \in Times /\ Value(from) <= Value(to)
  /\ cursor = None
  /\ returned = <<>>
  /\ done = FALSE
  /\ snapshot = store

\* One GET /v1/timeline with the current cursor.
FetchPage ==
  /\ ~done
  /\ Len(returned) < MaxItems
  /\ LET p == Page(store, from, to, cursor) IN
       /\ returned' = returned \o p.items
       /\ IF p.next = None
          THEN done' = TRUE /\ cursor' = cursor
          ELSE cursor' = p.next /\ done' = FALSE
  /\ UNCHANGED <<dialect, store, includeSupporting, from, to, snapshot>>

\* A producer ingests an event with a new id between two pages.
IngestEvent(e) ==
  /\ \A x \in store : x.id /= e.id
  /\ store' = store \cup {e}
  /\ UNCHANGED <<dialect, includeSupporting, from, to, cursor, returned, done, snapshot>>

Next ==
  \/ FetchPage
  \/ \E e \in Events : IngestEvent(e)

Spec == Init /\ [][Next]_vars

\* The client keeps following next_cursor: handleTimeline answers every
\* request (the read lock is only held against single-event writers), so
\* a fetch that stays possible is eventually made.  Producers need no
\* fairness.
FairSpec == Spec /\ WF_vars(FetchPage)

-----------------------------------------------------------------------------
(***************************************************************************)
(* Properties (spec: timeline results are ordered by (time, id), the      *)
(* range is inclusive, a cursor never re-emits an event, and all pages    *)
(* together equal one unbounded query).                                   *)
(***************************************************************************)

InTimeRange(e) == Value(from) <= Value(e.t) /\ Value(e.t) <= Value(to)

\* Without include_supporting the timeline leaves out exactly the events
\* the rest of the code takes for supporting observations: the evidence
\* view (app/changes.go:161) and the provider of a change (changes.go:394)
\* both classify the extension with ExtensionBool.
InQuery(e) == InTimeRange(e) /\ (includeSupporting \/ ~ExtensionBool(Supporting[e.id]))

TimeOrderBefore(a, b) ==
  Value(a.t) < Value(b.t) \/ (Value(a.t) = Value(b.t) /\ a.id < b.id)

\* The pages the client has received, concatenated, are strictly
\* increasing in (time, id): sorted, and no event is re-emitted by a later
\* page, even when events are ingested between pages.
TimelineStrictlyOrdered ==
  \A i \in 1..Len(returned) - 1 : TimeOrderBefore(returned[i], returned[i + 1])

\* Every event returned lies in the inclusive time range [from, to] and,
\* unless include_supporting was given, is no supporting observation; and
\* when paging is over every such event that was stored before the first
\* page has been returned, whatever JSON value the producer gave the
\* supporting_observation extension.
TimelineMatchesQuery ==
  /\ \A i \in 1..Len(returned) : InQuery(returned[i])
  /\ done => \A e \in snapshot : InQuery(e) => \E i \in 1..Len(returned) : returned[i] = e

\* The spec's contract for query_timeline in one: the pages the client
\* follows come back strictly in (time, id) order and hold exactly the
\* events of the inclusive range [from, to] that are not supporting
\* observations (unless asked for).  This depends on how the repository
\* compares stored event times and reads the extension.
TimelineMatchesSpec == TimelineStrictlyOrdered /\ TimelineMatchesQuery

\* Paging terminates: a client that keeps following next_cursor is
\* eventually handed a page without one, however producers ingest events
\* into the range between its requests (QueryTimeline's cursor predicate
\* and the cursor it encodes from the last item must make progress).
PagingTerminates == <>done

\* With no ingest in between, following next_cursor to the end yields
\* exactly the sequence a single query without limit returns.
PagesEqualSingleQuery ==
  (done /\ store = snapshot) => returned = Matching(snapshot, from, to, None)
=============================================================================

--------------------------- MODULE EvidenceEvents ---------------------------
(***************************************************************************)
(* The stored events that the read side of evidra consumes: the change    *)
(* aggregation engine (app/changes.go) and the evidence exporter          *)
(* (app/service.go, export/fs.go).  Both fetch them for one subject       *)
(* triple through Repository.QueryTimeline with IncludeSupporting and      *)
(* Limit 500, so all events here share subject, cluster, namespace and    *)
(* source, and only the fields the two components read are kept.          *)
(*                                                                         *)
(* Data abstraction:                                                       *)
(*  - a time is a natural in half-seconds, so that formatting it as        *)
(*    RFC3339 (whole seconds) can merge two different times;               *)
(*  - an id is a natural, ordered as Go orders the id strings;             *)
(*  - status is the data body's status/result/phase/outcome word; the     *)
(*    event types producers use (argo.sync.finished, ...) contain none of *)
(*    the words the result classifiers look for, so the word decides;     *)
(*  - sha256 of a change identity is the operator constant StableHash,    *)
(*    an injective map onto naturals (only its order and equality matter);*)
(*  - ext holds the trimmed string extensions the correlation code reads, *)
(*    ann the source_payload annotations of the data body, approvals the  *)
(*    entries of the body's approvals array followed by those of the      *)
(*    approvals-json annotation (JSON parsing is abstracted away), and    *)
(*    supporting the supporting_observation extension.                    *)
(***************************************************************************)
EXTENDS Naturals, Sequences, SequencesExt, FiniteSets, TLC

CONSTANTS
  Universe,      \* the events producers may ingest (distinct ids)
  NoValue,       \* an extension that is absent or blank
  QueryLimit,    \* the Limit of the timeline query both readers issue (500)
  StableHash(_), \* stableHash: sha256 of a change identity key
  ToLower(_)     \* strings.ToLower over the approval sources and identities

\* The shape of a stored event, as far as the readers look at it.
EventFields == {"id", "time", "ref", "rev", "status", "health", "initiator",
                "ext", "ann", "approvals", "supporting"}

\* The extensions and annotations the correlation fields come from.
ExtKeys == {"external_change_id", "change_id", "ticket_id", "ticket_key_primary",
            "approval_reference"}
AnnKeys == {"evidra.io/change-id", "evidra.io/ticket", "evidra.io/approvals-ref"}

\* An ApprovalEvidence entry; an absent or blank string is NoValue.
ApprovalFields == {"source", "identity", "timestamp", "reference", "summary"}

ASSUME \A e \in Universe : /\ DOMAIN e = EventFields
                           /\ DOMAIN e.ext = ExtKeys
                           /\ DOMAIN e.ann = AnnKeys
                           /\ \A i \in DOMAIN e.approvals :
                                DOMAIN e.approvals[i] = ApprovalFields
ASSUME \A a, b \in Universe : a.id = b.id => a = b

\* sortStoredEvents / the ORDER BY of QueryTimeline: (time, id) ascending.
EventBefore(a, b) == a.time < b.time \/ (a.time = b.time /\ a.id < b.id)

\* Repository.QueryTimeline over the subject with no time bound hit: the
\* events in (time, id) order, the first QueryLimit of them.
TimelineItems(S) ==
  LET all == SetToSortSeq(S, EventBefore)
  IN IF Len(all) > QueryLimit THEN SubSeq(all, 1, QueryLimit) ELSE all

\* The first of a sequence of strings that is not empty (firstExtension,
\* and the if-empty-then chains of the correlation code).
FirstNonEmpty(vals) ==
  LET set == SelectSeq(vals, LAMBDA v : v /= NoValue)
  IN IF set = <<>> THEN NoValue ELSE Head(set)

\* e.Time.UTC().Format(time.RFC3339): the fraction of the second is dropped.
RFC3339Second(t) == t \div 2
=============================================================================

----------------------------- MODULE MC_Evidence -----------------------------
EXTENDS Evidence, TLC

\* An event with no correlation extensions, annotations or approvals.
MCEvent(id, t, ref, status, health, initiator) ==
  [id |-> id, time |-> t, ref |-> ref, rev |-> "v1", status |-> status,
   health |-> health, initiator |-> initiator,
   ext |-> [k \in ExtKeys |-> NoValue], ann |-> [k \in AnnKeys |-> NoValue],
   approvals |-> <<>>, supporting |-> FALSE]

MCApproval(source, identity) ==
  [source |-> source, identity |-> identity, timestamp |-> "t1",
   reference |-> NoValue, summary |-> NoValue]

\* Four events of one application.  Events 1 and 2 share the sync
\* reference r1: healthy and succeeded at its start, with the change id
\* only in the Argo CD annotation and an approval by GitHub/alice; then a
\* supporting health observation, failed and degraded one second later,
\* with a ticket only under ticket_key_primary and the same approval
\* spelled github/alice.  Events 3 and 4 carry no reference and the same
\* revision in the same RFC3339 second, so they form one change: a
\* supporting observation, failed and missing, with change_id; then
\* succeeded and healthy, with ticket_id and an all-blank approval entry.
MCUniverse ==
  { [MCEvent(1, 0, "r1", "Succeeded", "healthy", NoValue) EXCEPT
       !.ann["evidra.io/change-id"] = "CHG-7",
       !.approvals = <<MCApproval("GitHub", "alice")>>],
    [MCEvent(2, 2, "r1", "Failed", "degraded", "u1") EXCEPT
       !.ext["ticket_key_primary"] = "T-2",
       !.approvals = <<MCApproval("github", "alice")>>,
       !.supporting = TRUE],
    [MCEvent(3, 2, NoValue, "Failed", "missing", NoValue) EXCEPT
       !.ext["change_id"] = "CHG-9",
       !.supporting = TRUE],
    [MCEvent(4, 3, NoValue, "Succeeded", "healthy", "u1") EXCEPT
       !.ext["ticket_id"] = "T-4",
       !.approvals = <<[f \in ApprovalFields |-> NoValue]>>] }

\* An injective stand-in for sha256 over the identity keys of MCUniverse.
MCStableHash(k) == IF k[1] = "ref" THEN 20 ELSE 10 + k[3]

\* strings.ToLower on the strings of MCUniverse.
MCToLower(s) == IF s = "GitHub" THEN "github" ELSE s

\* No filter parameter given.
AnyFilter ==
  [result_status |-> "", health_status |-> "", external_change_id_state |-> "",
   external_change_id |-> "", ticket_id_state |-> "", ticket_id |-> "",
   approval_reference |-> "", has_approvals |-> ""]

\* The client lists the succeeded changes.
MCChangeFilters == {[AnyFilter EXCEPT !.result_status = "succeeded"]}

\* The client lists every change.
MCAllChanges == {AnyFilter}

\* The export requests are interchangeable: no property names a client.
CONSTANTS c1, c2
MCClients == {c1, c2}
ClientSymmetry == Permutations(MCClients)
=============================================================================

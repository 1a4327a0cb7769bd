-------------------------- MODULE AttestationBundle --------------------------
(* What the last two phases of a review are about: the bundle the coordinator *)
(* builds again from the committed phases (coordinator_attestation_inputs.py) *)
(* and the statement it expects, for each role of the task, to have been      *)
(* signed about it (attested_judge.py).  A bundle b is a record:              *)
(*   wf, cand, snap, packet  the review and the anchors of its request        *)
(*   anchor                  the digest of the result of its first phase      *)
(*   base, tree, red         the frozen trees: base, candidate, RED           *)
(*   runs                    the raw offline runs                             *)
(*   reviewed                the packet that was committed                    *)
(*   batch, outer            the prepared broker batch and its raw evidence   *)
EXTENDS BrokerEvidence, ReviewCandidate, TLC

(* _expected_roles: one statement per role of the task.                       *)
AttestedRoles == {"task", "policy"} \cup RunIds \cup RoleSet

NoCandidate == <<>>
(* TrustedRunRequest: the tree a run is from, the candidate it is for, the    *)
(* tree it looks at and what it is given.                                     *)
RunRequest(from, cand, on, input) == [from |-> from, cand |-> cand, on |-> on, input |-> input]
(* TrustedRunBinding: a run that took place, as the coordinator measured it.  *)
RunBinding(session, request, runner, log) ==
  [session |-> session, request |-> request, runner |-> runner, log |-> log]
-------------------------------------------------------------------------------
(* The runs, measured again from the evidence.                                *)

(* _task_policy_bindings: the coordinator's own first phase.                  *)
TaskPolicyBindings(b) ==
  [role \in {"task", "policy"} |->
     RunBinding(<<"coordinator", role, b.anchor>>,
                IF role = "task" THEN RunRequest(b.base, NoCandidate, b.base, <<"task">>)
                ELSE RunRequest(b.tree, b.tree, b.tree, b.tree),
                <<"coordinator", b.anchor>>, <<role, b.anchor>>)]

(* derive_offline_artifacts, first half: the trees are still what the phases  *)
(* froze, and every planned run is there on its own tree.                     *)
OfflineDerived(b) ==
  /\ Verified(b.base, Base) /\ Verified(b.tree, b.cand)
  /\ TestDelta(b.base, b.tree) /\ ExactRedTree(b.base, b.tree, b.red)
  /\ RunsBound(b.runs, b.base, b.tree, b.red)
(* _trusted_binding_from_offline_run: the session is a digest of the workflow *)
(* and the run.                                                               *)
OfflineBindings(b) ==
  [r \in RunIds |-> LET ev == b.runs[r] IN
     RunBinding(<<"offline", r, b.wf>>, RunRequest(ev.source, ev.cand, ev.tree, ev.tree),
                <<"offline">>, <<ev.exit>>)]

(* The last execution's view of the ledger is the final one.                  *)
FinalLedger(outer) == outer.runs[Len(outer.runs)].held
(* _validate_final_broker_ledger_records: each role has its attempts in it,   *)
(* and each success exactly one row.                                          *)
FinalLedgerSound(b) ==
  LET final == FinalLedger(b.outer)
      rowsOf(role) == {row \in final : row.role = role}
  IN /\ RowsSound(final, b.packet)
     /\ \A role \in RoleSet : rowsOf(role) # {}
     /\ \A i \in DOMAIN b.outer.runs :
          Cardinality({row \in rowsOf(b.outer.runs[i].role) :
                         row.attempt = b.batch[4][i].attempt}) = 1
(* derive_frozen_broker_run_bindings: the batch is the one of this review and *)
(* of its packet, under the runtime it was bound to.                          *)
FrozenBatchBound(b) ==
  /\ b.batch[2] = b.wf /\ b.batch[3] = b.packet
  /\ b.batch[5] = Binding
(* _request_from_frozen_run: each request rebuilt from the prepared input.    *)
RequestRebuilt(b, run) ==
  /\ RequestValid(run.request)
  /\ run.request = Request(b.packet, run.request.role)
(* derive_broker_run_bindings: each role once, in an execution, a container   *)
(* and networks of its own.                                                   *)
RolesApart(b) ==
  LET runs == b.batch[4] IN
  /\ \A i, j \in DOMAIN runs : i # j =>
       /\ runs[i].request.role # runs[j].request.role
       /\ NameOf(runs[i], "broker") # NameOf(runs[j], "broker")
       /\ Execution(b.outer.runs[i], runs[i]) # Execution(b.outer.runs[j], runs[j])
  /\ {runs[i].request.role : i \in DOMAIN runs} = RoleSet
BrokerDerived(b) ==
  /\ FrozenBatchBound(b)
  /\ RolesApart(b)
  /\ \A i \in DOMAIN b.batch[4] : RequestRebuilt(b, b.batch[4][i])
  /\ FinalLedgerSound(b)
  /\ StopsAtSuccess(b.outer.runs, b.batch[4], FinalLedger(b.outer))

\* broker_egress_boundary_set_sha256: the networks of both roles
BoundarySet(outer) == [r \in RoleSet |-> Boundary(OfRole(outer, r))]
\* _broker_runner_sha256: the measured runtime, the networks, the final ledger
BrokerRunner(b, run) == <<run.runtime, BoundarySet(b.outer), FinalLedger(b.outer)>>
\* _broker_execution_log_sha256
ExecutionLog(ev, run) == Execution(ev, run)
(* The review's run; the session is a digest of the ids of the answer.        *)
BrokerBindings(b) ==
  [r \in RoleSet |->
     LET ev == OfRole(b.outer, r)
         run == b.batch[4][CHOOSE i \in DOMAIN Roles : Roles[i] = r]
     IN RunBinding(<<"review", r, ev.answer>>, RunRequest(b.tree, b.tree, b.tree, b.batch[3]),
                   BrokerRunner(b, run), ExecutionLog(ev, run))]
-------------------------------------------------------------------------------
(* What is expected of them.                                                  *)

Bindings(b) == TaskPolicyBindings(b) @@ OfflineBindings(b) @@ BrokerBindings(b)

(* _validate_tdd_snapshot_bindings: RED is an overlay over the base, GREEN    *)
(* the candidate itself.                                                      *)
TddSnapshotsHold(b) == b.runs["red"].tree # b.base /\ b.runs["green"].tree = b.tree
(* _validate_review_packet: the packet the reviewers had is the one of these  *)
(* trees and runs, and the one of the request.                                *)
PacketHolds(b) == b.reviewed = PacketOf(b.cand, b.runs) /\ b.reviewed = b.packet
(* _validate_request: each role ran from, on and for what the task says.      *)
ExpectedRequest(b, role) ==
  CASE role = "task" -> RunRequest(b.base, NoCandidate, b.base, <<"task">>)
    [] role = "red" -> RunRequest(b.base, b.tree, b.red, b.red)
    [] role \in RoleSet -> RunRequest(b.tree, b.tree, b.tree, b.packet)
    [] OTHER -> RunRequest(b.tree, b.tree, b.tree, b.tree)
(* _validate_broker_evidence: the answer that is attested is the answer to    *)
(* the request of that role and packet.                                       *)
AnswerBound(b, r, run) == run.log.answer.request = Request(b.packet, r)

(* build_attestation_expectations: what must hold before anything is signed   *)
(* or believed.  It derives the offline and broker runs once more than the    *)
(* bundle did, from the same bytes (OfflineDerived, FinalizeEvidence).        *)
ExpectationsHold(b) ==
  LET measured == Bindings(b) IN
  /\ TddSnapshotsHold(b) /\ PacketHolds(b)
  /\ BrokerDerived(b)
  /\ Cardinality({measured[r].session : r \in AttestedRoles}) = Cardinality(AttestedRoles)
  /\ \A r \in AttestedRoles : measured[r].request = ExpectedRequest(b, r)
  /\ \A r \in RoleSet : AnswerBound(b, r, measured[r])
(* _expectation: the statement about one role.                                *)
Statement(b, role, run) ==
  [cand |-> b.cand, snap |-> ExpectedRequest(b, role).on, run |-> run]
(* build_frozen_bundle_expectations                                           *)
Expectations(b) ==
  LET measured == Bindings(b)
  IN [role \in AttestedRoles |-> Statement(b, role, measured[role])]
===============================================================================

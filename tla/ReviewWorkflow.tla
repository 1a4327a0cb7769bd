---------------------------- MODULE ReviewWorkflow ----------------------------
(* The AI review of a candidate change (tools/ai_review): an outer driver     *)
(* (outer_workflow_runtime.py, outer_workflow_state.py) walks seven phases.   *)
(* Each one is prepared and finalized by a pinned coordinator container       *)
(* (coordinator_workflow_ops.py), two of them run something outside in        *)
(* between (offline tests; the paid broker calls of BrokerExecution), and     *)
(* each result is chained by digest to the one before.  The last phase gives  *)
(* the verdict from attestations signed in the phase before it, whose nonces  *)
(* can be spent once (attestation.py, nonce_ledger.py).                       *)
(*                                                                            *)
(* Several workflows run at the same time over one candidate worktree, which  *)
(* its author may edit meanwhile, one container runtime and one nonce ledger; *)
(* each has a reservation ledger of its own.  A coordinator reply may be      *)
(* another one than the reply to this call, a process may die, and time       *)
(* passes.                                                                    *)
(*                                                                            *)
(* A digest is the value it is the digest of, cut down to what tells two      *)
(* values of one workflow apart.                                              *)
EXTENDS BrokerExecution, AttestationBundle, Functions

CONSTANTS
  Heads,          \* the commits it can be at first
  Outcomes,       \* the ways the offline runs can end
  MaxAge,         \* max_age_seconds of an attestation, in ticks
  MaxTime,        \* bound: ticks of the clock
  MaxEdits        \* bound: edits of the worktree

ASSUME ReviewAssumption ==
  Contents = Packets /\ Heads \subseteq Contents /\ Outcomes \subseteq [RunIds -> {"pass", "fail"}]

VARIABLES
  wf,             \* wf[w]: where the driver of workflow w is, see New
  work,           \* the candidate worktree, [head, dirty]
  prepared,       \* prepared[w]: the last prepared transition replied to w
  finalized,      \* finalized[w]: the last finalized transition replied to w
  nonces,         \* used_nonces
  verdicts,       \* the verdicts given, with what they were given for
  clock, edits

reviewVars == <<wf, work, prepared, finalized, nonces, verdicts, clock, edits>>
vars == <<brokerVars, reviewVars>>

Workflows == Batches
PhaseOrder == <<"snapshot", "red-snapshot", "offline", "review-packet",
                "broker", "sign", "attested-judge">>
External == {"offline", "broker"}
None == <<>>

Stopped == {"new", "done", "failed"}

Phase(w) == PhaseOrder[wf[w].request.seq]
Sequence == AntiFunction(PhaseOrder)
Result(w, phase) == wf[w].results[Sequence[phase]]

NoRequest == [wf |-> 0, seq |-> 1, prev |-> None, cand |-> None,
              snap |-> None, packet |-> None]
NoReply == [request |-> NoRequest]
New == [pc |-> "new", request |-> NoRequest, payload |-> None, evidence |-> None,
        results |-> <<>>]
-------------------------------------------------------------------------------
(* Messages between the coordinator and the driver, and what each accepts.    *)

(* validate_phase_request_bytes: phase and sequence agree; only the first     *)
(* request has no predecessor and no snapshot; a packet from broker on.       *)
ValidRequest(r) ==
  /\ r.seq \in DOMAIN PhaseOrder
  /\ (r.prev = None) = (r.seq = 1)
  /\ (r.snap = None) = (r.seq = 1)
  /\ (r.packet # None) = (r.seq >= 5)

\* phase_sha256 of a result (a workflow never runs a phase twice)
ResultDigest(res) == <<res.request.wf, res.request.seq, res.artifact[2]>>

(* PhaseChain.validate_request, on the coordinator's side: the request goes   *)
(* with the committed history it is handed.                                   *)
ChainAccepts(r, results) ==
  /\ ValidRequest(r)
  /\ r.seq = Len(results) + 1
  /\ \A i \in DOMAIN results : results[i].request.wf = r.wf /\ results[i].request.seq = i
  /\ r.seq > 1 => r.prev = ResultDigest(results[r.seq - 1])

\* mutant: a reply for this phase is taken, whichever workflow it was made for
ActionForPhase(p, r) == p.request.seq = r.seq
(* parse_prepared_transition and _validate_action: the action names this      *)
(* workflow, phase and request.                                               *)
ActionMatches(p, r) == p.request = r

(* run_fixed_workflow: neither the request nor the action was seen before.    *)
Unseen(w, r) == \A i \in DOMAIN wf[w].results : wf[w].results[i].request # r

(* The artifact anchors: a snapshot phase sets the candidate snapshot and a   *)
(* packet phase the packet; no other phase may change them.                   *)
SnapAnchor(r, a) == IF r.seq = 1 THEN a[2] ELSE r.snap
PacketAnchor(r, a) == IF r.seq = 4 THEN a[2] ELSE r.packet

(* The request for the next phase, chained to a result.                       *)
NextRequest(res) ==
  IF res.request.seq = Len(PhaseOrder) THEN NoRequest
  ELSE [res.request EXCEPT !.seq = @ + 1, !.prev = ResultDigest(res),
                           !.snap = SnapAnchor(res.request, res.artifact),
                           !.packet = PacketAnchor(res.request, res.artifact)]

(* _validate_coordinator_output: bound to the request, and complete for it.   *)
OutputMatches(f, r) == f.result.request = r /\ f.result.artifact[1] = PhaseOrder[r.seq]
(* _validate_phase_result: the result is about the evidence that was sent.    *)
ResultMatches(f, evidence) == f.result.evidence = evidence
(* parse_finalized_transition: and the next request is chained to it.         *)
FinalizedMatches(f, r, evidence) ==
  /\ OutputMatches(f, r)
  /\ ResultMatches(f, evidence)
  /\ f.next = NextRequest(f.result)
  /\ f.next # NoRequest => ValidRequest(f.next)
-------------------------------------------------------------------------------
(* The driver.                                                                *)

Fail(w) == wf' = [wf EXCEPT ![w].pc = "failed", ![w].payload = None, ![w].evidence = None]

(* initialize_workflow: the worktree must hold the patch a human approved,    *)
(* and the first request names it.  The output root must be new and empty, so *)
(* a workflow that stopped is never resumed:                                  *)
(* the review of the same candidate starts again as another workflow.         *)
(* Workflow w is the w-th one started.                                        *)
Start(w) ==
  /\ wf[w].pc = "new" /\ \A v \in 1..(w - 1) : wf[v].pc # "new"
  /\ \E approved \in Contents :
       /\ InspectGitDiff(work, approved)
       /\ wf' = [wf EXCEPT ![w].pc = "prepare",
                           ![w].request = [NoRequest EXCEPT !.wf = w, !.cand = approved]]
  /\ UNCHANGED <<brokerVars, work, prepared, finalized, nonces, verdicts, clock, edits>>

(* The reply of a coordinator call reaches the driver: the one just made or,  *)
(* after a fault, the last one made before for this or another workflow.      *)
Received(made, earlier, m) ==
  \/ m = made /\ UNCHANGED faults
  \/ m \in Range(earlier) \ {made, NoReply} /\ Fault

(* The driver takes a prepared transition.                                    *)
TakePrepared(w, payload) ==
  LET made == [request |-> wf[w].request, payload |-> payload]
  IN /\ prepared' = [prepared EXCEPT ![w] = made]
     /\ \E m \in Range(prepared) \cup {made} :
          /\ Received(made, prepared, m)
          /\ IF ActionMatches(m, wf[w].request) /\ Unseen(w, wf[w].request)
             THEN wf' = [wf EXCEPT ![w].payload = m.payload,
                                   ![w].pc = IF Phase(w) \in External THEN "external"
                                             ELSE "finalize",
                                   ![w].evidence = m.payload]
             ELSE Fail(w)

(* _validate_snapshot_store_artifacts: the trees a snapshot phase names are   *)
(* the ones its prepare left in the store.                                    *)
StoreMatches(w, f) ==
  f.result.artifact[1] \in {"snapshot", "red-snapshot"} =>
    f.result.artifact[3] = wf[w].payload[3]
(* commit: the transition is written, and the artifacts and the request of    *)
(* the next phase are the committed ones.                                     *)
Committed(w, f) ==
  [wf[w] EXCEPT !.results = Append(@, f.result),
                !.request = IF f.next = NoRequest THEN @ ELSE f.next,
                !.pc = IF f.next = NoRequest THEN "done" ELSE "prepare",
                !.payload = None, !.evidence = None]

(* The driver takes a finalized transition and commits it.                    *)
TakeFinalized(w, artifact) ==
  LET result == [request |-> wf[w].request, artifact |-> artifact,
                 evidence |-> wf[w].evidence]
      made == [result |-> result, next |-> NextRequest(result)]
  IN /\ finalized' = [finalized EXCEPT ![w] = made]
     /\ \E m \in Range(finalized) \cup {made} :
          /\ Received(made, finalized, m)
          /\ IF FinalizedMatches(m, wf[w].request, wf[w].evidence) /\ StoreMatches(w, m)
             THEN wf' = [wf EXCEPT ![w] = Committed(w, m)]
             ELSE Fail(w)
-------------------------------------------------------------------------------
(* The coordinator, phase by phase: prepare, then finalize.                   *)

AtPrepare(w, phase) == wf[w].pc = "prepare" /\ Phase(w) = phase
AtFinalize(w, phase) == wf[w].pc = "finalize" /\ Phase(w) = phase
(* _workflow_inputs: the committed history must be the request's own chain.   *)
Admitted(w) == ChainAccepts(wf[w].request, wf[w].results)

(* _prepare_snapshot, first half: the policy is inspected.                    *)
PrepareSnapshot(w) ==
  /\ AtPrepare(w, "snapshot")
  /\ IF Admitted(w) /\ InspectGitDiff(work, wf[w].request.cand)
     THEN wf' = [wf EXCEPT ![w].pc = "materialise", ![w].payload = work.head]
     ELSE Fail(w)
  /\ UNCHANGED <<brokerVars, work, prepared, finalized, nonces, verdicts, clock, edits>>

(* create_readonly_snapshot_pair_from_worktree: a private clone, from which   *)
(* the commit that was inspected is materialised, every object re-hashed; it  *)
(* fails when an edit has made that commit unreachable meanwhile.             *)
Materialise(w) ==
  /\ wf[w].pc = "materialise"
  /\ LET materialisable == Materialisable(Base) /\ Materialisable(wf[w].payload)
     IN \/ materialisable /\ wf' = [wf EXCEPT ![w].pc = "recheck"]
        \/ (work.head # wf[w].payload \/ ~materialisable) /\ Fail(w)
  /\ UNCHANGED <<brokerVars, work, prepared, finalized, nonces, verdicts, clock, edits>>

(* _prepare_snapshot, second half: the policy is inspected again and must be  *)
(* what it was.                                                               *)
RecheckSnapshot(w) ==
  /\ wf[w].pc = "recheck"
  /\ IF InspectGitDiff(work, wf[w].request.cand) /\ work.head = wf[w].payload
     THEN TakePrepared(w, <<"snapshot", wf[w].payload,
                            [base |-> Snapshot(Base), cand |-> Snapshot(wf[w].payload)]>>)
     ELSE Fail(w) /\ UNCHANGED <<prepared, faults>>
  /\ UNCHANGED <<exec, runtime, ledger, calls, trespass, work, finalized, nonces,
                 verdicts, clock, edits>>

Trees(w) == Result(w, "snapshot").artifact[3]
RedOf(w) == Result(w, "red-snapshot").artifact[3]
Runs(w) == Result(w, "offline").artifact[3]

(* _prepare_red_snapshot: from the verified snapshots of the first phase, if  *)
(* every declared test is changed.                                            *)
RedPossible(w) ==
  /\ Verified(Trees(w).base, Base) /\ Verified(Trees(w).cand, wf[w].request.snap)
  /\ TestDelta(Trees(w).base, Trees(w).cand)
PrepareRed(w) == <<"red-snapshot", wf[w].request.snap, RedTree(Trees(w).base, Trees(w).cand)>>
(* external_prepare_inputs: what runs outside is prepared from the frozen     *)
(* trees, offline from RED too.                                               *)
ExternalInputs(w) ==
  /\ Verified(Trees(w).base, Base) /\ Verified(Trees(w).cand, wf[w].request.snap)
  /\ Phase(w) = "offline" => ExactRedTree(Trees(w).base, Trees(w).cand, RedOf(w))
(* prepare_offline_batch: the gate, and RED and GREEN of the test.            *)
PrepareOffline(w) ==
  <<"plan", w, [r \in RunIds |-> PlannedRun(r, Trees(w).base, Trees(w).cand, RedOf(w))]>>

(* review_packet_prepare_inputs: every input is read back from the committed  *)
(* phases, the frozen trees measured again.                                   *)
PacketInputs(w) == RedPossible(w) /\ ExactRedTree(Trees(w).base, Trees(w).cand, RedOf(w))
(* build_review_packet_phase_output: the runs are derived again, then         *)
(* build_review_packet.                                                       *)
PacketReady(w) ==
  /\ PacketInputs(w)
  /\ RunsBound(Runs(w), Trees(w).base, Trees(w).cand, RedOf(w))
  /\ PacketPossible(wf[w].request.snap, Trees(w).base, Trees(w).cand, Runs(w))
PreparePacket(w) == <<"review-packet", PacketOf(wf[w].request.snap, Runs(w))>>

(* prepare_broker_phase_action: two runs, one per role, of attempt 1, over    *)
(* the packet of the request.                                                 *)
PrepareBroker(w) == PreparedBatch(w, wf[w].request.packet, Binding)
(* _broker_invocations: the invocations are made from the committed packet,   *)
(* for a runtime that was measured.                                           *)
BrokerPossible(w) ==
  /\ Result(w, "review-packet").artifact[2] = wf[w].request.packet
  /\ RootlessPodman(Binding) /\ BatchValid(PrepareBroker(w))

(* _committed_history: the files of phases 1..n-1, each one's result chained  *)
(* to the one before, back from the request that is being served.             *)
CommittedHistory(w) == ChainAccepts(wf[w].request, wf[w].results)
(* _snapshot_store: the frozen trees are still what the phases committed.     *)
StoreSound(w) ==
  /\ Verified(Trees(w).base, Base) /\ Verified(Trees(w).cand, wf[w].request.cand)
  /\ ExactRedTree(Trees(w).base, Trees(w).cand, RedOf(w))
(* _offline_runs: the raw runs are finalized again against the prepared plan  *)
(* and are the runs the phase committed.                                      *)
OfflineSound(w) ==
  LET res == Result(w, "offline")
  IN /\ \A r \in RunIds : RunEvidenceHolds(r, res.evidence[3][r], res.evidence[2][3][r])
     /\ res.artifact[2] = wf[w].request.snap /\ res.artifact[3] = res.evidence[3]
(* _broker_inputs: so is the raw evidence of the broker, and only here the    *)
(* answers are read as reviews.                                               *)
BrokerSound(w) ==
  LET res == Result(w, "broker")
      batch == res.evidence[2]
  IN /\ FinalizeEvidence(res.evidence[3], batch)
     /\ batch[2] = w /\ batch[3] = wf[w].request.packet /\ batch[5] = Binding
     /\ \A i \in DOMAIN batch[4] : ReviewUsable(res.evidence[3].runs[i], batch[4][i])
     /\ res.artifact[3] = Summaries(res.evidence[3])
(* CoordinatorAttestationInputs                                               *)
Bundle(w) ==
  LET r == wf[w].request
  IN [wf |-> w, cand |-> r.cand, snap |-> r.snap, packet |-> r.packet,
      anchor |-> ResultDigest(wf[w].results[1]),
      base |-> Trees(w).base, tree |-> Trees(w).cand, red |-> RedOf(w), runs |-> Runs(w),
      reviewed |-> Result(w, "review-packet").artifact[2],
      batch |-> Result(w, "broker").evidence[2], outer |-> Result(w, "broker").evidence[3]]
(* reconstruct_attestation_inputs: the bundle is derived again from the       *)
(* committed phases, every one of which must be about this request's anchors. *)
BundleSound(w) ==
  LET b == Bundle(w)
  IN /\ CommittedHistory(w)
     /\ Result(w, "snapshot").artifact[2] = b.cand
     /\ b.snap = b.cand
     /\ b.reviewed = b.packet
     /\ StoreSound(w)
     /\ OfflineSound(w)
     /\ BrokerSound(w)
     /\ OfflineDerived(b)

(* _attestation_inputs, build_attestation_expectations                        *)
SignPossible(w) == BundleSound(w) /\ ExpectationsHold(Bundle(w))
(* _prepare_sign: one attestation per role, all issued now, with new nonces   *)
(* (the workflow's name stands for them).                                     *)
PrepareSign(w) == <<"sign", w, [issued |-> clock, statements |-> Expectations(Bundle(w))]>>

(* The phases whose prepare only reads what is frozen.                        *)
PrepareFrozen(w) ==
  /\ wf[w].pc = "prepare" /\ Phase(w) \notin {"snapshot", "attested-judge"}
  /\ CASE ~Admitted(w) -> Fail(w) /\ UNCHANGED <<prepared, faults>>
       [] Phase(w) = "red-snapshot" ->
            IF RedPossible(w) THEN TakePrepared(w, PrepareRed(w))
            ELSE Fail(w) /\ UNCHANGED <<prepared, faults>>
       [] Phase(w) = "offline" ->
            IF ExternalInputs(w) THEN TakePrepared(w, PrepareOffline(w))
            ELSE Fail(w) /\ UNCHANGED <<prepared, faults>>
       [] Phase(w) = "review-packet" ->
            IF PacketReady(w) THEN TakePrepared(w, PreparePacket(w))
            ELSE Fail(w) /\ UNCHANGED <<prepared, faults>>
       [] Phase(w) = "broker" ->
            IF ExternalInputs(w) /\ BrokerPossible(w) THEN TakePrepared(w, PrepareBroker(w))
            ELSE Fail(w) /\ UNCHANGED <<prepared, faults>>
       [] Phase(w) = "sign" ->
            IF SignPossible(w) THEN TakePrepared(w, PrepareSign(w))
            ELSE Fail(w) /\ UNCHANGED <<prepared, faults>>
  /\ UNCHANGED <<exec, runtime, ledger, calls, trespass, work, finalized, nonces,
                 verdicts, clock, edits>>
-------------------------------------------------------------------------------
(* The verdict.                                                               *)

(* judge: rejected by a reviewer, or a gate, the TDD evidence or a binding    *)
(* fails -> fail; an open question or a medium finding -> a human decides;    *)
(* else only the provenance is missing, which the attestations supply.        *)
OrdinaryVerdict(w) ==
  LET answers == [r \in RoleSet |-> AnswerOf(Result(w, "broker").evidence[3], r)]
  IN
  IF \/ ~PolicyHolds(wf[w].request.cand) \/ ~GatesPass(Runs(w)) \/ ~TddHolds(Runs(w))
     \/ \E r \in RoleSet : answers[r] = "reject" THEN "fail"
  ELSE IF \E r \in RoleSet : answers[r] = "medium" THEN "human_review"
  ELSE "self_reported"

(* reconstruct_signed_attestations: the artifacts of the committed sign phase.*)
SignedAttestations(w) == Result(w, "sign").artifact[3]
(* _verify_binding: every field of the statement is the expected one.         *)
VerifyBinding(statement, expected) == statement = expected
(* verify_attestation_set: every expected role once, signed, its statement    *)
(* what is expected of the bundle, and not older than max_age_seconds.        *)
AttestationsHold(w) ==
  LET signed == SignedAttestations(w)
      expected == Expectations(Bundle(w))
  IN /\ ExpectationsHold(Bundle(w))
     /\ DOMAIN signed.statements = AttestedRoles
     /\ Cardinality({signed.statements[r].run.session : r \in RoleSet}) = Cardinality(RoleSet)
     /\ \A r \in AttestedRoles : VerifyBinding(signed.statements[r], expected[r])
     /\ clock - signed.issued <= MaxAge

(* SqliteNonceLedger.reserve_many: one transaction, the nonce is the key.     *)
ReserveMany(nonce) == nonce \notin nonces

\* mutant: an attestation failure is a matter for a human, not a failed review
JudgeLenient(w, attested) ==
  LET ordinary == OrdinaryVerdict(w)
  IN IF ordinary = "self_reported" THEN "pass" ELSE ordinary
(* judge_attested: an attestation that does not verify fails the review; the  *)
(* attested verdict is otherwise the ordinary one, without the reason that    *)
(* its provenance is self-reported.                                           *)
JudgeAttested(w, attested) ==
  LET ordinary == OrdinaryVerdict(w)
  IN IF ~attested \/ ~ReserveMany(w) THEN "fail"
     ELSE IF ordinary = "self_reported" THEN "pass" ELSE ordinary

(* The nonces are spent when everything before them has verified.             *)
Judged(w, attested, status) ==
  /\ nonces' = IF attested THEN nonces \cup {w} ELSE nonces
  /\ verdicts' = Append(verdicts, [wf |-> w, status |-> status, at |-> clock])

(* _prepare_attested_judge: a bundle that cannot be built again is an error,  *)
(* not a verdict.                                                             *)
PrepareJudge(w) ==
  /\ AtPrepare(w, "attested-judge") /\ Admitted(w)
  /\ IF BundleSound(w)
     THEN LET attested == AttestationsHold(w)
              status == JudgeAttested(w, attested)
          IN Judged(w, attested, status) /\ TakePrepared(w, <<"attested-judge", status>>)
     ELSE Fail(w) /\ UNCHANGED <<nonces, verdicts, prepared, faults>>
  /\ UNCHANGED <<exec, runtime, ledger, calls, trespass, work, finalized, clock, edits>>

(* The same phase run again by hand over the committed artifacts, as the      *)
(* coordinator's command line allows: its verdict goes to no driver.          *)
Rejudge(w) ==
  /\ Len(wf[w].results) >= 6
  /\ Fault
  /\ BundleSound(w)
  /\ LET attested == AttestationsHold(w) IN Judged(w, attested, JudgeAttested(w, attested))
  /\ UNCHANGED <<exec, runtime, ledger, calls, trespass, wf, work, prepared,
                 finalized, clock, edits>>
-------------------------------------------------------------------------------
(* What runs outside, and finalize.                                           *)

(* _run_bounded, _cleanup_container: a run that lasts or prints too long is   *)
(* killed and its container removed by the id it left; a run that ended so,   *)
(* or could not be removed, is no evidence.                                   *)
RunBroken(w) == Fault /\ Fail(w)
(* execute_prepared_offline_outer: one container per planned run, removed     *)
(* whatever happens; a test that fails is evidence, a run that cannot be      *)
(* completed or cleaned up is an error.                                       *)
ExecuteOffline(w) ==
  /\ wf[w].pc = "external" /\ Phase(w) = "offline"
  /\ \/ /\ PlanParses(wf[w].payload[3]) /\ \A r \in RunIds : MayRun(r, wf[w].payload[3][r])
        /\ \E exits \in Outcomes :
             wf' = [wf EXCEPT ![w].pc = "finalize",
                              ![w].evidence = <<"runs", wf[w].payload,
                [r \in RunIds |-> RunEvidence(wf[w].payload[3][r], exits[r])]>>]
        /\ UNCHANGED faults
     \/ RunBroken(w)
  /\ UNCHANGED <<exec, runtime, ledger, calls, trespass, work, prepared, finalized,
                 nonces, verdicts, clock, edits>>

(* broker_execute: BrokerExecution runs the batch and gives the evidence.     *)
BeginBroker(w) ==
  /\ wf[w].pc = "external" /\ Phase(w) = "broker"
  /\ Begin(w, wf[w].payload)
  /\ UNCHANGED reviewVars

EndBroker(w) ==
  /\ wf[w].pc = "external" /\ Phase(w) = "broker"
  /\ exec[w].pc \in {"done", "failed"}
  /\ IF exec[w].pc = "done"
     THEN wf' = [wf EXCEPT ![w].pc = "finalize",
                           ![w].evidence = <<"broker", wf[w].payload,
                                             Evidence(w, wf[w].payload)>>]
     ELSE Fail(w)
  /\ UNCHANGED <<brokerVars, work, prepared, finalized, nonces, verdicts, clock, edits>>

(* parse_outer_offline_evidence: raw runs, each of the planned ones once.     *)
OfflineEvidenceParses(evidence) == evidence[1] = "runs" /\ DOMAIN evidence[3] = RunIds
(* finalize_offline_batch, finalize_provisioned_broker_execution: the         *)
(* evidence is about the prepared batch, run for run.                         *)
EvidenceMatches(w) ==
  /\ wf[w].evidence[2] = wf[w].payload
  /\ Phase(w) = "offline" =>
       /\ OfflineEvidenceParses(wf[w].evidence)
       /\ \A r \in RunIds : RunEvidenceHolds(r, wf[w].evidence[3][r], wf[w].payload[3][r])
  /\ Phase(w) = "broker" =>
       FinalizeEvidence(wf[w].evidence[3], wf[w].payload)
(* finalize_offline_phase_output: the runs themselves, for the candidate.     *)
OfflineArtifacts(w) == <<"offline", wf[w].request.snap, wf[w].evidence[3]>>
(* finalize_broker_phase_output: a summary of each role, for the packet.      *)
BrokerArtifacts(w) == <<"broker", wf[w].request.packet, Summaries(wf[w].evidence[3])>>

FinalizeOutside(w) ==
  /\ wf[w].pc = "finalize" /\ Phase(w) \in External
  /\ IF EvidenceMatches(w)
     THEN TakeFinalized(w, IF Phase(w) = "offline" THEN OfflineArtifacts(w)
                           ELSE BrokerArtifacts(w))
     ELSE Fail(w) /\ UNCHANGED <<finalized, faults>>
  /\ UNCHANGED <<exec, runtime, ledger, calls, trespass, work, prepared, nonces,
                 verdicts, clock, edits>>

(* _parsed_snapshot_payload: what was prepared is a passing policy for the    *)
(* candidate of the request, and two different trees.                         *)
SnapshotPayloadParses(w) ==
  LET p == wf[w].payload
  IN p[2] = wf[w].request.cand /\ PolicyHolds(p[2]) /\ p[3].base # p[3].cand
(* _verified_snapshot_store: the store holds exactly the trees of the payload,*)
(* each of them what its manifest says.                                       *)
VerifiedStore(stored, commits) ==
  DOMAIN stored = DOMAIN commits /\ \A k \in DOMAIN commits : Verified(stored[k], commits[k])
(* _finalize_snapshot: the two frozen trees are the commits of the policy.    *)
SnapshotMeasured(w) ==
  /\ SnapshotPayloadParses(w)
  /\ VerifiedStore(wf[w].payload[3], [base |-> Base, cand |-> wf[w].payload[2]])
(* _parsed_red_payload: it is about the candidate snapshot of the request.    *)
RedPayloadParses(w) == wf[w].payload[2] = wf[w].request.snap
(* _finalize_red_snapshot: sources and overlay are measured again.            *)
RedMeasured(w) ==
  /\ RedPayloadParses(w)
  /\ VerifiedStore(Trees(w), [base |-> Base, cand |-> wf[w].request.snap])
  /\ ExactRedTree(Trees(w).base, Trees(w).cand, wf[w].payload[3])

(* The other phases: the evidence is the prepared payload itself.             *)
FinalizeInside(w) ==
  /\ wf[w].pc = "finalize" /\ Phase(w) \notin External
  /\ IF /\ wf[w].evidence = wf[w].payload
        /\ Phase(w) = "snapshot" => SnapshotMeasured(w)
        /\ Phase(w) = "red-snapshot" => RedMeasured(w)
     THEN TakeFinalized(w, wf[w].payload)
     ELSE Fail(w) /\ UNCHANGED <<finalized, faults>>
  /\ UNCHANGED <<exec, runtime, ledger, calls, trespass, work, prepared, nonces,
                 verdicts, clock, edits>>
-------------------------------------------------------------------------------
(* The world.                                                                 *)

(* The author commits something else, or leaves a change uncommitted; it can  *)
(* matter while a workflow is about to freeze the candidate (a bound: while   *)
(* no other workflow is running, the rest of which would not notice).         *)
Edit ==
  /\ \E w \in Workflows :
       /\ wf[w].results = <<>> /\ wf[w].pc \notin Stopped
       /\ \A v \in Workflows \ {w} : wf[v].pc \in Stopped
  /\ edits < MaxEdits /\ edits' = edits + 1
  /\ \/ \E c \in Contents \ {work.head} : work' = [head |-> c, dirty |-> FALSE]
     \/ ~work.dirty /\ work' = [work EXCEPT !.dirty = TRUE]
  /\ UNCHANGED <<brokerVars, wf, prepared, finalized, nonces, verdicts, clock>>

(* The only age that is ever measured is that of an attestation.              *)
Tick ==
  /\ \E w \in Workflows : Len(wf[w].results) >= 6
  /\ clock < MaxTime /\ clock' = clock + 1
  /\ UNCHANGED <<brokerVars, wf, work, prepared, finalized, nonces, verdicts, edits>>

(* A file of the phase cannot be copied, frozen or written (_copy_tree,       *)
(* _freeze_tree, _new_directory): the workflow ends, what is there stays.     *)
CopyFails(w) ==
  /\ wf[w].pc \in {"prepare", "finalize"}
  /\ Fault
  /\ Fail(w)
  /\ UNCHANGED <<exec, runtime, ledger, calls, trespass, work, prepared, finalized,
                 nonces, verdicts, clock, edits>>

(* The driver dies, with the broker executor that runs inside it.             *)
Kill(w) ==
  /\ wf[w].pc \notin Stopped
  /\ IF exec[w].pc \in Ended \cup {"idle"}
     THEN Fault /\ UNCHANGED <<exec, runtime, ledger, calls, trespass>>
     ELSE Die(w)
  /\ Fail(w)
  /\ UNCHANGED <<work, prepared, finalized, nonces, verdicts, clock, edits>>

Broker(w) == ExecuteBatch(w) /\ UNCHANGED reviewVars

Step(w) ==
  \/ PrepareSnapshot(w) \/ Materialise(w) \/ RecheckSnapshot(w)
  \/ PrepareFrozen(w) \/ PrepareJudge(w)
  \/ ExecuteOffline(w) \/ BeginBroker(w) \/ Broker(w) \/ EndBroker(w)
  \/ FinalizeOutside(w) \/ FinalizeInside(w)

Init ==
  /\ BrokerInit
  /\ wf = [w \in Workflows |-> New]
  /\ work \in [head : Heads, dirty : {FALSE}]
  /\ prepared = [w \in Workflows |-> NoReply]
  /\ finalized = [w \in Workflows |-> NoReply]
  /\ nonces = {} /\ verdicts = <<>>
  /\ clock = 0 /\ edits = 0

Next ==
  \/ \E w \in Workflows : Start(w) \/ Step(w) \/ Rejudge(w) \/ CopyFails(w) \/ Kill(w)
  \/ Edit \/ Tick

Spec == Init /\ [][Next]_vars
-------------------------------------------------------------------------------
(* Properties.                                                                *)

(* The committed phases of a workflow are phases 1..n of ITS OWN review, each *)
(* chained to the one committed before it, and every artifact down to the     *)
(* broker's answers is about the candidate the first request named, although  *)
(* a reply may come from another workflow and the worktree may be edited.     *)
ChainIntact ==
  \A w \in Workflows : \A i \in DOMAIN wf[w].results :
    LET res == wf[w].results[i]
    IN /\ res.request.wf = w /\ res.request.seq = i
       /\ i > 1 => res.request.prev = ResultDigest(wf[w].results[i - 1])
       /\ res.request.cand = wf[w].results[1].request.cand
       /\ i <= 5 => res.artifact[2] = wf[w].results[1].request.cand
       /\ i = 6 => res.artifact[2] = w

(* Money: whatever fails, dies or is cleaned up meanwhile, a review calls each *)
(* role at most once, every call has its row in the ledger of that review, is  *)
(* made behind the gateway of its own session, although the other review wants *)
(* the same names, and what a review reserves stays within the limit.          *)
PaidOnce ==
  \A b \in Batches :
    /\ \A i \in DOMAIN calls[b] :
         /\ calls[b][i].walled
         /\ \E row \in ledger[b] :
              row.packet = calls[b][i].packet /\ row.role = calls[b][i].role
         /\ \A j \in DOMAIN calls[b] \ {i} : calls[b][i].role # calls[b][j].role
    /\ Cardinality(ledger[b]) <= TokenLimit

(* No session ever removes a network, gateway or broker container of another  *)
(* session, although the names of the two are the same.                       *)
CleanupOwn == trespass = {}

(* A resource that outlives its batch is one whose removal failed or whose    *)
(* executor died: no failure path forgets a resource it made; and a batch     *)
(* that reports success has left nothing behind.                              *)
NothingLeft ==
  \A n \in Names : runtime[n] # Free =>
    LET b == runtime[n][1] IN exec[b].pc \notin Ended \/ (exec[b].dirty /\ exec[b].pc # "done")

(* Batches share names, not resources: each cleans up all of its own and     *)
(* nothing else.                                                              *)
CleanupExact == CleanupOwn /\ NothingLeft

(* A review passes only if the candidate named at the start satisfied the     *)
(* policy, its tests passed, each role was really called once for it in this  *)
(* review and accepted, and the attestations were still fresh; and however    *)
(* often it is judged, one set of attestations passes once.                   *)
PassIsEarned ==
  \A i \in DOMAIN verdicts : verdicts[i].status = "pass" =>
    LET v == verdicts[i]
        cand == wf[v.wf].results[1].request.cand
    IN /\ PolicyHolds(cand)
       /\ GatesPass(Runs(v.wf)) /\ TddHolds(Runs(v.wf))
       /\ Runs(v.wf)["green"].tree = TreeOf[cand]
       /\ \A r \in RoleSet :
            /\ AnswerOf(Result(v.wf, "broker").evidence[3], r) = "accept"
            /\ \E c \in Range(calls[v.wf]) : c.packet = cand /\ c.role = r
       /\ v.at - Result(v.wf, "sign").artifact[3].issued <= MaxAge
       /\ \A j \in DOMAIN verdicts \ {i} :
            verdicts[j].wf = v.wf => verdicts[j].status = "fail"

(* Every step a review takes brings it nearer its end: no failure, no foreign *)
(* resource and no cleanup that fails sends it back to a place it has left,   *)
(* so that it cannot go round for ever.                                       *)
PcOrder == [new |-> 1, prepare |-> 2, materialise |-> 3, recheck |-> 4, external |-> 5,
            finalize |-> 6, done |-> 7, failed |-> 8]
StageOrder == [idle |-> 1, probe |-> 2, preflight |-> 3, create |-> 4, connect |-> 5,
               inspect |-> 6, reserve |-> 7, call |-> 8, remove |-> 9, post |-> 10,
               cleanup |-> 11, absent |-> 12, reprobe |-> 13, measure |-> 14,
               done |-> 15, failed |-> 16, crashed |-> 17]
(* The phase, then the driver's place in it, then the role, the executor's    *)
(* stage, its place there, and whether the container is gone, as one number.  *)
Rank(w) ==
  ((((wf[w].request.seq * 10 + PcOrder[wf[w].pc]) * 10 + exec[w].role) * 20
      + StageOrder[exec[w].pc]) * 20 + exec[w].at) * 2 + IF exec[w].removed THEN 1 ELSE 0
AlwaysForward ==
  [][\A w \in Workflows :
       <<wf[w], exec[w]>> # <<wf[w], exec[w]>>' => Rank(w) < Rank(w)']_vars
===============================================================================

----------------------------- MODULE BrokerBatch -----------------------------
(* What the coordinator hands to the outer broker executor: one request per   *)
(* review role over one packet (codex_adapter.py), as an isolated invocation  *)
(* under a measured container runtime, two of which make a batch              *)
(* (broker_phase_protocol.py), checked again by the executor before anything  *)
(* is paid for (broker_outer_executor.py).                                    *)
(*                                                                            *)
(* A token or cost limit is counted in calls: every request reserves the      *)
(* whole context of the model.                                                *)
EXTENDS Integers, Sequences, FiniteSets

CONSTANTS
  Packets,        \* the review packets a batch may be about
  TokenLimit      \* broker_packet_reservation_limit, in calls

\* MAX_PACKET_RESERVED_TOKENS, ABSOLUTE_PACKET_COST_LIMIT_MICROUSD
AbsoluteLimit == 4

ASSUME BatchAssumption == TokenLimit \in 0..AbsoluteLimit

Roles == <<"reviewer", "adversary">>
RoleSet == {"reviewer", "adversary"}
MaxRoleAttempts == 2
-------------------------------------------------------------------------------
(* The container runtime.                                                     *)

(* BrokerRuntimeBinding, and the executor's _validate_runtime: a known        *)
(* runtime, isolated from root, with a seccomp profile.                       *)
RuntimeValid(rt) ==
  /\ rt.name \in {"podman", "docker"}
  /\ rt.rootless \/ rt.userns
  /\ rt.seccomp # "unconfined"

(* _domainless_security_sha256: what the security digest is taken of.         *)
Security(rt) == <<rt.name, rt.rootless, rt.userns, rt.seccomp>>

(* _validate_broker_runtime_binding: a workflow runs under rootless Podman.   *)
RootlessPodman(rt) == RuntimeValid(rt) /\ rt.name = "podman" /\ rt.rootless /\ rt.userns

\* what can be found where the runtime's executable is
Approved == [name |-> "podman", exe |-> "approved", inode |-> 1,
             rootless |-> TRUE, userns |-> TRUE, seccomp |-> "default"]
Hosts == {Approved, [Approved EXCEPT !.exe = "another"], [Approved EXCEPT !.inode = 2],
          [Approved EXCEPT !.seccomp = "unconfined"]}

(* measure_broker_outer_runtime: what the launcher binds the workflow to.     *)
Binding == CHOOSE rt \in Hosts : rt = Approved /\ RuntimeValid(rt)

(* _probe_runtime: the digest of the executable and what it says of its       *)
(* security must be those of the binding; its inode is recorded.              *)
ProbeHolds(host, rt) ==
  /\ host.exe = rt.exe
  /\ RuntimeValid(host)
  /\ Security(host) = Security(rt)
-------------------------------------------------------------------------------
(* The batch.                                                                 *)

(* build_tool_free_responses_request: the packet behind the role's prompt.    *)
Request(packet, role) ==
  [packet |-> packet, role |-> role,
   effort |-> IF role = "reviewer" THEN "high" ELSE "xhigh", tools |-> {}]
(* _validated_request_bytes, _validate_run: one packet, the effort of the     *)
(* role, no tools.                                                            *)
RequestValid(request) ==
  request.role \in RoleSet /\ request = Request(request.packet, request.role)

(* broker_container_name, broker_internal_network_name: digests of packet,    *)
(* request, role and attempt; the attempt is always 1.                        *)
NameOf(run, kind) == <<run.request.packet, run.request.role, kind>>

(* IsolatedBrokerInvocation: what one request runs as.                        *)
Invocation(packet, role, rt) ==
  [request |-> Request(packet, role), attempt |-> 1, runtime |-> Security(rt), tokens |-> 1]
InvocationValid(run) ==
  /\ RequestValid(run.request)
  /\ run.attempt \in 1..MaxRoleAttempts
  /\ run.tokens \in 1..AbsoluteLimit
(* _prepare_runs: sorted by role, whatever order they were given in.          *)
PreparedRuns(invocations) ==
  [i \in DOMAIN Roles |-> CHOOSE run \in invocations : run.request.role = Roles[i]]

(* prepare_provisioned_broker_execution: workflow w's batch over the packet,  *)
(* under the binding and with the ledger of w.                                *)
PreparedBatch(w, packet, rt) ==
  <<"batch", w, packet,
    PreparedRuns({Invocation(packet, role, rt) : role \in RoleSet}), rt>>

(* _validate_limits                                                           *)
LimitsValid == TokenLimit \in 1..AbsoluteLimit

(* _parse_run: the descriptor of one run.                                     *)
RunParses(run) == InvocationValid(run) /\ run.request.role \in RoleSet
(* _validate_batch, on the coordinator's side.                                *)
BatchValid(batch) ==
  /\ LimitsValid
  /\ RuntimeValid(batch[5])
  /\ [i \in DOMAIN batch[4] |-> batch[4][i].request.role] = Roles
  /\ \A i \in DOMAIN batch[4] :
       /\ RunParses(batch[4][i])
       /\ batch[4][i].request.packet = batch[3]
       /\ batch[4][i].runtime = Security(batch[5])
  /\ Len(batch[4]) <= TokenLimit

(* _validate_run: the executor derives names, network and argv again.         *)
ValidRun(run) == RequestValid(run.request) /\ run.attempt \in 1..2 /\ run.tokens = 1
(* _parse_prepared_batch: valid runs over the batch's packet and under its    *)
(* runtime, the roles in order, and what they reserve together within the     *)
(* packet's limits.                                                           *)
BatchParses(batch) ==
  /\ RuntimeValid(batch[5])
  /\ \A i \in DOMAIN batch[4] :
       /\ ValidRun(batch[4][i])
       /\ batch[4][i].request.packet = batch[3]
       /\ batch[4][i].runtime = Security(batch[5])
  /\ [i \in DOMAIN batch[4] |-> batch[4][i].request.role] = Roles
  /\ Len(batch[4]) <= TokenLimit
===============================================================================

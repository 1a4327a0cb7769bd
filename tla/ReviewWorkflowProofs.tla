-------------------------- MODULE ReviewWorkflowProofs --------------------------
(***************************************************************************)
(* Proofs about ReviewWorkflow for any number of reviews, any candidates,  *)
(* limits and faults: the phases a review commits are one chain about one  *)
(* candidate, each role is paid once behind its own gateway, the cleanup   *)
(* removes what is its own and forgets nothing, no step takes a review     *)
(* back, and a review that passes has earned it.                           *)
(***************************************************************************)
EXTENDS ReviewWorkflow, FiniteSetTheorems, SequenceTheorems, TLAPS

-----------------------------------------------------------------------------
(* The executor's inductive invariant *)

StagePcs == {"idle", "probe", "preflight", "create", "connect", "inspect",
             "reserve", "call", "remove", "post", "cleanup", "absent",
             "reprobe", "measure", "done", "failed", "crashed"}

\* The stages before the call of a role, and those at which its networks and
\* gateway are there to be used.
Before == {"idle", "probe", "preflight", "create", "connect", "inspect",
           "reserve", "call"}
Using == {"create", "connect", "inspect", "reserve", "call", "remove", "post"}
Closing == {"cleanup", "absent"}

ExecShape(e) ==
    e = [pc |-> e.pc, packet |-> e.packet, role |-> e.role, at |-> e.at,
         created |-> e.created, attempted |-> e.attempted,
         removed |-> e.removed, failed |-> e.failed, clean |-> e.clean,
         dirty |-> e.dirty, pre |-> e.pre, run |-> e.run, final |-> e.final]

ExecType(e) ==
    /\ ExecShape(e)
    /\ e.pc \in StagePcs /\ e.role \in {1, 2} /\ e.at \in {1, 2, 3}
    /\ e.created \in SUBSET Lifecycle
    /\ e.attempted \in BOOLEAN /\ e.removed \in BOOLEAN
    /\ e.failed \in BOOLEAN /\ e.clean \in BOOLEAN /\ e.dirty \in BOOLEAN
    /\ e.pc # "idle" => e.packet \in Packets

\* What the place of the executor says of its flags: a run that is neither
\* closing nor over has seen no failure, the flags of a role are those of its
\* own run, and a removal that failed is a failure of the batch.
Flags(e) ==
    /\ e.pc \notin Closing \cup {"failed", "crashed"} =>
         ~e.failed /\ e.clean /\ ~e.dirty
    /\ e.pc \in Closing /\ e.dirty => e.failed \/ ~e.clean
    /\ e.pc \in Before => ~e.attempted /\ ~e.removed
    /\ e.pc \in {"idle", "probe", "preflight"} => e.created = {}
    /\ e.pc \in {"idle", "probe"} => e.role = 1
    /\ e.pc = "remove" => e.attempted /\ ~e.removed
    /\ e.pc = "post" => e.attempted /\ e.removed
    /\ e.pc \notin {"create", "cleanup"} => e.at = 1
    /\ e.pc \in {"measure", "done"} => e.role = 2

Owner(b, e) == <<b, Roles[e.role]>>
ResourceOf(e, kind) == <<e.packet, Roles[e.role], kind>>

\* The broker container is still to be removed by the run.
AwaitsRemoval(e) ==
    \/ e.pc = "remove"
    \/ e.pc = "cleanup" /\ e.at = 1 /\ e.attempted /\ ~e.removed

\* A role that is about to call has its whole boundary, and keeps the internal
\* network until its container is gone.
Holds(b, e, rt) ==
    /\ e.pc \in {"reserve", "call"} =>
         \A k \in Lifecycle : rt[ResourceOf(e, k)] = Owner(b, e)
    /\ AwaitsRemoval(e) => rt[ResourceOf(e, "internal")] = Owner(b, e)

\* The resource is one the run at hand has to remove.
Held(e, kind) ==
    \/ /\ kind \in e.created
       /\ \/ e.pc \in Using
          \/ e.pc = "cleanup" /\ \E i \in e.at..3 : CleanupOrder[i] = kind
    \/ kind = "broker" /\ AwaitsRemoval(e)

\* A resource of the batch is about its packet, and is one its run has to
\* remove or one whose removal failed.
Owns(b, e, rt) ==
    \A n \in Names : rt[n] # Free /\ rt[n][1] = b =>
      /\ n[1] = e.packet /\ n[2] = rt[n][2]
      /\ e.dirty \/ (n[2] = Roles[e.role] /\ Held(e, n[3]))

\* A broker container is attached to the internal network of its own session.
Attached(rt) ==
    \A p \in Packets, r \in RoleSet :
      rt[<<p, r, "broker">>] # Free =>
        rt[<<p, r, "internal">>] = rt[<<p, r, "broker">>]

LedgerRows == [packet : Packets, role : RoleSet, attempt : {1}]

\* The rows of a review are about the packet of its batch.
LedgerInv(e, rows) ==
    /\ IsFiniteSet(rows) /\ Cardinality(rows) <= TokenLimit
    /\ \A row \in rows : row.packet = e.packet
    /\ e.pc = "idle" => rows = {}
    /\ e.pc = "call" =>
         [packet |-> e.packet, role |-> Roles[e.role], attempt |-> 1] \in rows

CallRecords == [packet : Packets, role : RoleSet, walled : BOOLEAN]

Called(made, role) == \E i \in DOMAIN made : made[i].role = role

\* A role is called in its own run only, once, and has been called when the
\* run goes on.
CallsInv(e, rows, made) ==
    /\ \A i \in DOMAIN made :
         /\ made[i].walled /\ made[i].packet = e.packet
         /\ \E row \in rows :
              row.packet = made[i].packet /\ row.role = made[i].role
         /\ \A j \in DOMAIN made \ {i} : made[i].role # made[j].role
    /\ Called(made, "adversary") => e.role = 2
    /\ e.pc \in Before => ~Called(made, Roles[e.role])
    /\ e.pc \notin Ended \ {"done"} /\ e.role = 2 => Called(made, "reviewer")
    /\ \/ e.pc \in {"remove", "post", "reprobe", "measure", "done"}
       \/ e.pc \in Closing /\ ~e.failed
       => Called(made, Roles[e.role])

BatchInv(b, e, rt, rows, made) ==
    /\ ExecType(e) /\ Flags(e)
    /\ Holds(b, e, rt) /\ Owns(b, e, rt)
    /\ LedgerInv(e, rows)
    /\ CallsInv(e, rows, made)

RuntimeType(rt) == rt \in [Names -> {Free} \cup (Batches \X RoleSet)]

BrokerType ==
    /\ exec = [b \in Batches |-> exec[b]]
    /\ RuntimeType(runtime)
    /\ ledger \in [Batches -> SUBSET LedgerRows]
    /\ calls \in [Batches -> Seq(CallRecords)]

BrokerInv ==
    /\ BrokerType
    /\ \A b \in Batches : BatchInv(b, exec[b], runtime, ledger[b], calls[b])
    /\ Attached(runtime)
    /\ trespass = {}

-----------------------------------------------------------------------------
(* The driver's inductive invariant *)

Pcs == {"new", "prepare", "materialise", "recheck", "external", "finalize",
        "done", "failed"}

IsSequence(s) == s \in Seq({s[i] : i \in DOMAIN s})

RequestShape(r) ==
    r = [wf |-> r.wf, seq |-> r.seq, prev |-> r.prev, cand |-> r.cand,
         snap |-> r.snap, packet |-> r.packet]
DriverShape(s) ==
    s = [pc |-> s.pc, request |-> s.request, payload |-> s.payload,
         evidence |-> s.evidence, results |-> s.results]

\* The i-th request of review w, about candidate c: the anchors that the
\* phases before it have set are c.
ForPhase(r, w, i, c) ==
    /\ RequestShape(r)
    /\ r.wf = w /\ r.seq = i /\ r.cand = c
    /\ i >= 2 => r.snap = c
    /\ i >= 5 => r.packet = c

\* The i-th result of review w, about candidate c.
OfPhase(res, w, i, c) ==
    /\ ForPhase(res.request, w, i, c)
    /\ i <= 5 => res.artifact[2] = c
    /\ i = 6 => res.artifact[2] = w

Chained(results, w, c) ==
    \A i \in DOMAIN results :
      /\ OfPhase(results[i], w, i, c)
      /\ i > 1 => results[i].request.prev = ResultDigest(results[i - 1])

\* What a prepared phase hands to the step that follows it.
PayloadInv(s, w) ==
    /\ s.pc = "finalize" /\ s.request.seq = 4 => s.payload[2] = s.request.cand
    /\ s.pc = "finalize" /\ s.request.seq = 6 => s.payload[2] = w
    /\ s.pc = "external" /\ s.request.seq = 5 =>
         s.payload[3] = s.request.cand

DriverInv(s, w) ==
    /\ DriverShape(s) /\ s.pc \in Pcs /\ IsSequence(s.results)
    /\ s.pc = "new" => s = New
    /\ s.pc # "new" =>
         /\ s.request.cand \in Contents
         /\ s.request.seq \in 1..7
         /\ ForPhase(s.request, w, s.request.seq, s.request.cand)
         /\ Len(s.results) = IF s.pc = "done" THEN 7 ELSE s.request.seq - 1
         /\ s.pc = "done" => s.request.seq = 7
         /\ s.pc \in {"materialise", "recheck"} => s.request.seq = 1
         /\ s.pc # "done" /\ s.request.seq > 1 =>
              s.request.prev = ResultDigest(s.results[s.request.seq - 1])
         /\ Chained(s.results, w, s.request.cand)
    /\ PayloadInv(s, w)

\* The last replies made for a review are about its own requests, and older
\* than the one it waits for.
PreparedInv(p, s, w) ==
    p.request # NoRequest =>
      /\ s.pc # "new"
      /\ p.request.wf = w /\ p.request.seq \in 1..s.request.seq
      /\ s.pc \in {"prepare", "materialise", "recheck"} =>
           p.request.seq # s.request.seq
FinalizedInv(f, s, w) ==
    f # NoReply =>
      /\ s.pc # "new"
      /\ f.result.request.wf = w /\ f.result.request.seq \in 1..s.request.seq
      /\ s.pc \notin Stopped => f.result.request.seq # s.request.seq

\* The executor runs the batch of its review, and the broker phase is
\* finalized only after it has run to its end.
ExecutorInv(s, e) ==
    /\ e.pc # "idle" => s.pc # "new" /\ e.packet = s.request.cand
    /\ \/ Len(s.results) >= 5
       \/ s.pc = "finalize" /\ s.request.seq = 5
       => e.pc = "done"

ReviewInv(w) ==
    /\ DriverInv(wf[w], w)
    /\ PreparedInv(prepared[w], wf[w], w)
    /\ FinalizedInv(finalized[w], wf[w], w)
    /\ ExecutorInv(wf[w], exec[w])

ReviewType ==
    /\ wf = [w \in Workflows |-> wf[w]]
    /\ prepared = [w \in Workflows |-> prepared[w]]
    /\ finalized = [w \in Workflows |-> finalized[w]]
    /\ clock \in Nat

DriversInv == ReviewType /\ \A w \in Workflows : ReviewInv(w)

-----------------------------------------------------------------------------
(* Names, sessions and what one batch does to another *)

\* A session label is none that a free name has.
LEMMA SessionNotFree ==
    ASSUME NEW b, NEW r PROVE <<b, r>> # Free
  BY DEF Free

\* The roles of a batch, in the order they run.
LEMMA RolesAre ==
    /\ Roles[1] = "reviewer" /\ Roles[2] = "adversary"
    /\ \A i \in {1, 2} : Roles[i] \in RoleSet
  BY DEF Roles, RoleSet

\* The cleanup's three targets are the three resources that are created.
LEMMA TargetsAre ==
    /\ CleanupOrder[1] = "gateway" /\ CleanupOrder[2] = "internal"
    /\ CleanupOrder[3] = "external"
    /\ CreateOrder[1] = "internal" /\ CreateOrder[2] = "external"
    /\ CreateOrder[3] = "gateway"
    /\ Lifecycle = {"internal", "external", "gateway"}
    /\ "broker" \notin Lifecycle
  BY DEF CleanupOrder, CreateOrder, Lifecycle

\* The names a run uses are among the names there are.
LEMMA NamesOfRun ==
    ASSUME NEW e, ExecType(e), e.packet \in Packets,
           NEW k \in Lifecycle \cup {"broker"}
    PROVE  ResourceOf(e, k) \in Names
  BY RolesAre DEF ResourceOf, Names, ExecType

\* What the operators of the executor are for the state of its batch.
LEMMA Abbreviations ==
    ASSUME NEW b \in Batches, NEW k
    PROVE  /\ Session(b) = Owner(b, exec[b])
           /\ Name(b, k) = ResourceOf(exec[b], k)
           /\ Role(b) = Roles[exec[b].role]
           /\ Run(b).attempt = 1 /\ Run(b).tokens = 1
  BY DEF Session, Owner, Name, ResourceOf, NameOf, Run, Role, Invocation,
         Request

\* One command of a batch touches at most one name, which is free or its own.
Touches(b, e, rt, rt2) ==
    \/ rt2 = rt
    \/ \E n \in Names, v \in {Free, Owner(b, e)} :
         rt[n] \in {Free, Owner(b, e)} /\ rt2 = [rt EXCEPT ![n] = v]

\* So the resources of every other batch stay what they are.
LEMMA OthersUntouched ==
    ASSUME NEW rt, NEW rt2, RuntimeType(rt), NEW b \in Batches, NEW c \in Batches,
           b # c, NEW e, ExecType(e), Touches(b, e, rt, rt2),
           NEW n \in Names,
           (rt[n] # Free /\ rt[n][1] = c) \/ (rt2[n] # Free /\ rt2[n][1] = c)
    PROVE  rt2[n] = rt[n]
<1>1. CASE rt2 = rt
  BY <1>1
<1>2. ASSUME NEW m \in Names, NEW v \in {Free, Owner(b, e)},
             rt[m] \in {Free, Owner(b, e)}, rt2 = [rt EXCEPT ![m] = v]
      PROVE  rt2[n] = rt[n]
  <2>1. DOMAIN rt = Names
    BY DEF RuntimeType
  <2>2. CASE n # m
    BY <1>2, <2>1, <2>2
  <2>3. CASE n = m
    <3>1. rt2[n] = v
      BY <1>2, <2>1, <2>3
    <3>2. Owner(b, e)[1] # c
      BY DEF Owner
    <3> QED BY <1>2, <2>3, <3>1, <3>2
  <2> QED BY <2>2, <2>3
<1> QED BY <1>1, <1>2 DEF Touches

\* The runtime keeps mapping names to sessions.
LEMMA TouchesType ==
    ASSUME NEW rt, NEW rt2, RuntimeType(rt), NEW b \in Batches, NEW e,
           ExecType(e), Touches(b, e, rt, rt2)
    PROVE  RuntimeType(rt2)
<1>1. Owner(b, e) \in Batches \X RoleSet
  BY RolesAre DEF Owner, ExecType
<1> QED BY <1>1 DEF Touches, RuntimeType

\* A batch whose own resources are untouched keeps its invariant.
LEMMA OthersKeep ==
    ASSUME NEW rt, NEW rt2, RuntimeType(rt), NEW b \in Batches, NEW c \in Batches,
           b # c, NEW e, ExecType(e), Touches(b, e, rt, rt2),
           NEW ec, NEW rows, NEW made, BatchInv(c, ec, rt, rows, made)
    PROVE  BatchInv(c, ec, rt2, rows, made)
<1>1. \A n \in Names : (rt[n] # Free /\ rt[n][1] = c)
                       \/ (rt2[n] # Free /\ rt2[n][1] = c) => rt2[n] = rt[n]
  BY OthersUntouched
<1>2. Owns(c, ec, rt2)
  BY <1>1 DEF BatchInv, Owns
<1>3. ASSUME NEW k \in Lifecycle, ec.packet \in Packets,
             rt[ResourceOf(ec, k)] = Owner(c, ec)
      PROVE  rt2[ResourceOf(ec, k)] = Owner(c, ec)
  <2>1. ResourceOf(ec, k) \in Names
    BY <1>3, NamesOfRun DEF BatchInv
  <2>2. Owner(c, ec) # Free /\ Owner(c, ec)[1] = c
    BY SessionNotFree DEF Owner
  <2> QED BY <1>1, <1>3, <2>1, <2>2
<1>4. Holds(c, ec, rt2)
  <2>1. "internal" \in Lifecycle
    BY TargetsAre
  <2>2. ec.pc \in {"reserve", "call"} \/ AwaitsRemoval(ec) => ec.packet \in Packets
    BY DEF BatchInv, ExecType, AwaitsRemoval
  <2> QED BY <1>3, <2>1, <2>2 DEF Holds, BatchInv
<1> QED BY <1>2, <1>4 DEF BatchInv

-----------------------------------------------------------------------------
(* What the places of the executor preserve *)

\* The record of the executor after an exception.
Raised(e, e2) ==
    /\ ExecShape(e2) /\ e2.pc = "cleanup" /\ e2.at = 1 /\ e2.failed = TRUE
    /\ e2.packet = e.packet /\ e2.role = e.role /\ e2.created = e.created
    /\ e2.attempted = e.attempted /\ e2.removed = e.removed
    /\ e2.clean = e.clean /\ e2.dirty = e.dirty

\* An exception closes the run: everything it holds is still to be removed.
LEMMA RaiseKeeps ==
    ASSUME NEW b \in Batches, NEW e, NEW rt, NEW rows, NEW made,
           BatchInv(b, e, rt, rows, made),
           e.pc \in Using \cup {"preflight"}, e.pc # "call",
           NEW e2, Raised(e, e2)
    PROVE  BatchInv(b, e2, rt, rows, made)
<1>1. /\ ExecShape(e2) /\ e2.pc = "cleanup" /\ e2.at = 1 /\ e2.failed = TRUE
      /\ e2.packet = e.packet /\ e2.role = e.role /\ e2.created = e.created
      /\ e2.attempted = e.attempted /\ e2.removed = e.removed
      /\ e2.clean = e.clean /\ e2.dirty = e.dirty
  BY DEF Raised
<1>2. ExecType(e2)
  BY <1>1 DEF BatchInv, ExecType, ExecShape, Using, StagePcs
<1>3. Flags(e2)
  BY <1>1 DEF BatchInv, Flags, Using, Closing, Before
<1>4. AwaitsRemoval(e2) => AwaitsRemoval(e)
  BY <1>1 DEF BatchInv, Flags, AwaitsRemoval, Using, Before
<1>5. ResourceOf(e2, "internal") = ResourceOf(e, "internal") /\ Owner(b, e2) = Owner(b, e)
  BY <1>1 DEF ResourceOf, Owner
<1>6. Holds(b, e2, rt)
  BY <1>1, <1>4, <1>5 DEF BatchInv, Holds
<1>7. \A k : Held(e, k) => Held(e2, k)
  <2>1. ASSUME NEW k, k \in e.created
        PROVE  Held(e2, k)
    <3>1. k \in Lifecycle
      BY <2>1 DEF BatchInv, ExecType
    <3> QED BY <1>1, <2>1, <3>1, TargetsAre DEF Held
  <2>2. ASSUME NEW k, k = "broker", AwaitsRemoval(e)
        PROVE  Held(e2, k)
    <3>1. AwaitsRemoval(e2)
      BY <1>1, <2>2 DEF BatchInv, Flags, AwaitsRemoval, Using
    <3> QED BY <2>2, <3>1 DEF Held
  <2> QED BY <2>1, <2>2 DEF Held
<1>8. Owns(b, e2, rt)
  BY <1>1, <1>7 DEF BatchInv, Owns
<1>9. LedgerInv(e2, rows)
  BY <1>1 DEF BatchInv, LedgerInv
<1>10. CallsInv(e2, rows, made)
  BY <1>1 DEF BatchInv, CallsInv, Using, Before, Closing, Ended, Flags
<1> QED BY <1>2, <1>3, <1>6, <1>8, <1>9, <1>10 DEF BatchInv

\* The record of an executor that has lost what it had collected.
Emptied(e, e2, pc, dirty) ==
    /\ ExecShape(e2) /\ e2.pc = pc /\ e2.at = 1
    /\ e2.packet = e.packet /\ e2.role = e.role /\ e2.created = {}
    /\ e2.attempted = FALSE /\ e2.removed = FALSE /\ e2.failed = FALSE
    /\ e2.clean = TRUE /\ e2.dirty = dirty

\* A batch that ends without evidence leaves nothing but what it failed to
\* remove.
LEMMA LostKeeps ==
    ASSUME NEW b \in Batches, NEW e, NEW rt, NEW rows, NEW made,
           BatchInv(b, e, rt, rows, made),
           e.pc \notin {"idle"} \cup Ended,
           NEW pc \in {"failed", "crashed"}, NEW dirty \in BOOLEAN,
           dirty \/ (dirty = e.dirty /\ e.pc \in {"probe", "absent", "reprobe", "measure"}),
           NEW e2, Emptied(e, e2, pc, dirty)
    PROVE  BatchInv(b, e2, rt, rows, made)
<1> USE DEF Emptied
<1>1. ExecType(e2)
  BY DEF BatchInv, ExecType, StagePcs
<1>2. Flags(e2)
  BY DEF BatchInv, Flags, Closing, Before, ExecType
<1>3. Holds(b, e2, rt)
  BY DEF Holds, AwaitsRemoval
<1>4. dirty \/ \A k : ~Held(e, k)
  BY DEF BatchInv, Held, AwaitsRemoval, Using, Flags
<1>5. Owns(b, e2, rt)
  BY <1>4 DEF BatchInv, Owns
<1>6. LedgerInv(e2, rows)
  BY DEF BatchInv, LedgerInv
<1>7. CallsInv(e2, rows, made)
  BY DEF BatchInv, CallsInv, Before, Closing, Ended
<1> QED BY <1>1, <1>2, <1>3, <1>5, <1>6, <1>7 DEF BatchInv

\* What Lost makes of the state of a batch.
LEMMA LostIs ==
    ASSUME NEW b \in Batches, NEW pc
    PROVE  Emptied(exec[b], Lost(b, pc), pc, exec[b].dirty)
<1>0. PICK noRuns : noRuns = [r \in RoleSet |-> NoRun]
  OBVIOUS
<1>1. PICK i : i = Idle
  OBVIOUS
<1>2. i = [pc |-> "idle", packet |-> NoPacket, role |-> 1, at |-> 1,
           created |-> {}, attempted |-> FALSE, removed |-> FALSE,
           failed |-> FALSE, clean |-> TRUE, dirty |-> FALSE,
           pre |-> Approved, run |-> noRuns, final |-> {}]
  BY <1>0, <1>1, Zenon DEF Idle
<1>3. PICK packet, role, dirty, approved, noPacket :
        /\ packet = exec[b].packet /\ role = exec[b].role /\ dirty = exec[b].dirty
        /\ approved = Approved /\ noPacket = NoPacket
  OBVIOUS
<1>4. i = [pc |-> "idle", packet |-> noPacket, role |-> 1, at |-> 1,
           created |-> {}, attempted |-> FALSE, removed |-> FALSE,
           failed |-> FALSE, clean |-> TRUE, dirty |-> FALSE,
           pre |-> approved, run |-> noRuns, final |-> {}]
  BY <1>2, <1>3, Zenon
<1>5. PICK j : j = [i EXCEPT !.pc = pc, !.packet = packet]
  OBVIOUS
<1>6. j = [pc |-> pc, packet |-> packet, role |-> 1, at |-> 1,
           created |-> {}, attempted |-> FALSE, removed |-> FALSE,
           failed |-> FALSE, clean |-> TRUE, dirty |-> FALSE,
           pre |-> approved, run |-> noRuns, final |-> {}]
  BY <1>4, <1>5
<1>7. PICK k : k = [j EXCEPT !.role = role, !.dirty = dirty]
  OBVIOUS
<1>8. k = [pc |-> pc, packet |-> packet, role |-> role, at |-> 1,
           created |-> {}, attempted |-> FALSE, removed |-> FALSE,
           failed |-> FALSE, clean |-> TRUE, dirty |-> dirty,
           pre |-> approved, run |-> noRuns, final |-> {}]
  BY <1>6, <1>7
<1>9. Lost(b, pc) = k
  BY <1>1, <1>3, <1>5, <1>7, Zenon DEF Lost
<1>10. Emptied(exec[b], k, pc, exec[b].dirty)
  BY <1>3, <1>8 DEF Emptied, ExecShape
<1> QED BY <1>9, <1>10

-----------------------------------------------------------------------------
(* A step of one batch *)

\* What a step of batch b has to keep, so that all batches keep theirs.
LEMMA Settle ==
    ASSUME BrokerInv, NEW b \in Batches, NEW e2, NEW rt2, NEW rows2, NEW made2,
           exec' = [exec EXCEPT ![b] = e2],
           runtime' = rt2, Touches(b, exec[b], runtime, rt2),
           ledger' = [ledger EXCEPT ![b] = rows2],
           calls' = [calls EXCEPT ![b] = made2],
           rows2 \in SUBSET LedgerRows, made2 \in Seq(CallRecords),
           BatchInv(b, e2, rt2, rows2, made2),
           Attached(rt2), trespass' = {}
    PROVE  BrokerInv'
<1> PICK ex, le, ca : ex = exec' /\ le = ledger' /\ ca = calls'
  OBVIOUS
<1>1. /\ ex = [c \in Batches |-> ex[c]]
      /\ le \in [Batches -> SUBSET LedgerRows]
      /\ ca \in [Batches -> Seq(CallRecords)]
      /\ ex[b] = e2 /\ le[b] = rows2 /\ ca[b] = made2
      /\ \A c \in Batches \ {b} : ex[c] = exec[c] /\ le[c] = ledger[c] /\ ca[c] = calls[c]
  BY DEF BrokerInv, BrokerType
<1>2. ExecType(exec[b]) /\ RuntimeType(runtime)
  BY DEF BrokerInv, BrokerType, BatchInv
<1>3. RuntimeType(rt2)
  BY <1>2, TouchesType
<1>4. ASSUME NEW c \in Batches
      PROVE  BatchInv(c, ex[c], rt2, le[c], ca[c])
  <2>1. CASE c = b
    BY <1>1, <2>1
  <2>2. CASE c # b
    <3>1. BatchInv(c, exec[c], runtime, ledger[c], calls[c])
      BY DEF BrokerInv
    <3>2. BatchInv(c, exec[c], rt2, ledger[c], calls[c])
      BY <1>2, <2>2, <3>1, OthersKeep
    <3> QED BY <1>1, <2>2, <3>2
  <2> QED BY <2>1, <2>2
<1> QED BY <1>1, <1>3, <1>4 DEF BrokerInv, BrokerType

\* The same for a step that changes only where the executor is.
LEMMA SettleExec ==
    ASSUME BrokerInv, NEW b \in Batches, NEW e2,
           exec' = [exec EXCEPT ![b] = e2],
           UNCHANGED <<runtime, ledger, calls, trespass>>,
           BatchInv(b, e2, runtime, ledger[b], calls[b])
    PROVE  BrokerInv'
<1> PICK rt, rows, made : rt = runtime /\ rows = ledger[b] /\ made = calls[b]
  OBVIOUS
<1>1. /\ ledger' = [ledger EXCEPT ![b] = rows] /\ calls' = [calls EXCEPT ![b] = made]
      /\ rows \in SUBSET LedgerRows /\ made \in Seq(CallRecords)
  BY DEF BrokerInv, BrokerType
<1>2. /\ runtime' = rt /\ Touches(b, exec[b], runtime, rt)
      /\ Attached(rt) /\ trespass' = {} /\ BatchInv(b, e2, rt, rows, made)
  BY DEF BrokerInv, Touches
<1> QED BY <1>1, <1>2, Settle

\* The same for a step that changes the runtime as well.
LEMMA SettleRuntime ==
    ASSUME BrokerInv, NEW b \in Batches, NEW e2, NEW rt2,
           exec' = [exec EXCEPT ![b] = e2], runtime' = rt2,
           Touches(b, exec[b], runtime, rt2),
           UNCHANGED <<ledger, calls, trespass>>, Attached(rt2),
           BatchInv(b, e2, rt2, ledger[b], calls[b])
    PROVE  BrokerInv'
<1> PICK rows, made : rows = ledger[b] /\ made = calls[b]
  OBVIOUS
<1>1. /\ ledger' = [ledger EXCEPT ![b] = rows] /\ calls' = [calls EXCEPT ![b] = made]
      /\ rows \in SUBSET LedgerRows /\ made \in Seq(CallRecords)
  BY DEF BrokerInv, BrokerType
<1>2. trespass' = {} /\ BatchInv(b, e2, rt2, rows, made)
  BY DEF BrokerInv
<1> QED BY <1>1, <1>2, Settle

\* What a step of batch b may use of the invariant.
LEMMA OwnInv ==
    ASSUME BrokerInv, NEW b \in Batches
    PROVE  /\ BatchInv(b, exec[b], runtime, ledger[b], calls[b])
           /\ RuntimeType(runtime) /\ Attached(runtime)
           /\ ExecShape(exec[b])
  BY DEF BrokerInv, BrokerType, BatchInv, ExecType

\* e2 is e at another place; what was recorded of the run may differ too.
Moved(e, e2, pc, at) ==
    /\ ExecShape(e2) /\ e2.pc = pc /\ e2.at = at
    /\ e2.packet = e.packet /\ e2.role = e.role /\ e2.created = e.created
    /\ e2.attempted = e.attempted /\ e2.removed = e.removed
    /\ e2.failed = e.failed /\ e2.clean = e.clean /\ e2.dirty = e.dirty

\* The moves of an executor that is not closing, one place on.
Moves == {<<"probe", "preflight">>, <<"preflight", "create">>, <<"connect", "inspect">>,
          <<"inspect", "reserve">>, <<"reserve", "call">>, <<"post", "cleanup">>,
          <<"absent", "reprobe">>, <<"reprobe", "measure">>,
          <<"measure", "done">>}

\* A step that only goes on keeps the invariant, if what the next place relies
\* on is there.
LEMMA MoveKeeps ==
    ASSUME NEW b \in Batches, NEW e, NEW rt, NEW rows, NEW made,
           BatchInv(b, e, rt, rows, made),
           NEW pc, <<e.pc, pc>> \in Moves,
           pc = "reserve" => \A k \in Lifecycle : rt[ResourceOf(e, k)] = Owner(b, e),
           pc = "call" =>
             [packet |-> e.packet, role |-> Roles[e.role], attempt |-> 1] \in rows,
           pc = "reprobe" => ~e.failed /\ e.clean,
           pc = "measure" => e.role = 2,
           NEW e2, Moved(e, e2, pc, 1)
    PROVE  BatchInv(b, e2, rt, rows, made)
<1> USE DEF Moved
<1>0. /\ e.pc \in {"probe", "preflight", "connect", "inspect", "reserve", "post",
                   "absent", "reprobe", "measure"}
      /\ e.pc = "probe" => pc = "preflight"
      /\ e.pc = "preflight" => pc = "create"
      /\ e.pc = "connect" => pc = "inspect"
      /\ e.pc = "inspect" => pc = "reserve"
      /\ e.pc = "reserve" => pc = "call"
      /\ e.pc = "post" => pc = "cleanup"
      /\ e.pc = "absent" => pc = "reprobe"
      /\ e.pc = "reprobe" => pc = "measure"
      /\ e.pc = "measure" => pc = "done"
  BY DEF Moves
<1>1. ExecType(e2)
  BY <1>0 DEF BatchInv, ExecType, ExecShape, StagePcs
<1>2. Flags(e2)
  BY <1>0 DEF BatchInv, Flags, Closing, Before
<1>3. ~AwaitsRemoval(e2)
  BY <1>0 DEF BatchInv, Flags, AwaitsRemoval
<1>4. ResourceOf(e2, "internal") = ResourceOf(e, "internal") /\ Owner(b, e2) = Owner(b, e)
      /\ \A k : ResourceOf(e2, k) = ResourceOf(e, k)
  BY DEF ResourceOf, Owner
<1>5. Holds(b, e2, rt)
  BY <1>0, <1>3, <1>4 DEF BatchInv, Holds
<1>6. \A k : Held(e, k) => Held(e2, k)
  <2>1. ~AwaitsRemoval(e)
    BY <1>0 DEF AwaitsRemoval
  <2>2. ASSUME NEW k, k \in e.created
        PROVE  e.pc \in Using => Held(e2, k)
    <3>1. k \in Lifecycle
      BY <2>2 DEF BatchInv, ExecType
    <3> QED BY <1>0, <2>2, <3>1, TargetsAre DEF Held, Using
  <2> QED BY <1>0, <2>1, <2>2 DEF Held
<1>7. Owns(b, e2, rt)
  BY <1>6 DEF BatchInv, Owns
<1>8. LedgerInv(e2, rows)
  BY <1>0 DEF BatchInv, LedgerInv
<1>9. CallsInv(e2, rows, made)
  BY <1>0 DEF BatchInv, CallsInv, Before, Closing, Ended
<1> QED BY <1>1, <1>2, <1>5, <1>7, <1>8, <1>9 DEF BatchInv

\* Such moves are what the steps of the executor do to its record.
LEMMA MovesAre ==
    ASSUME NEW e, ExecShape(e), NEW pc, NEW at, NEW run, NEW pre, NEW final, NEW e2
    PROVE  /\ e2 = [e EXCEPT !.pre = pre, !.pc = pc] => Moved(e, e2, pc, e.at)
           /\ e2 = [e EXCEPT !.pc = pc, !.final = final] => Moved(e, e2, pc, e.at)
           /\ e2 = [e EXCEPT !.run = run, !.pc = pc, !.at = at] => Moved(e, e2, pc, at)
           /\ e2 = [e EXCEPT !.run = run, !.pc = pc] => Moved(e, e2, pc, e.at)
<1>1. ASSUME e2 = [e EXCEPT !.pre = pre, !.pc = pc]
      PROVE  Moved(e, e2, pc, e.at)
  <2>1. e2 = [pc |-> pc, packet |-> e.packet, role |-> e.role, at |-> e.at,
            created |-> e.created, attempted |-> e.attempted,
            removed |-> e.removed, failed |-> e.failed, clean |-> e.clean,
            dirty |-> e.dirty, pre |-> pre, run |-> e.run, final |-> e.final]
    BY <1>1 DEF ExecShape
  <2> QED BY <2>1 DEF Moved, ExecShape
<1>2. ASSUME e2 = [e EXCEPT !.pc = pc, !.final = final]
      PROVE  Moved(e, e2, pc, e.at)
  <2>1. e2 = [pc |-> pc, packet |-> e.packet, role |-> e.role, at |-> e.at,
            created |-> e.created, attempted |-> e.attempted,
            removed |-> e.removed, failed |-> e.failed, clean |-> e.clean,
            dirty |-> e.dirty, pre |-> e.pre, run |-> e.run, final |-> final]
    BY <1>2 DEF ExecShape
  <2> QED BY <2>1 DEF Moved, ExecShape
<1>3. ASSUME e2 = [e EXCEPT !.run = run, !.pc = pc, !.at = at]
      PROVE  Moved(e, e2, pc, at)
  <2>1. e2 = [pc |-> pc, packet |-> e.packet, role |-> e.role, at |-> at,
            created |-> e.created, attempted |-> e.attempted,
            removed |-> e.removed, failed |-> e.failed, clean |-> e.clean,
            dirty |-> e.dirty, pre |-> e.pre, run |-> run, final |-> e.final]
    BY <1>3 DEF ExecShape
  <2> QED BY <2>1 DEF Moved, ExecShape
<1>4. ASSUME e2 = [e EXCEPT !.run = run, !.pc = pc]
      PROVE  Moved(e, e2, pc, e.at)
  <2>1. e2 = [pc |-> pc, packet |-> e.packet, role |-> e.role, at |-> e.at,
            created |-> e.created, attempted |-> e.attempted,
            removed |-> e.removed, failed |-> e.failed, clean |-> e.clean,
            dirty |-> e.dirty, pre |-> e.pre, run |-> run, final |-> e.final]
    BY <1>4 DEF ExecShape
  <2> QED BY <2>1 DEF Moved, ExecShape
<1> QED BY <1>1, <1>2, <1>3, <1>4

\* What Raise makes of the state of a batch.
LEMMA RaiseIs ==
    ASSUME NEW b \in Batches, ExecShape(exec[b])
    PROVE  Raised(exec[b], Raise(b))
<1> PICK e, e2 : e = exec[b] /\ e2 = [e EXCEPT !.failed = TRUE, !.pc = "cleanup", !.at = 1]
  OBVIOUS
<1>1. e2 = [pc |-> "cleanup", packet |-> e.packet, role |-> e.role, at |-> 1,
            created |-> e.created, attempted |-> e.attempted,
            removed |-> e.removed, failed |-> TRUE, clean |-> e.clean,
            dirty |-> e.dirty, pre |-> e.pre, run |-> e.run, final |-> e.final]
  BY DEF ExecShape
<1>2. Raised(e, e2)
  BY <1>1 DEF Raised, ExecShape
<1> QED BY <1>2 DEF Raise

\* An exception in the run of a role closes it.
LEMMA RaiseSettles ==
    ASSUME BrokerInv, NEW b \in Batches,
           exec[b].pc \in Using \cup {"preflight"}, exec[b].pc # "call",
           Become(b, Raise(b)), UNCHANGED <<runtime, ledger, calls, trespass>>
    PROVE  BrokerInv'
<1> PICK e2 : e2 = Raise(b)
  OBVIOUS
<1>1. Raised(exec[b], e2)
  BY OwnInv, RaiseIs
<1>2. exec' = [exec EXCEPT ![b] = e2]
  BY DEF Become
<1>3. BatchInv(b, e2, runtime, ledger[b], calls[b])
  BY <1>1, OwnInv, RaiseKeeps
<1> QED BY <1>2, <1>3, SettleExec

\* An executor that gives up before or after its runs leaves nothing behind.
LEMMA LostSettles ==
    ASSUME BrokerInv, NEW b \in Batches,
           exec[b].pc \in {"probe", "absent", "reprobe", "measure"},
           Become(b, Lost(b, "failed")), UNCHANGED <<runtime, ledger, calls, trespass>>
    PROVE  BrokerInv'
<1> PICK e, e2 : e = exec[b] /\ e2 = Lost(b, "failed")
  OBVIOUS
<1>1. BatchInv(b, e, runtime, ledger[b], calls[b])
  BY OwnInv
<1>2. e.dirty \in BOOLEAN
  BY <1>1 DEF BatchInv, ExecType
<1>3. BatchInv(b, e2, runtime, ledger[b], calls[b])
  BY <1>1, <1>2, LostIs, LostKeeps DEF Ended
<1>4. exec' = [exec EXCEPT ![b] = e2]
  BY DEF Become
<1> QED BY <1>3, <1>4, SettleExec

\* A move of batch b to the next place.
LEMMA MoveSettles ==
    ASSUME BrokerInv, NEW b \in Batches, NEW e, e = exec[b], NEW pc,
           <<e.pc, pc>> \in Moves,
           pc = "reserve" =>
             \A k \in Lifecycle : runtime[ResourceOf(e, k)] = Owner(b, e),
           pc # "call",
           pc = "reprobe" => ~e.failed /\ e.clean,
           pc = "measure" => e.role = 2,
           NEW e2, Moved(e, e2, pc, 1),
           Become(b, e2), UNCHANGED <<runtime, ledger, calls, trespass>>
    PROVE  BrokerInv'
<1>1. BatchInv(b, e, runtime, ledger[b], calls[b])
  BY OwnInv
<1>2. BatchInv(b, e2, runtime, ledger[b], calls[b])
  BY <1>1, MoveKeeps
<1>3. exec' = [exec EXCEPT ![b] = e2]
  BY DEF Become
<1> QED BY <1>2, <1>3, SettleExec

\* Probe: the runtime is the one the review is bound to, or nothing is done.
LEMMA ProbeKeeps ==
    ASSUME BrokerInv, NEW b \in Batches, Probe(b)
    PROVE  BrokerInv'
<1>1. PICK host \in Hosts :
        Become(b, IF ProbeHolds(host, Binding)
                  THEN [exec[b] EXCEPT !.pre = host, !.pc = "preflight"]
                  ELSE Lost(b, "failed"))
  BY DEF Probe
<1>2. exec[b].pc = "probe" /\ UNCHANGED <<runtime, ledger, calls, trespass>>
  BY DEF Probe
<1>3. CASE ~ProbeHolds(host, Binding)
  BY <1>1, <1>2, <1>3, LostSettles
<1>4. CASE ProbeHolds(host, Binding)
  <2>1. PICK e, e2 : e = exec[b] /\ e2 = [e EXCEPT !.pre = host, !.pc = "preflight"]
    OBVIOUS
  <2>2. ExecShape(e) /\ e.at = 1
    BY <1>2, <2>1, OwnInv DEF BatchInv, Flags
  <2>3. Moved(e, e2, "preflight", 1)
    BY <2>1, <2>2, MovesAre
  <2>4. <<e.pc, "preflight">> \in Moves
    BY <1>2, <2>1 DEF Moves
  <2>5. Become(b, e2)
    BY <1>1, <1>4, <2>1
  <2> QED BY <1>2, <2>1, <2>3, <2>4, <2>5, MoveSettles
<1> QED BY <1>3, <1>4

\* Recording commands moves the executor on.
LEMMA RecordMoves ==
    ASSUME NEW b \in Batches, ExecShape(exec[b]), NEW argvs, NEW pc
    PROVE  Moved(exec[b], Record(b, argvs, pc), pc, 1)
<1> PICK e, e2 : e = exec[b] /\ e2 = Record(b, argvs, pc)
  OBVIOUS
<1> PICK run : run = [e.run EXCEPT ![Role(b)] =
                        [e.run[Role(b)] EXCEPT !.log = e.run[Role(b)].log \o argvs]]
  OBVIOUS
<1>1. e2 = [e EXCEPT !.run = run, !.pc = pc, !.at = 1]
  BY Zenon DEF Record
<1> QED BY <1>1, MovesAre

\* And so does keeping the inspections with them.
LEMMA RecordBeforeMoves ==
    ASSUME NEW b \in Batches, ExecShape(exec[b]), NEW argvs, NEW pc, NEW found
    PROVE  /\ Moved(exec[b], [Record(b, argvs, pc) EXCEPT !.run[Role(b)].before = found],
                    pc, 1)
           /\ Moved(exec[b], [Record(b, argvs, pc) EXCEPT !.run[Role(b)].after = found],
                    pc, 1)
<1> PICK e, e1 : e = exec[b] /\ e1 = Record(b, argvs, pc)
  OBVIOUS
<1>0. Moved(e, e1, pc, 1)
  BY RecordMoves
<1>1. \A run, e2 : e2 = [e1 EXCEPT !.run = run] => Moved(e, e2, pc, 1)
  <2>1. ASSUME NEW run, NEW e2, e2 = [e1 EXCEPT !.run = run]
        PROVE  Moved(e, e2, pc, 1)
    <3>1. e2 = [pc |-> e1.pc, packet |-> e1.packet, role |-> e1.role, at |-> e1.at,
                created |-> e1.created, attempted |-> e1.attempted,
                removed |-> e1.removed, failed |-> e1.failed, clean |-> e1.clean,
                dirty |-> e1.dirty, pre |-> e1.pre, run |-> run, final |-> e1.final]
      BY <1>0, <2>1 DEF Moved, ExecShape
    <3> QED BY <1>0, <3>1 DEF Moved, ExecShape
  <2> QED BY <2>1
<1>2. PICK before : before = [e1.run EXCEPT ![Role(b)] =
                                [e1.run[Role(b)] EXCEPT !.before = found]]
  OBVIOUS
<1>3. PICK after : after = [e1.run EXCEPT ![Role(b)] =
                              [e1.run[Role(b)] EXCEPT !.after = found]]
  OBVIOUS
<1>4. /\ [e1 EXCEPT !.run[Role(b)].before = found] = [e1 EXCEPT !.run = before]
      /\ [e1 EXCEPT !.run[Role(b)].after = found] = [e1 EXCEPT !.run = after]
  BY <1>2, <1>3, Zenon
<1> QED BY <1>1, <1>4

\* Preflight: nothing of the names may be there.
LEMMA PreflightKeeps ==
    ASSUME BrokerInv, NEW b \in Batches, Preflight(b)
    PROVE  BrokerInv'
<1>1. exec[b].pc = "preflight" /\ UNCHANGED <<runtime, ledger, calls, trespass>>
  BY DEF Preflight
<1>2. CASE Become(b, Raise(b))
  BY <1>1, <1>2, RaiseSettles DEF Using
<1>3. CASE Become(b, Record(b, AbsenceArgv, "create"))
  <2>1. PICK e, e2 : e = exec[b] /\ e2 = Record(b, AbsenceArgv, "create")
    OBVIOUS
  <2>2. Moved(e, e2, "create", 1)
    BY <2>1, OwnInv, RecordMoves
  <2>3. <<e.pc, "create">> \in Moves
    BY <1>1, <2>1 DEF Moves
  <2> QED BY <1>1, <1>3, <2>1, <2>2, <2>3, MoveSettles
<1> QED BY <1>2, <1>3 DEF Preflight

\* Connect: the gateway is attached to the internal network.
LEMMA ConnectKeeps ==
    ASSUME BrokerInv, NEW b \in Batches, Connect(b)
    PROVE  BrokerInv'
<1>1. exec[b].pc = "connect" /\ UNCHANGED <<runtime, ledger, calls, trespass>>
  BY DEF Connect
<1>2. CASE Become(b, Raise(b))
  BY <1>1, <1>2, RaiseSettles DEF Using
<1>3. CASE Become(b, Record(b, <<ConnectArgv>>, "inspect"))
  <2>1. PICK e, e2 : e = exec[b] /\ e2 = Record(b, <<ConnectArgv>>, "inspect")
    OBVIOUS
  <2>2. Moved(e, e2, "inspect", 1)
    BY <2>1, OwnInv, RecordMoves
  <2>3. <<e.pc, "inspect">> \in Moves
    BY <1>1, <2>1 DEF Moves
  <2> QED BY <1>1, <1>3, <2>1, <2>2, <2>3, MoveSettles
<1> QED BY <1>2, <1>3 DEF Connect

\* A boundary that holds is the session's own.
LEMMA BoundaryOwned ==
    ASSUME NEW b \in Batches
    PROVE  BoundaryHolds(b) <=>
             \A k \in Lifecycle : runtime[ResourceOf(exec[b], k)] = Owner(b, exec[b])
  BY Abbreviations DEF BoundaryHolds, InspectionHolds, Found

\* Inspect: only a session with its own boundary may reserve.
LEMMA InspectKeeps ==
    ASSUME BrokerInv, NEW b \in Batches, Inspect(b)
    PROVE  BrokerInv'
<1>1. exec[b].pc = "inspect" /\ UNCHANGED <<runtime, ledger, calls, trespass>>
  BY DEF Inspect
<1>2. CASE Become(b, Raise(b))
  BY <1>1, <1>2, RaiseSettles DEF Using
<1>3. ASSUME BoundaryHolds(b),
             Become(b, [Record(b, InspectArgvs, "reserve")
                          EXCEPT !.run[Role(b)].before = Found(b)])
      PROVE  BrokerInv'
  <2>1. PICK e, e2 : /\ e = exec[b]
                     /\ e2 = [Record(b, InspectArgvs, "reserve")
                                EXCEPT !.run[Role(b)].before = Found(b)]
    OBVIOUS
  <2>2. Moved(e, e2, "reserve", 1)
    BY <2>1, OwnInv, RecordBeforeMoves
  <2>3. <<e.pc, "reserve">> \in Moves
    BY <1>1, <2>1 DEF Moves
  <2>4. \A k \in Lifecycle : runtime[ResourceOf(e, k)] = Owner(b, e)
    BY <1>3, <2>1, BoundaryOwned
  <2>5. Become(b, e2)
    BY <1>3, <2>1
  <2> QED BY <1>1, <2>1, <2>2, <2>3, <2>4, <2>5, MoveSettles
<1> QED BY <1>2, <1>3 DEF Inspect

\* InspectAgain: the boundary is still what it was, or the run has failed.
LEMMA InspectAgainKeeps ==
    ASSUME BrokerInv, NEW b \in Batches, InspectAgain(b)
    PROVE  BrokerInv'
<1>1. exec[b].pc = "post" /\ UNCHANGED <<runtime, ledger, calls, trespass>>
  BY DEF InspectAgain
<1>2. CASE Become(b, Raise(b))
  BY <1>1, <1>2, RaiseSettles DEF Using
<1>3. ASSUME Become(b, [Record(b, InspectArgvs, "cleanup")
                          EXCEPT !.run[Role(b)].after = Found(b)])
      PROVE  BrokerInv'
  <2>1. PICK e, e2 : /\ e = exec[b]
                     /\ e2 = [Record(b, InspectArgvs, "cleanup")
                                EXCEPT !.run[Role(b)].after = Found(b)]
    OBVIOUS
  <2>2. Moved(e, e2, "cleanup", 1)
    BY <2>1, OwnInv, RecordBeforeMoves
  <2>3. <<e.pc, "cleanup">> \in Moves
    BY <1>1, <2>1 DEF Moves
  <2>5. Become(b, e2)
    BY <1>3, <2>1
  <2> QED BY <1>1, <2>1, <2>2, <2>3, <2>5, MoveSettles
<1> QED BY <1>2, <1>3 DEF InspectAgain

\* Absent: a cleanup that is not complete is a failure, and a failure ends
\* the batch.
LEMMA AbsentKeeps ==
    ASSUME BrokerInv, NEW b \in Batches, Absent(b)
    PROVE  BrokerInv'
<1>1. exec[b].pc = "absent" /\ UNCHANGED <<runtime, ledger, calls, trespass>>
  BY DEF Absent
<1>2. CASE Become(b, Lost(b, "failed"))
  BY <1>1, <1>2, LostSettles
<1>3. ASSUME ~exec[b].failed, exec[b].clean,
             Become(b, Record(b, AbsenceArgv, "reprobe"))
      PROVE  BrokerInv'
  <2>1. PICK e, e2 : e = exec[b] /\ e2 = Record(b, AbsenceArgv, "reprobe")
    OBVIOUS
  <2>2. Moved(e, e2, "reprobe", 1)
    BY <2>1, OwnInv, RecordMoves
  <2>3. <<e.pc, "reprobe">> \in Moves
    BY <1>1, <2>1 DEF Moves
  <2>4. ~e.failed /\ e.clean /\ Become(b, e2)
    BY <1>3, <2>1
  <2> QED BY <1>1, <2>1, <2>2, <2>3, <2>4, MoveSettles
<1> QED BY <1>2, <1>3 DEF Absent

\* Measure: the batch is done when its rows are sound.
LEMMA MeasureKeeps ==
    ASSUME BrokerInv, NEW b \in Batches, Measure(b)
    PROVE  BrokerInv'
<1>1. exec[b].pc = "measure" /\ UNCHANGED <<runtime, ledger, calls, trespass>>
  BY DEF Measure
<1>2. CASE Become(b, Lost(b, "failed"))
  BY <1>1, <1>2, LostSettles
<1>3. ASSUME Become(b, [exec[b] EXCEPT !.pc = "done", !.final = Rows(b)])
      PROVE  BrokerInv'
  <2>1. PICK e, e2 : e = exec[b] /\ e2 = [e EXCEPT !.pc = "done", !.final = Rows(b)]
    OBVIOUS
  <2>2. ExecShape(e) /\ e.at = 1
    BY <1>1, <2>1, OwnInv DEF BatchInv, Flags
  <2>3. Moved(e, e2, "done", 1)
    BY <2>1, <2>2, MovesAre
  <2>4. <<e.pc, "done">> \in Moves
    BY <1>1, <2>1 DEF Moves
  <2>5. Become(b, e2)
    BY <1>3, <2>1
  <2> QED BY <1>1, <2>1, <2>3, <2>4, <2>5, MoveSettles
<1> QED BY <1>2, <1>3 DEF Measure

\* What a batch's rows become when Reserve adds one.
RowsPlus(e, rows) == rows \cup {[packet |-> e.packet, role |-> Roles[e.role], attempt |-> 1]}

\* A reservation that the transaction lets through keeps the ledger's invariant:
\* one more row, for the packet and role at hand, within the limit.
LEMMA RowFits ==
    ASSUME BrokerInv, NEW b \in Batches, exec[b].pc = "reserve", MayReserve(b),
           NEW e, e = exec[b], NEW rows, rows = ledger[b]
    PROVE  /\ Rows(b) = rows
           /\ Row(b) = [packet |-> e.packet, role |-> Roles[e.role], attempt |-> 1]
           /\ WithRow(b) = [ledger EXCEPT ![b] = RowsPlus(e, rows)]
           /\ RowsPlus(e, rows) \in SUBSET LedgerRows
           /\ BatchInv(b, e, runtime, RowsPlus(e, rows), calls[b])
<1>1. PICK rt, made, row : rt = runtime /\ made = calls[b] /\ row = Row(b)
  OBVIOUS
<1>2. /\ BatchInv(b, e, rt, rows, made) /\ e.pc = "reserve"
      /\ rows \in SUBSET LedgerRows
  BY <1>1 DEF BrokerInv, BrokerType
<1>3. /\ row = [packet |-> e.packet, role |-> Roles[e.role], attempt |-> 1]
      /\ row \in LedgerRows
  <2>1. row = [packet |-> e.packet, role |-> Roles[e.role], attempt |-> 1]
    BY <1>1, Abbreviations DEF Row
  <2>2. e.packet \in Packets /\ Roles[e.role] \in RoleSet
    BY <1>2, RolesAre DEF BatchInv, ExecType
  <2> QED BY <2>1, <2>2 DEF LedgerRows
<1>4. Rows(b) = rows
  BY <1>1, <1>2 DEF Rows, BatchInv, LedgerInv
<1>5. Cardinality(rows) + 1 <= TokenLimit
  BY <1>4, Abbreviations DEF MayReserve
<1>6. PICK rows2 : rows2 = rows \cup {row}
  OBVIOUS
<1>7. IsFiniteSet(rows2) /\ Cardinality(rows2) <= TokenLimit
  <2>1. IsFiniteSet(rows)
    BY <1>2 DEF BatchInv, LedgerInv
  <2>2. /\ IsFiniteSet(rows2)
        /\ Cardinality(rows2) = Cardinality(rows) \/ Cardinality(rows2) = Cardinality(rows) + 1
    BY <1>6, <2>1, FS_AddElement
  <2>3. Cardinality(rows) \in Nat /\ TokenLimit \in Int
    BY <2>1, FS_CardinalityType, BatchAssumption DEF AbsoluteLimit
  <2> QED BY <1>5, <2>2, <2>3
<1>8. LedgerInv(e, rows2)
  BY <1>2, <1>3, <1>6, <1>7 DEF BatchInv, LedgerInv
<1>9. CallsInv(e, rows2, made)
  BY <1>2, <1>6 DEF BatchInv, CallsInv
<1>10. BatchInv(b, e, rt, rows2, made)
  BY <1>2, <1>8, <1>9 DEF BatchInv
<1>11. rows2 = RowsPlus(e, rows)
  BY <1>3, <1>6 DEF RowsPlus
<1>12. WithRow(b) = [ledger EXCEPT ![b] = RowsPlus(e, rows)]
  BY <1>1, <1>6, <1>11 DEF WithRow
<1>13. rows2 \in SUBSET LedgerRows
  BY <1>2, <1>3, <1>6
<1> QED BY <1>1, <1>3, <1>4, <1>10, <1>11, <1>12, <1>13

\* Reserve: the row is written and the call is next, or the executor gives up,
\* with the row or without it.
LEMMA ReserveKeeps ==
    ASSUME BrokerInv, NEW b \in Batches, Reserve(b)
    PROVE  BrokerInv'
<1>1. exec[b].pc = "reserve" /\ UNCHANGED <<runtime, calls, trespass>>
  BY DEF Reserve
<1>2. CASE Become(b, Raise(b)) /\ UNCHANGED ledger
  BY <1>1, <1>2, RaiseSettles DEF Using
<1>3. ASSUME NEW e2, MayReserve(b), ledger' = WithRow(b), Become(b, e2),
             BatchInv(b, e2, runtime, RowsPlus(exec[b], ledger[b]), calls[b])
      PROVE  BrokerInv'
  <2>1. PICK e, rt, rows, made, rows2 :
          /\ e = exec[b] /\ rt = runtime /\ rows = ledger[b] /\ made = calls[b]
          /\ rows2 = RowsPlus(e, rows)
    OBVIOUS
  <2>2. made \in Seq(CallRecords)
    BY <2>1 DEF BrokerInv, BrokerType
  <2>3. /\ WithRow(b) = [ledger EXCEPT ![b] = rows2]
        /\ rows2 \in SUBSET LedgerRows
    BY <1>1, <1>3, <2>1, RowFits
  <2>4. /\ exec' = [exec EXCEPT ![b] = e2] /\ runtime' = rt
        /\ ledger' = [ledger EXCEPT ![b] = rows2]
        /\ calls' = [calls EXCEPT ![b] = made]
        /\ Touches(b, exec[b], runtime, rt)
        /\ Attached(rt) /\ trespass' = {}
    <3>1. exec' = [exec EXCEPT ![b] = e2]
      BY <1>3, Zenon DEF Become
    <3>2. ledger' = [ledger EXCEPT ![b] = rows2]
      BY <1>3, <2>3
    <3>3. calls' = [calls EXCEPT ![b] = made]
      BY <1>1, <2>1 DEF BrokerInv, BrokerType
    <3> QED BY <1>1, <2>1, <3>1, <3>2, <3>3 DEF BrokerInv, Touches
  <2>5. BatchInv(b, e2, rt, rows2, made)
    BY <1>3, <2>1
  <2> QED BY <2>2, <2>3, <2>4, <2>5, Settle
<1>4. ASSUME MayReserve(b), ledger' = WithRow(b),
             Become(b, [exec[b] EXCEPT !.run[Role(b)].held = Rows(b) \cup {Row(b)},
                                        !.pc = "call"])
      PROVE  BrokerInv'
  <2>1. PICK e, e2, rt, rows, rows2, made, row :
          /\ e = exec[b] /\ rt = runtime /\ rows = ledger[b] /\ made = calls[b]
          /\ row = Row(b) /\ rows2 = RowsPlus(e, rows)
          /\ e2 = [e EXCEPT !.run[Role(b)].held = Rows(b) \cup {row}, !.pc = "call"]
    OBVIOUS
  <2>2. BatchInv(b, e, rt, rows2, made) /\ e.pc = "reserve"
    BY <1>1, <1>4, <2>1, RowFits
  <2>3. PICK run : run = [e.run EXCEPT ![Role(b)] =
                            [e.run[Role(b)] EXCEPT !.held = Rows(b) \cup {row}]]
    OBVIOUS
  <2>4. e2 = [e EXCEPT !.run = run, !.pc = "call"]
    BY <2>1, <2>3, Zenon
  <2>5. ExecShape(e) /\ e.at = 1
    BY <2>2 DEF BatchInv, ExecType, Flags
  <2>6. Moved(e, e2, "call", 1)
    BY <2>4, <2>5, MovesAre
  <2>7. <<e.pc, "call">> \in Moves
    BY <2>2 DEF Moves
  <2>8. [packet |-> e.packet, role |-> Roles[e.role], attempt |-> 1] \in rows2
    BY <2>1 DEF RowsPlus
  <2>9. BatchInv(b, e2, rt, rows2, made)
    BY <2>2, <2>6, <2>7, <2>8, MoveKeeps
  <2>10. Become(b, e2)
    BY <1>4, <2>1, Zenon
  <2> QED BY <1>3, <1>4, <2>1, <2>9, <2>10
<1>5. ASSUME MayReserve(b), ledger' = WithRow(b), Become(b, Raise(b))
      PROVE  BrokerInv'
  <2>1. PICK e, e2, rt, rows2, made :
          /\ e = exec[b] /\ e2 = Raise(b) /\ rt = runtime /\ made = calls[b]
          /\ rows2 = RowsPlus(e, ledger[b])
    OBVIOUS
  <2>2. BatchInv(b, e, rt, rows2, made) /\ e.pc = "reserve"
    BY <1>1, <1>5, <2>1, RowFits
  <2>3. Raised(e, e2)
    BY <2>1, OwnInv, RaiseIs
  <2>4. BatchInv(b, e2, rt, rows2, made)
    BY <2>2, <2>3, RaiseKeeps DEF Using
  <2>5. Become(b, e2)
    BY <1>5, <2>1, Zenon
  <2> QED BY <1>3, <1>5, <2>1, <2>4, <2>5
<1> QED BY <1>1, <1>2, <1>4, <1>5 DEF Reserve

\* Die: nothing is cleaned up, and that is remembered.
LEMMA DieKeeps ==
    ASSUME BrokerInv, NEW b \in Batches, Die(b)
    PROVE  BrokerInv'
<1>1. /\ exec[b].pc \notin Ended \cup {"idle"}
      /\ UNCHANGED <<runtime, ledger, calls, trespass>>
      /\ Become(b, [Lost(b, "crashed") EXCEPT !.dirty = TRUE])
  BY DEF Die
<1>2. PICK e, e1, e2 : /\ e = exec[b] /\ e1 = Lost(b, "crashed")
                       /\ e2 = [e1 EXCEPT !.dirty = TRUE]
  OBVIOUS
<1>3. Emptied(e, e1, "crashed", e.dirty)
  BY <1>2, LostIs
<1>4. e2 = [pc |-> e1.pc, packet |-> e1.packet, role |-> e1.role, at |-> e1.at,
            created |-> e1.created, attempted |-> e1.attempted,
            removed |-> e1.removed, failed |-> e1.failed, clean |-> e1.clean,
            dirty |-> TRUE, pre |-> e1.pre, run |-> e1.run, final |-> e1.final]
  BY <1>2, <1>3 DEF Emptied, ExecShape
<1>5. Emptied(e, e2, "crashed", TRUE)
  BY <1>3, <1>4 DEF Emptied, ExecShape
<1>7. BatchInv(b, e, runtime, ledger[b], calls[b]) /\ e.pc \notin {"idle"} \cup Ended
  BY <1>1, <1>2, OwnInv
<1>8. TRUE \in BOOLEAN
  OBVIOUS
<1>9. BatchInv(b, e2, runtime, ledger[b], calls[b])
  BY <1>5, <1>7, <1>8, LostKeeps
<1>10. exec' = [exec EXCEPT ![b] = e2]
  BY <1>1, <1>2, Zenon DEF Become
<1> QED BY <1>1, <1>9, <1>10, SettleExec

\* Begin: a batch is taken while nothing of it exists yet.
LEMMA BeginKeeps ==
    ASSUME BrokerInv, NEW b \in Batches, NEW batch, batch[3] \in Packets,
           Begin(b, batch)
    PROVE  BrokerInv'
<1>1. PICK e, rt, rows, made : /\ e = exec[b] /\ rt = runtime
                               /\ rows = ledger[b] /\ made = calls[b]
  OBVIOUS
<1>0. PICK pc, e2 :
        /\ pc = IF BatchParses(batch) THEN "probe" ELSE "failed"
        /\ e2 = [e EXCEPT !.pc = pc, !.packet = batch[3]]
  OBVIOUS
<1>2. pc \in {"probe", "failed"} /\ exec' = [exec EXCEPT ![b] = e2]
  BY <1>0, <1>1, Zenon DEF Begin, Become
<1>3. e.pc = "idle" /\ UNCHANGED <<runtime, ledger, calls, trespass>>
  BY <1>1 DEF Begin
<1>4. BatchInv(b, e, rt, rows, made)
  BY <1>1, OwnInv
<1>5. e2 = [pc |-> pc, packet |-> batch[3], role |-> e.role, at |-> e.at,
            created |-> e.created, attempted |-> e.attempted,
            removed |-> e.removed, failed |-> e.failed, clean |-> e.clean,
            dirty |-> e.dirty, pre |-> e.pre, run |-> e.run, final |-> e.final]
  BY <1>0, <1>4 DEF BatchInv, ExecType, ExecShape
<1>6. ExecType(e2)
  BY <1>2, <1>4, <1>5 DEF BatchInv, ExecType, ExecShape, StagePcs
<1>7. Flags(e2)
  BY <1>2, <1>3, <1>4, <1>5 DEF BatchInv, Flags, Closing, Before
<1>8. Holds(b, e2, rt)
  BY <1>2, <1>5 DEF Holds, AwaitsRemoval
<1>9. Owns(b, e2, rt)
  <2>1. ~e.dirty /\ e.created = {} /\ ~AwaitsRemoval(e)
    BY <1>3, <1>4 DEF BatchInv, AwaitsRemoval, Flags, Closing
  <2>2. \A n \in Names : ~(rt[n] # Free /\ rt[n][1] = b)
    <3>1. \A k : ~Held(e, k)
      BY <2>1 DEF Held
    <3>2. Owns(b, e, rt)
      BY <1>4 DEF BatchInv
    <3> QED BY <2>1, <3>1, <3>2, Zenon DEF Owns
  <2> QED BY <2>2, Zenon DEF Owns
<1>10. rows = {}
  BY <1>3, <1>4 DEF BatchInv, LedgerInv
<1>11. LedgerInv(e2, rows)
  BY <1>2, <1>4, <1>5, <1>10 DEF BatchInv, LedgerInv
<1>12. \A i \in DOMAIN made : FALSE
  BY <1>4, <1>10 DEF BatchInv, CallsInv
<1>13. e2.role = 1
  BY <1>3, <1>4, <1>5 DEF BatchInv, Flags
<1>14. CallsInv(e2, rows, made)
  BY <1>2, <1>5, <1>12, <1>13 DEF CallsInv, Called, Before, Closing, Ended
<1>15. BatchInv(b, e2, rt, rows, made)
  BY <1>6, <1>7, <1>8, <1>9, <1>11, <1>14 DEF BatchInv
<1> QED BY <1>1, <1>2, <1>3, <1>15, SettleExec


\* Reprobe: the other role runs, or both have and the rows are measured.
LEMMA ReprobeKeeps ==
    ASSUME BrokerInv, NEW b \in Batches, Reprobe(b)
    PROVE  BrokerInv'
<1>1. exec[b].pc = "reprobe" /\ UNCHANGED <<runtime, ledger, calls, trespass>>
  BY DEF Reprobe
<1>2. PICK e, e1 : /\ e = exec[b]
                   /\ e1 = IF e.role = 2 THEN [e EXCEPT !.pc = "measure"]
                           ELSE [e EXCEPT !.pc = "preflight", !.role = 2, !.created = {},
                                          !.attempted = FALSE, !.removed = FALSE]
  OBVIOUS
<1>3. PICK host \in Hosts :
        \/ Become(b, [e1 EXCEPT !.run[Role(b)].post = host])
        \/ Become(b, Lost(b, "failed"))
  BY <1>2, Zenon DEF Reprobe
<1>4. CASE Become(b, Lost(b, "failed"))
  BY <1>1, <1>4, LostSettles
<1>5. CASE Become(b, [e1 EXCEPT !.run[Role(b)].post = host])
  <2>1. PICK e2, run : /\ e2 = [e1 EXCEPT !.run[Role(b)].post = host]
                       /\ run = [e1.run EXCEPT ![Role(b)] =
                                   [e1.run[Role(b)] EXCEPT !.post = host]]
    OBVIOUS
  <2>2. e2 = [e1 EXCEPT !.run = run]
    BY <2>1, Zenon
  <2>3. exec' = [exec EXCEPT ![b] = e2]
    BY <1>5, <2>1, Zenon DEF Become
  <2>4. PICK rt, rows, made : rt = runtime /\ rows = ledger[b] /\ made = calls[b]
    OBVIOUS
  <2>5. BatchInv(b, e, rt, rows, made) /\ ExecShape(e) /\ e.pc = "reprobe"
    BY <1>1, <1>2, <2>4, OwnInv
  <2>6. e.at = 1 /\ e.role \in {1, 2}
    BY <2>5 DEF BatchInv, Flags, ExecType
  <2>7. CASE e.role = 2
    <3>1. e1 = [e EXCEPT !.pc = "measure"]
      BY <1>2, <2>7
    <3>2. e2 = [pc |-> "measure", packet |-> e.packet, role |-> e.role, at |-> e.at,
                created |-> e.created, attempted |-> e.attempted,
                removed |-> e.removed, failed |-> e.failed, clean |-> e.clean,
                dirty |-> e.dirty, pre |-> e.pre, run |-> run, final |-> e.final]
      BY <2>2, <2>5, <3>1 DEF ExecShape
    <3>3. Moved(e, e2, "measure", 1)
      BY <2>6, <3>2 DEF Moved, ExecShape
    <3>4. <<e.pc, "measure">> \in Moves
      BY <2>5 DEF Moves
    <3>5. Become(b, e2)
      BY <1>5, <2>1
    <3> QED BY <1>1, <1>2, <2>7, <3>3, <3>4, <3>5, MoveSettles
  <2>8. CASE e.role # 2
    <3>1. e1 = [e EXCEPT !.pc = "preflight", !.role = 2, !.created = {},
                         !.attempted = FALSE, !.removed = FALSE]
      BY <1>2, <2>8
    <3>2. PICK e3 : e3 = [e EXCEPT !.pc = "preflight", !.role = 2, !.created = {}]
      OBVIOUS
    <3>3. e3 = [pc |-> "preflight", packet |-> e.packet, role |-> 2, at |-> e.at,
                created |-> {}, attempted |-> e.attempted,
                removed |-> e.removed, failed |-> e.failed, clean |-> e.clean,
                dirty |-> e.dirty, pre |-> e.pre, run |-> e.run, final |-> e.final]
      BY <2>5, <3>2 DEF ExecShape
    <3>4. e1 = [e3 EXCEPT !.attempted = FALSE, !.removed = FALSE]
      BY <3>1, <3>2, Zenon
    <3>5. e2 = [pc |-> "preflight", packet |-> e.packet, role |-> 2, at |-> e.at,
                created |-> {}, attempted |-> FALSE,
                removed |-> FALSE, failed |-> e.failed, clean |-> e.clean,
                dirty |-> e.dirty, pre |-> e.pre, run |-> run, final |-> e.final]
      BY <2>2, <3>3, <3>4
    <3>6. ExecType(e2)
      BY <2>5, <3>5 DEF BatchInv, ExecType, ExecShape, StagePcs
    <3>7. Flags(e2)
      BY <2>5, <3>5 DEF BatchInv, Flags, Closing, Before
    <3>8. Holds(b, e2, rt)
      BY <3>5 DEF Holds, AwaitsRemoval
    <3>9. ~e.dirty /\ \A k : ~Held(e, k)
      BY <2>5 DEF BatchInv, Flags, Closing, Held, AwaitsRemoval, Using
    <3>10. Owns(b, e2, rt)
      <4>1. Owns(b, e, rt)
        BY <2>5 DEF BatchInv
      <4> QED BY <3>9, <4>1, Zenon DEF Owns
    <3>11. LedgerInv(e2, rows)
      BY <2>5, <3>5 DEF BatchInv, LedgerInv
    <3>12. CallsInv(e2, rows, made)
      <4>1. CallsInv(e, rows, made)
        BY <2>5 DEF BatchInv
      <4>2. Called(made, "reviewer") /\ ~Called(made, "adversary")
        BY <2>5, <2>6, <2>8, <4>1, RolesAre DEF CallsInv
      <4>3. e2.role = 2 /\ e2.pc = "preflight" /\ e2.packet = e.packet
        BY <3>5
      <4> QED BY <4>1, <4>2, <4>3, RolesAre DEF CallsInv, Closing
    <3>13. BatchInv(b, e2, rt, rows, made)
      BY <3>6, <3>7, <3>8, <3>10, <3>11, <3>12 DEF BatchInv
    <3> QED BY <1>1, <2>3, <2>4, <3>13, SettleExec
  <2> QED BY <2>7, <2>8
<1> QED BY <1>3, <1>4, <1>5

-----------------------------------------------------------------------------
(* The steps that change the runtime *)

\* What changes of the record of a run while its role stays at hand.
SameRun(e, e2) ==
    ExecShape(e2) /\ e2.packet = e.packet /\ e2.role = e.role

\* e2 is e with the flag of a resource set.
Flagged(e, e2, kind) ==
    /\ SameRun(e, e2) /\ e2.pc = e.pc /\ e2.at = e.at
    /\ e2.created = e.created \cup {kind}
    /\ e2.attempted = e.attempted /\ e2.removed = e.removed
    /\ e2.failed = e.failed /\ e2.clean = e.clean /\ e2.dirty = e.dirty

\* A resource whose flag is set, whether it was made or not, is one the run
\* removes: created_internal and the others are set before the command.
LEMMA FlaggedKeeps ==
    ASSUME NEW b \in Batches, NEW e, NEW rt, NEW rows, NEW made,
           RuntimeType(rt), BatchInv(b, e, rt, rows, made), e.pc = "create",
           NEW kind \in Lifecycle, NEW e2, Flagged(e, e2, kind),
           NEW rt2, rt2 \in {rt, [rt EXCEPT ![ResourceOf(e, kind)] = Owner(b, e)]}
    PROVE  BatchInv(b, e2, rt2, rows, made)
<1> USE DEF Flagged, SameRun
<1>1. ExecType(e2)
  BY DEF BatchInv, ExecType
<1>2. Flags(e2)
  BY DEF BatchInv, Flags, Closing, Before
<1>3. Holds(b, e2, rt2)
  BY DEF Holds, AwaitsRemoval
<1>4. ResourceOf(e, kind) \in Names
  BY NamesOfRun DEF BatchInv, ExecType
<1>5. Owns(b, e2, rt2)
  <2>1. ASSUME NEW n \in Names, rt2[n] # Free, rt2[n][1] = b
        PROVE  /\ n[1] = e2.packet /\ n[2] = rt2[n][2]
               /\ n[2] = Roles[e2.role] /\ Held(e2, n[3])
    <3>1. CASE n = ResourceOf(e, kind) /\ rt2[n] = Owner(b, e)
      BY <3>1 DEF ResourceOf, Owner, Held, Using
    <3>2. CASE rt2[n] = rt[n]
      <4>1. /\ n[1] = e.packet /\ n[2] = rt[n][2]
            /\ e.dirty \/ (n[2] = Roles[e.role] /\ Held(e, n[3]))
        BY <2>1, <3>2 DEF BatchInv, Owns
      <4>2. ~e.dirty
        BY DEF BatchInv, Flags, Closing
      <4>3. Held(e2, n[3])
        BY <4>1, <4>2 DEF Held, Using, AwaitsRemoval
      <4> QED BY <3>2, <4>1, <4>2, <4>3
    <3>3. rt2[n] = rt[n] \/ (n = ResourceOf(e, kind) /\ rt2[n] = Owner(b, e))
      BY <1>4 DEF RuntimeType
    <3> QED BY <3>1, <3>2, <3>3
  <2> QED BY <2>1, Zenon DEF Owns
<1>6. LedgerInv(e2, rows)
  BY DEF BatchInv, LedgerInv
<1>7. CallsInv(e2, rows, made)
  BY DEF BatchInv, CallsInv, Closing, Before
<1> QED BY <1>1, <1>2, <1>3, <1>5, <1>6, <1>7 DEF BatchInv

\* The next create command, or the connection of the gateway.
LEMMA CreatedKeeps ==
    ASSUME NEW b \in Batches, NEW e, NEW rt, NEW rows, NEW made,
           BatchInv(b, e, rt, rows, made), e.pc = "create", NEW pc, NEW at,
           (pc = "create" /\ at \in {1, 2, 3}) \/ (pc = "connect" /\ at = 1),
           NEW e2, Moved(e, e2, pc, at)
    PROVE  BatchInv(b, e2, rt, rows, made)
<1> USE DEF Moved
<1>1. ExecType(e2)
  BY DEF BatchInv, ExecType, StagePcs
<1>2. Flags(e2)
  BY DEF BatchInv, Flags, Closing, Before
<1>3. Holds(b, e2, rt)
  BY DEF Holds, AwaitsRemoval
<1>4. \A k : Held(e, k) => Held(e2, k)
  BY DEF Held, Using, AwaitsRemoval
<1>5. Owns(b, e2, rt)
  BY <1>4 DEF BatchInv, Owns
<1>6. LedgerInv(e2, rows)
  BY DEF BatchInv, LedgerInv
<1>7. CallsInv(e2, rows, made)
  BY DEF BatchInv, CallsInv, Closing, Before, Ended
<1> QED BY <1>1, <1>2, <1>3, <1>5, <1>6, <1>7 DEF BatchInv

\* An owner on a name that was free leaves the attachments as they are.
LEMMA AttachedKept ==
    ASSUME NEW rt, RuntimeType(rt), Attached(rt), NEW p \in Packets, NEW r \in RoleSet,
           NEW kind \in Lifecycle, NEW v, NEW rt2,
           rt2 = [rt EXCEPT ![<<p, r, kind>>] = v],
           kind = "internal" => rt[<<p, r, "broker">>] = Free
    PROVE  Attached(rt2)
<1> SUFFICES ASSUME NEW q \in Packets, NEW s \in RoleSet,
                    rt2[<<q, s, "broker">>] # Free
             PROVE  rt2[<<q, s, "internal">>] = rt2[<<q, s, "broker">>]
  BY DEF Attached
<1>1. "broker" # kind /\ "internal" \in Lifecycle
  BY TargetsAre
<1>2. /\ <<q, s, "broker">> \in DOMAIN rt /\ <<q, s, "internal">> \in DOMAIN rt
      /\ <<q, s, "broker">> # <<p, r, kind>>
  BY <1>1 DEF RuntimeType, Names
<1>3. rt2[<<q, s, "broker">>] = rt[<<q, s, "broker">>]
  BY <1>2
<1>4. rt[<<q, s, "internal">>] = rt[<<q, s, "broker">>]
  BY <1>3 DEF Attached
<1>5. <<q, s, "internal">> # <<p, r, kind>>
  BY <1>3
<1>6. rt2[<<q, s, "internal">>] = rt[<<q, s, "internal">>]
  BY <1>2, <1>5
<1> QED BY <1>3, <1>4, <1>6

\* Create: a resource is made under a name that was free, or the run fails.
LEMMA CreateKeeps ==
    ASSUME BrokerInv, NEW b \in Batches, Create(b)
    PROVE  BrokerInv'
<1>1. PICK e, rt, rows, made, rt2 :
        /\ e = exec[b] /\ rt = runtime /\ rows = ledger[b] /\ made = calls[b]
        /\ rt2 = runtime'
  OBVIOUS
<1>2. /\ BatchInv(b, e, rt, rows, made) /\ RuntimeType(rt) /\ Attached(rt)
      /\ ExecShape(e) /\ e.pc = "create"
      /\ UNCHANGED <<ledger, calls, trespass>>
  BY <1>1, OwnInv DEF Create
<1>3. PICK kind, name, owner : /\ kind = CreateOrder[e.at]
                               /\ name = ResourceOf(e, kind) /\ owner = Owner(b, e)
  OBVIOUS
<1>4. /\ kind \in Lifecycle /\ e.packet \in Packets /\ Roles[e.role] \in RoleSet
      /\ name \in Names /\ name = <<e.packet, Roles[e.role], kind>>
      /\ e.at \in {1, 2, 3}
  <2>1. e.at \in {1, 2, 3} /\ e.packet \in Packets /\ e.role \in {1, 2}
    BY <1>2 DEF BatchInv, ExecType
  <2>2. kind \in Lifecycle
    BY <1>3, <2>1, TargetsAre
  <2> QED BY <1>2, <1>3, <2>1, <2>2, RolesAre, NamesOfRun DEF BatchInv, ResourceOf
<1>5. Name(b, kind) = name /\ Session(b) = owner
  BY <1>1, <1>3, Abbreviations
<1>6. ASSUME rt2 = rt \/ (rt[name] = Free /\ rt2 = [rt EXCEPT ![name] = owner])
      PROVE  /\ Touches(b, e, rt, rt2) /\ Attached(rt2)
             /\ rt2 \in {rt, [rt EXCEPT ![ResourceOf(e, kind)] = Owner(b, e)]}
  <2>1. Touches(b, e, rt, rt2)
    BY <1>3, <1>4, <1>6 DEF Touches
  <2>2. CASE rt2 = rt
    BY <1>2, <2>1, <2>2
  <2>3. CASE rt[name] = Free /\ rt2 = [rt EXCEPT ![name] = owner]
    <3>1. kind = "internal" => rt[<<e.packet, Roles[e.role], "broker">>] = Free
      BY <1>2, <1>4, <2>3 DEF Attached
    <3>2. Attached(rt2)
      BY <1>2, <1>4, <2>3, <3>1, AttachedKept
    <3> QED BY <1>3, <2>1, <2>3, <3>2
  <2> QED BY <1>6, <2>2, <2>3
<1>7. ASSUME Become(b, [Raise(b) EXCEPT !.created = FlagBefore(b, kind)]),
             rt2 = rt \/ (rt[name] = Free /\ rt2 = [rt EXCEPT ![name] = owner])
      PROVE  BrokerInv'
  <2>1. PICK e1, e2, e3 : /\ e1 = Raise(b)
                          /\ e2 = [e1 EXCEPT !.created = e.created \cup {kind}]
                          /\ e3 = [e EXCEPT !.created = e.created \cup {kind}]
    OBVIOUS
  <2>2. Raised(e, e1)
    BY <1>1, <1>2, <2>1, RaiseIs
  <2>3. e3 = [pc |-> e.pc, packet |-> e.packet, role |-> e.role, at |-> e.at,
              created |-> e.created \cup {kind}, attempted |-> e.attempted,
              removed |-> e.removed, failed |-> e.failed, clean |-> e.clean,
              dirty |-> e.dirty, pre |-> e.pre, run |-> e.run, final |-> e.final]
    BY <1>2, <2>1 DEF ExecShape
  <2>4. Flagged(e, e3, kind)
    BY <2>3 DEF Flagged, SameRun, ExecShape
  <2>5. e2 = [pc |-> e1.pc, packet |-> e1.packet, role |-> e1.role, at |-> e1.at,
              created |-> e.created \cup {kind}, attempted |-> e1.attempted,
              removed |-> e1.removed, failed |-> e1.failed, clean |-> e1.clean,
              dirty |-> e1.dirty, pre |-> e1.pre, run |-> e1.run, final |-> e1.final]
    BY <2>1, <2>2 DEF Raised, ExecShape
  <2>6. Raised(e3, e2)
    BY <2>2, <2>3, <2>5 DEF Raised, ExecShape
  <2>7. BatchInv(b, e3, rt2, rows, made)
    BY <1>2, <1>4, <1>6, <1>7, <2>4, FlaggedKeeps
  <2>8. e3.pc = "create"
    BY <1>2, <2>3
  <2>9. BatchInv(b, e2, rt2, rows, made)
    BY <2>6, <2>7, <2>8, RaiseKeeps DEF Using
  <2>10. exec' = [exec EXCEPT ![b] = e2]
    BY <1>1, <1>7, <2>1, Zenon DEF Become, FlagBefore
  <2> QED BY <1>1, <1>2, <1>6, <1>7, <2>9, <2>10, SettleRuntime
<1>8. ASSUME rt[name] = Free, rt2 = [rt EXCEPT ![name] = owner],
             Become(b, [exec[b] EXCEPT !.created = @ \cup {kind},
                            !.run[Role(b)].log = Append(@, CreateArgv(kind)),
                            !.pc = IF exec[b].at = 3 THEN "connect" ELSE "create",
                            !.at = IF exec[b].at = 3 THEN 1 ELSE @ + 1])
      PROVE  BrokerInv'
  <2>1. PICK pc, at, run, created :
          /\ pc = IF e.at = 3 THEN "connect" ELSE "create"
          /\ at = IF e.at = 3 THEN 1 ELSE e.at + 1
          /\ run = [e.run EXCEPT ![Role(b)] = [e.run[Role(b)] EXCEPT
                                !.log = Append(e.run[Role(b)].log, CreateArgv(kind))]]
          /\ created = e.created \cup {kind}
    OBVIOUS
  <2>2. PICK e2, e3 : /\ e3 = [e EXCEPT !.created = created]
                      /\ e2 = [e3 EXCEPT !.run = run, !.pc = pc, !.at = at]
    OBVIOUS
  <2>3. e3 = [pc |-> e.pc, packet |-> e.packet, role |-> e.role, at |-> e.at,
              created |-> created, attempted |-> e.attempted,
              removed |-> e.removed, failed |-> e.failed, clean |-> e.clean,
              dirty |-> e.dirty, pre |-> e.pre, run |-> e.run, final |-> e.final]
    BY <1>2, <2>2 DEF ExecShape
  <2>4. Flagged(e, e3, kind) /\ ExecShape(e3) /\ e3.pc = "create"
    BY <1>2, <2>1, <2>3 DEF Flagged, SameRun, ExecShape
  <2>5. BatchInv(b, e3, rt2, rows, made)
    BY <1>2, <1>4, <1>6, <1>8, <2>4, FlaggedKeeps
  <2>6. Moved(e3, e2, pc, at)
    BY <2>2, <2>4, MovesAre
  <2>7. (pc = "create" /\ at \in {1, 2, 3}) \/ (pc = "connect" /\ at = 1)
    BY <1>4, <2>1
  <2>8. BatchInv(b, e2, rt2, rows, made)
    BY <2>4, <2>5, <2>6, <2>7, CreatedKeeps
  <2>9. exec' = [exec EXCEPT ![b] = e2]
    <3>1. PICK e4 : e4 = [e EXCEPT !.created = created, !.run = run, !.pc = pc, !.at = at]
      OBVIOUS
    <3>2. e4 = e2
      BY <2>2, <3>1, Zenon
    <3>3. e4 = [exec[b] EXCEPT !.created = @ \cup {kind},
                            !.run[Role(b)].log = Append(@, CreateArgv(kind)),
                            !.pc = IF exec[b].at = 3 THEN "connect" ELSE "create",
                            !.at = IF exec[b].at = 3 THEN 1 ELSE @ + 1]
      BY <1>1, <2>1, <3>1, Zenon
    <3> QED BY <1>8, <3>2, <3>3, Zenon DEF Become
  <2> QED BY <1>1, <1>2, <1>6, <1>8, <2>8, <2>9, SettleRuntime
<1> QED BY <1>1, <1>3, <1>5, <1>7, <1>8 DEF Create

\* A broker container is free or the session's own while the session has its
\* internal network.
LEMMA BrokerOwned ==
    ASSUME NEW b \in Batches, NEW e, NEW rt, Attached(rt), ExecType(e),
           e.packet \in Packets, rt[ResourceOf(e, "internal")] = Owner(b, e)
    PROVE  rt[ResourceOf(e, "broker")] \in {Free, Owner(b, e)}
<1>1. e.packet \in Packets /\ Roles[e.role] \in RoleSet
  BY RolesAre DEF ExecType
<1> QED BY <1>1 DEF Attached, ResourceOf

\* e2 is e after the broker container was started: the call is paid for, and
\* the container is to be removed.
CalledFrom(e, e2) ==
    /\ SameRun(e, e2) /\ e2.at = 1 /\ e2.created = e.created
    /\ e2.attempted = TRUE /\ e2.removed = FALSE /\ e2.clean = TRUE /\ e2.dirty = FALSE
    /\ \/ e2.pc = "remove" /\ e2.failed = FALSE
       \/ e2.pc = "cleanup" /\ e2.failed = TRUE

\* The record of a call behind the session's own gateway, and the runtime with
\* its container.
CallRecord(e) == [packet |-> e.packet, role |-> Roles[e.role], walled |-> TRUE]
WithBroker(b, e, rt) == [rt EXCEPT ![ResourceOf(e, "broker")] = Owner(b, e)]

\* A call adds one record, of a role that had none, for a row that is there.
LEMMA CalledKeeps ==
    ASSUME NEW b \in Batches, NEW e, NEW rt, NEW rows, NEW made,
           RuntimeType(rt), made \in Seq(CallRecords),
           BatchInv(b, e, rt, rows, made), e.pc = "call",
           NEW e2, CalledFrom(e, e2), NEW rt2,
           rt2 = WithBroker(b, e, rt),
           NEW made2, made2 = Append(made, CallRecord(e))
    PROVE  BatchInv(b, e2, rt2, rows, made2) /\ made2 \in Seq(CallRecords)
<1> USE DEF CalledFrom, SameRun, CallRecord, WithBroker
<1>1. ExecType(e2)
  BY DEF BatchInv, ExecType, StagePcs
<1>2. Flags(e2)
  BY DEF BatchInv, Flags, Closing, Before
<1>3. /\ ResourceOf(e, "broker") \in Names /\ ResourceOf(e, "internal") \in Names
      /\ ResourceOf(e, "broker") # ResourceOf(e, "internal")
  BY TargetsAre, NamesOfRun DEF BatchInv, ExecType, ResourceOf
<1>4. Holds(b, e2, rt2)
  <2>1. rt[ResourceOf(e, "internal")] = Owner(b, e)
    BY TargetsAre DEF BatchInv, Holds
  <2>2. rt2[ResourceOf(e, "internal")] = Owner(b, e)
    BY <1>3, <2>1 DEF RuntimeType
  <2>3. ResourceOf(e2, "internal") = ResourceOf(e, "internal") /\ Owner(b, e2) = Owner(b, e)
    BY DEF ResourceOf, Owner
  <2> QED BY <2>2, <2>3 DEF Holds
<1>5. AwaitsRemoval(e2)
  BY DEF AwaitsRemoval
<1>6. Owns(b, e2, rt2)
  <2>1. ASSUME NEW n \in Names, rt2[n] # Free, rt2[n][1] = b
        PROVE  /\ n[1] = e2.packet /\ n[2] = rt2[n][2]
               /\ n[2] = Roles[e2.role] /\ Held(e2, n[3])
    <3>1. CASE n = ResourceOf(e, "broker") /\ rt2[n] = Owner(b, e)
      <4>1. n[1] = e.packet /\ n[2] = Roles[e.role] /\ n[3] = "broker"
        BY <3>1 DEF ResourceOf
      <4>2. rt2[n][2] = Roles[e.role]
        BY <3>1 DEF Owner
      <4>3. Held(e2, n[3])
        BY <1>5, <4>1, Zenon DEF Held
      <4> QED BY <4>1, <4>2, <4>3
    <3>2. CASE rt2[n] = rt[n]
      <4>1. /\ n[1] = e.packet /\ n[2] = rt[n][2]
            /\ e.dirty \/ (n[2] = Roles[e.role] /\ Held(e, n[3]))
        BY <2>1, <3>2 DEF BatchInv, Owns
      <4>2. ~e.dirty /\ ~AwaitsRemoval(e)
        BY DEF BatchInv, Flags, Closing, AwaitsRemoval
      <4>3. n[3] \in e.created
        BY <4>1, <4>2 DEF Held
      <4>4. n[3] \in Lifecycle
        BY <4>3 DEF BatchInv, ExecType
      <4>5. Held(e2, n[3])
        BY <4>3, <4>4, TargetsAre DEF Held, Using
      <4> QED BY <3>2, <4>1, <4>2, <4>5
    <3>3. rt2[n] = rt[n] \/ (n = ResourceOf(e, "broker") /\ rt2[n] = Owner(b, e))
      BY <1>3 DEF RuntimeType
    <3> QED BY <3>1, <3>2, <3>3
  <2> QED BY <2>1, Zenon DEF Owns
<1>7. LedgerInv(e2, rows)
  BY DEF BatchInv, LedgerInv
<1>8. PICK call : call = [packet |-> e.packet, role |-> Roles[e.role], walled |-> TRUE]
  OBVIOUS
<1>9. call \in CallRecords
  BY <1>8, RolesAre DEF BatchInv, ExecType, CallRecords
<1>10. made2 \in Seq(CallRecords)
  BY <1>8, <1>9
<1>11. /\ DOMAIN made2 = 1..(Len(made) + 1) /\ DOMAIN made = 1..Len(made)
       /\ Len(made) \in Nat
       /\ \A i \in 1..Len(made) : made2[i] = made[i]
       /\ made2[Len(made) + 1] = call
  BY <1>8, <1>9
<1>12. \A r : Called(made2, r) <=> Called(made, r) \/ r = Roles[e.role]
  <2>1. ASSUME NEW r, Called(made2, r)
        PROVE  Called(made, r) \/ r = Roles[e.role]
    BY <1>8, <1>11, <2>1 DEF Called
  <2>2. ASSUME NEW r, Called(made, r) \/ r = Roles[e.role]
        PROVE  Called(made2, r)
    BY <1>8, <1>11, <2>2 DEF Called
  <2> QED BY <2>1, <2>2
<1>13. CallsInv(e, rows, made) /\ ~Called(made, Roles[e.role])
  BY DEF BatchInv, CallsInv, Before
<1>14. \A i \in DOMAIN made2 :
         /\ made2[i].walled /\ made2[i].packet = e.packet
         /\ \E row \in rows :
              row.packet = made2[i].packet /\ row.role = made2[i].role
         /\ \A j \in DOMAIN made2 \ {i} : made2[i].role # made2[j].role
  <2>1. \E row \in rows : row.packet = call.packet /\ row.role = call.role
    BY <1>8 DEF BatchInv, LedgerInv
  <2>2. \A i \in 1..Len(made) : made[i].role # call.role
    BY <1>8, <1>11, <1>13 DEF Called
  <2>3. ASSUME NEW i \in 1..Len(made)
        PROVE  /\ made[i].walled /\ made[i].packet = e.packet
               /\ \E row \in rows : row.packet = made[i].packet /\ row.role = made[i].role
               /\ \A j \in 1..Len(made) \ {i} : made[i].role # made[j].role
    BY <1>11, <1>13 DEF CallsInv
  <2>4. ASSUME NEW i \in DOMAIN made2, i # Len(made) + 1
        PROVE  /\ made2[i].walled /\ made2[i].packet = e.packet
               /\ \E row \in rows :
                    row.packet = made2[i].packet /\ row.role = made2[i].role
               /\ \A j \in DOMAIN made2 \ {i} : made2[i].role # made2[j].role
    <3>1. i \in 1..Len(made) /\ made2[i] = made[i]
      BY <1>11, <2>4
    <3>2. ASSUME NEW j \in DOMAIN made2 \ {i}
          PROVE  made2[i].role # made2[j].role
      <4>1. CASE j = Len(made) + 1
        BY <1>11, <2>2, <3>1, <4>1
      <4>2. CASE j # Len(made) + 1
        BY <1>11, <2>3, <3>1, <3>2, <4>2
      <4> QED BY <4>1, <4>2
    <3> QED BY <2>3, <3>1, <3>2
  <2>5. ASSUME NEW i \in DOMAIN made2, i = Len(made) + 1
        PROVE  /\ made2[i].walled /\ made2[i].packet = e.packet
               /\ \E row \in rows :
                    row.packet = made2[i].packet /\ row.role = made2[i].role
               /\ \A j \in DOMAIN made2 \ {i} : made2[i].role # made2[j].role
    <3>1. made2[i] = call
      BY <1>11, <2>5
    <3>2. \A j \in DOMAIN made2 \ {i} : made2[j] = made[j] /\ j \in 1..Len(made)
      BY <1>11, <2>5
    <3>3. call.walled /\ call.packet = e.packet
      BY <1>8
    <3> QED BY <2>1, <2>2, <3>1, <3>2, <3>3
  <2> QED BY <2>4, <2>5
<1>15. CallsInv(e2, rows, made2)
  <2>1. e2.role \in {1, 2}
    BY DEF BatchInv, ExecType
  <2>2. Called(made2, "adversary") => e2.role = 2
    BY <1>12, <1>13, <2>1, RolesAre DEF CallsInv
  <2>3. e2.role = 2 => Called(made2, "reviewer")
    BY <1>12, <1>13 DEF CallsInv, Ended
  <2>4. Called(made2, Roles[e2.role])
    BY <1>12
  <2> QED BY <1>14, <2>2, <2>3, <2>4 DEF CallsInv, Before
<1> QED BY <1>1, <1>2, <1>4, <1>6, <1>7, <1>10, <1>15 DEF BatchInv

\* Call: the model is called once for the role, behind the session's gateway;
\* the container's name is free, since nothing but this session has the
\* network it would be attached to.
LEMMA CallKeeps ==
    ASSUME BrokerInv, NEW b \in Batches, Call(b)
    PROVE  BrokerInv'
<1>1. PICK e, rt, rows, made, rt2, made2 :
        /\ e = exec[b] /\ rt = runtime /\ rows = ledger[b] /\ made = calls[b]
        /\ rt2 = runtime' /\ made2 = Append(made, Started(b))
  OBVIOUS
<1>2. /\ BatchInv(b, e, rt, rows, made) /\ RuntimeType(rt) /\ Attached(rt)
      /\ ExecShape(e) /\ e.pc = "call" /\ ExecType(e) /\ e.packet \in Packets
      /\ UNCHANGED <<ledger, trespass>>
      /\ made \in Seq(CallRecords) /\ rows \in SUBSET LedgerRows
  BY <1>1, OwnInv DEF Call, BatchInv, ExecType, BrokerInv, BrokerType
<1>3. PICK name, owner : name = ResourceOf(e, "broker") /\ owner = Owner(b, e)
  OBVIOUS
<1>4. Name(b, "broker") = name /\ Session(b) = owner
  BY <1>1, <1>3, Abbreviations
<1>5. \A k \in Lifecycle : rt[ResourceOf(e, k)] = owner
  BY <1>2, <1>3 DEF BatchInv, Holds
<1>6. name \in Names
  BY <1>2, <1>3, NamesOfRun
<1>7. rt[name] = Free
  <2>1. rt[name] \in {Free, owner}
    BY <1>2, <1>3, <1>5, BrokerOwned, TargetsAre
  <2>2. ASSUME rt[name] = owner
        PROVE  FALSE
    <3>1. rt[name] # Free /\ rt[name][1] = b /\ name[3] = "broker"
      BY <1>3, <2>2, SessionNotFree DEF Owner, ResourceOf
    <3>2. e.dirty \/ Held(e, "broker")
      BY <1>2, <1>6, <3>1 DEF BatchInv, Owns
    <3>3. "broker" \notin e.created
      BY <1>2, TargetsAre DEF ExecType
    <3>4. ~e.dirty
      BY <1>2 DEF BatchInv, Flags, Closing
    <3> QED BY <1>2, <3>2, <3>3, <3>4 DEF Held, AwaitsRemoval
  <2> QED BY <2>1, <2>2
<1>8. /\ rt2 = [rt EXCEPT ![name] = owner]
      /\ calls' = [calls EXCEPT ![b] = made2]
      /\ \/ Become(b, [Raise(b) EXCEPT !.attempted = TRUE])
         \/ \E a, slow : Become(b, [exec[b] EXCEPT !.pc = "remove", !.attempted = TRUE,
                           !.run[Role(b)].answer = a, !.run[Role(b)].slow = slow])
  BY <1>1, <1>4, <1>7, Zenon DEF Call
<1>9. made2 = Append(made, CallRecord(e))
  <2>1. BoundaryHolds(b) = TRUE
    BY <1>1, <1>3, <1>5, BoundaryOwned DEF BoundaryHolds, InspectionHolds
  <2> QED BY <1>1, <2>1, Abbreviations DEF Started, CallRecord
<1>10. e.at = 1 /\ e.removed = FALSE /\ e.failed = FALSE /\ e.clean = TRUE /\ e.dirty = FALSE
  BY <1>2 DEF BatchInv, Flags, ExecType, Before, Closing
<1>11. /\ Touches(b, e, rt, rt2) /\ Attached(rt2)
  <2>1. Touches(b, e, rt, rt2)
    BY <1>3, <1>6, <1>7, <1>8 DEF Touches
  <2>2. ASSUME NEW p \in Packets, NEW r \in RoleSet, rt2[<<p, r, "broker">>] # Free
        PROVE  rt2[<<p, r, "internal">>] = rt2[<<p, r, "broker">>]
    <3>1. "broker" # "internal" /\ "internal" \in Lifecycle
      BY TargetsAre
    <3>2. <<p, r, "broker">> \in DOMAIN rt /\ <<p, r, "internal">> \in DOMAIN rt
      BY <1>2, <3>1 DEF RuntimeType, Names
    <3>3. name = <<e.packet, Roles[e.role], "broker">>
      BY <1>3 DEF ResourceOf
    <3>4. rt2[<<p, r, "internal">>] = rt[<<p, r, "internal">>]
      BY <1>8, <3>1, <3>2, <3>3
    <3>5. CASE <<p, r, "broker">> = name
      <4>1. <<p, r, "internal">> = ResourceOf(e, "internal")
        BY <3>3, <3>5 DEF ResourceOf
      <4> QED BY <1>5, <1>8, <3>1, <3>2, <3>4, <3>5, <4>1
    <3>6. CASE <<p, r, "broker">> # name
      BY <1>2, <1>8, <2>2, <3>2, <3>4, <3>6 DEF Attached
    <3> QED BY <3>5, <3>6
  <2> QED BY <2>1, <2>2 DEF Attached
<1>12. ASSUME NEW e2, CalledFrom(e, e2), exec' = [exec EXCEPT ![b] = e2]
       PROVE  BrokerInv'
  <2>1. BatchInv(b, e2, rt2, rows, made2) /\ made2 \in Seq(CallRecords)
    <3>1. rt2 = WithBroker(b, e, rt)
      BY <1>3, <1>8 DEF WithBroker
    <3>2. CalledFrom(e, e2) /\ RuntimeType(rt) /\ made \in Seq(CallRecords)
          /\ BatchInv(b, e, rt, rows, made) /\ e.pc = "call"
      BY <1>2, <1>12
    <3> QED BY <1>9, <3>1, <3>2, CalledKeeps
  <2>2. ledger' = [ledger EXCEPT ![b] = rows] /\ trespass' = {}
    BY <1>1, <1>2 DEF BrokerInv, BrokerType
  <2> QED BY <1>1, <1>2, <1>8, <1>11, <1>12, <2>1, <2>2, Settle
<1>13. CASE Become(b, [Raise(b) EXCEPT !.attempted = TRUE])
  <2>1. PICK e1, e2 : e1 = Raise(b) /\ e2 = [e1 EXCEPT !.attempted = TRUE]
    OBVIOUS
  <2>2. Raised(e, e1)
    BY <1>1, <1>2, <2>1, RaiseIs
  <2>3. e2 = [pc |-> e1.pc, packet |-> e1.packet, role |-> e1.role, at |-> e1.at,
              created |-> e1.created, attempted |-> TRUE,
              removed |-> e1.removed, failed |-> e1.failed, clean |-> e1.clean,
              dirty |-> e1.dirty, pre |-> e1.pre, run |-> e1.run, final |-> e1.final]
    BY <2>1, <2>2 DEF Raised, ExecShape
  <2>4. CalledFrom(e, e2)
    BY <1>10, <2>2, <2>3 DEF CalledFrom, SameRun, Raised, ExecShape
  <2>5. exec' = [exec EXCEPT ![b] = e2]
    BY <1>1, <1>13, <2>1, Zenon DEF Become
  <2> QED BY <1>12, <2>4, <2>5
<1>14. ASSUME NEW a, NEW slow,
              Become(b, [exec[b] EXCEPT !.pc = "remove", !.attempted = TRUE,
                           !.run[Role(b)].answer = a, !.run[Role(b)].slow = slow])
       PROVE  BrokerInv'
  <2>1. PICK e2 : e2 = [e EXCEPT !.pc = "remove", !.attempted = TRUE,
                           !.run[Role(b)].answer = a, !.run[Role(b)].slow = slow]
    OBVIOUS
  <2>2. PICK e1 : e1 = [e EXCEPT !.pc = "remove", !.attempted = TRUE]
    OBVIOUS
  <2>3. PICK run1 : run1 = [e1.run EXCEPT ![Role(b)] =
                              [e1.run[Role(b)] EXCEPT !.answer = a]]
    OBVIOUS
  <2>4. PICK e3 : e3 = [e1 EXCEPT !.run = run1]
    OBVIOUS
  <2>5. PICK run2 : run2 = [e3.run EXCEPT ![Role(b)] =
                              [e3.run[Role(b)] EXCEPT !.slow = slow]]
    OBVIOUS
  <2>6. e2 = [e3 EXCEPT !.run = run2]
    BY <2>1, <2>2, <2>3, <2>4, <2>5, Zenon
  <2>7. e1 = [pc |-> "remove", packet |-> e.packet, role |-> e.role, at |-> e.at,
              created |-> e.created, attempted |-> TRUE,
              removed |-> e.removed, failed |-> e.failed, clean |-> e.clean,
              dirty |-> e.dirty, pre |-> e.pre, run |-> e.run, final |-> e.final]
    BY <1>2, <2>2 DEF ExecShape
  <2>8. e2 = [pc |-> "remove", packet |-> e.packet, role |-> e.role, at |-> e.at,
              created |-> e.created, attempted |-> TRUE,
              removed |-> e.removed, failed |-> e.failed, clean |-> e.clean,
              dirty |-> e.dirty, pre |-> e.pre, run |-> run2, final |-> e.final]
    BY <2>4, <2>6, <2>7
  <2>9. CalledFrom(e, e2)
    BY <1>10, <2>8 DEF CalledFrom, SameRun, ExecShape
  <2>10. exec' = [exec EXCEPT ![b] = e2]
    BY <1>1, <1>14, <2>1, Zenon DEF Become
  <2> QED BY <1>12, <2>9, <2>10
<1> QED BY <1>8, <1>13, <1>14

\* e2 is e after an attempt to remove the broker container: gone, or tried and
\* to be reported, or to be tried once more by the cleanup.
Removal(b, e, e2, rt, rt2) ==
    /\ SameRun(e, e2) /\ e2.at = 1 /\ e2.created = e.created
    /\ e2.pc \in {"post", "cleanup"} /\ e2.attempted = TRUE
    /\ e2.removed \in BOOLEAN /\ e2.failed \in BOOLEAN
    /\ e2.clean \in BOOLEAN /\ e2.dirty \in BOOLEAN
    /\ e2.pc = "post" =>
         e.pc = "remove" /\ e2.removed /\ ~e2.failed /\ e2.clean /\ ~e2.dirty
    /\ e2.removed => e2.dirty \/ rt2[ResourceOf(e, "broker")] = Free
    /\ e2.dirty => e2.failed \/ ~e2.clean
    /\ e.dirty => e2.dirty
    /\ ~e2.failed => ~e.failed

\* The runtime without the broker container.
NoBroker(e, rt) == [rt EXCEPT ![ResourceOf(e, "broker")] = Free]

\* Removing the container, by name and whoever's it is, takes the session's
\* own and is never forgotten.
LEMMA RemovalKeeps ==
    ASSUME NEW b \in Batches, NEW e, NEW rt, NEW rows, NEW made,
           RuntimeType(rt), BatchInv(b, e, rt, rows, made), AwaitsRemoval(e),
           NEW rt2, rt2 \in {rt, NoBroker(e, rt)},
           NEW e2, Removal(b, e, e2, rt, rt2)
    PROVE  BatchInv(b, e2, rt2, rows, made)
<1> USE DEF Removal, SameRun, NoBroker
<1>0. e.pc \in {"remove", "cleanup"} /\ e.at = 1 /\ ExecType(e)
  BY DEF AwaitsRemoval, BatchInv, Flags
<1>1. ExecType(e2)
  BY <1>0 DEF ExecType, StagePcs
<1>2. Flags(e2)
  BY DEF Flags, Closing, Before
<1>3. /\ ResourceOf(e, "broker") \in Names /\ ResourceOf(e, "internal") \in Names
      /\ ResourceOf(e, "broker") # ResourceOf(e, "internal")
  BY <1>0, TargetsAre, NamesOfRun DEF ExecType, ResourceOf
<1>4. \A n \in Names : rt2[n] = rt[n] \/ (n = ResourceOf(e, "broker") /\ rt2[n] = Free)
  BY <1>3 DEF RuntimeType
<1>5. Holds(b, e2, rt2)
  <2>1. rt[ResourceOf(e, "internal")] = Owner(b, e)
    BY DEF BatchInv, Holds
  <2>2. rt2[ResourceOf(e, "internal")] = Owner(b, e)
    BY <1>3, <1>4, <2>1
  <2>3. ResourceOf(e2, "internal") = ResourceOf(e, "internal") /\ Owner(b, e2) = Owner(b, e)
    BY DEF ResourceOf, Owner
  <2> QED BY <2>2, <2>3 DEF Holds
<1>6. Owns(b, e2, rt2)
  <2>1. ASSUME NEW n \in Names, rt2[n] # Free, rt2[n][1] = b
        PROVE  /\ n[1] = e2.packet /\ n[2] = rt2[n][2]
               /\ e2.dirty \/ (n[2] = Roles[e2.role] /\ Held(e2, n[3]))
    <3>1. rt2[n] = rt[n]
      BY <1>4, <2>1
    <3>2. /\ n[1] = e.packet /\ n[2] = rt[n][2]
          /\ e.dirty \/ (n[2] = Roles[e.role] /\ Held(e, n[3]))
      BY <2>1, <3>1 DEF BatchInv, Owns
    <3>3. ASSUME n[2] = Roles[e.role], Held(e, n[3]), ~e2.dirty
          PROVE  Held(e2, n[3])
      <4>1. CASE n[3] \in e.created
        <5>1. n[3] \in Lifecycle
          BY <1>0, <4>1 DEF ExecType
        <5> QED BY <4>1, <5>1, TargetsAre DEF Held, Using
      <4>2. CASE n[3] = "broker"
        <5>1. n = ResourceOf(e, "broker")
          BY <3>2, <3>3, <4>2 DEF Names, ResourceOf
        <5>2. ~e2.removed
          BY <2>1, <3>3, <5>1
        <5>3. AwaitsRemoval(e2)
          BY <5>2 DEF AwaitsRemoval
        <5> QED BY <4>2, <5>3 DEF Held
      <4> QED BY <3>3, <4>1, <4>2 DEF Held
    <3> QED BY <3>1, <3>2, <3>3
  <2> QED BY <2>1, Zenon DEF Owns
<1>7. LedgerInv(e2, rows)
  BY <1>0 DEF BatchInv, LedgerInv
<1>8. CallsInv(e2, rows, made)
  <2>1. CallsInv(e, rows, made)
    BY DEF BatchInv
  <2>2. e2.pc = "post" \/ ~e2.failed => Called(made, Roles[e.role])
    BY <1>0, <2>1 DEF CallsInv, Closing
  <2>3. e2.role = 2 => Called(made, "reviewer")
    BY <1>0, <2>1 DEF CallsInv, Ended
  <2> QED BY <2>1, <2>2, <2>3 DEF CallsInv, Before
<1> QED BY <1>1, <1>2, <1>5, <1>6, <1>7, <1>8 DEF BatchInv

\* RemoveBroker: whatever becomes of the command, the name is the session's.
LEMMA RemovalSettles ==
    ASSUME BrokerInv, NEW b \in Batches, AwaitsRemoval(exec[b]),
           NEW e2, exec' = [exec EXCEPT ![b] = e2],
           runtime' \in {runtime, NoBroker(exec[b], runtime)},
           Removal(b, exec[b], e2, runtime, runtime'),
           trespass' \in {trespass,
             IF runtime[ResourceOf(exec[b], "broker")] \in {Free, Owner(b, exec[b])}
             THEN trespass ELSE trespass \cup {ResourceOf(exec[b], "broker")}},
           UNCHANGED <<ledger, calls>>
    PROVE  BrokerInv'
<1>1. PICK e, rt, rows, made, rt2 :
        /\ e = exec[b] /\ rt = runtime /\ rows = ledger[b] /\ made = calls[b]
        /\ rt2 = runtime'
  OBVIOUS
<1>2. /\ BatchInv(b, e, rt, rows, made) /\ RuntimeType(rt) /\ Attached(rt)
      /\ AwaitsRemoval(e) /\ ExecType(e)
  BY <1>1, OwnInv DEF BatchInv
<1>3. e.packet \in Packets
  BY <1>2 DEF AwaitsRemoval, ExecType
<1>4. PICK name, owner : name = ResourceOf(e, "broker") /\ owner = Owner(b, e)
  OBVIOUS
<1>5. name \in Names
  BY <1>2, <1>3, <1>4, NamesOfRun
<1>6. rt[name] \in {Free, owner}
  <2>1. rt[ResourceOf(e, "internal")] = Owner(b, e)
    BY <1>2 DEF BatchInv, Holds
  <2> QED BY <1>2, <1>3, <1>4, <2>1, BrokerOwned
<1>7. trespass' = trespass
  BY <1>1, <1>4, <1>6
<1>8. rt2 = rt \/ rt2 = [rt EXCEPT ![name] = Free]
  BY <1>1, <1>4 DEF NoBroker
<1>9. Touches(b, e, rt, rt2)
  BY <1>4, <1>5, <1>6, <1>8 DEF Touches
<1>10. Attached(rt2)
  <2>1. ASSUME NEW p \in Packets, NEW r \in RoleSet, rt2[<<p, r, "broker">>] # Free
        PROVE  rt2[<<p, r, "internal">>] = rt2[<<p, r, "broker">>]
    <3>1. "broker" # "internal" /\ "internal" \in Lifecycle
      BY TargetsAre
    <3>2. <<p, r, "broker">> \in DOMAIN rt /\ <<p, r, "internal">> \in DOMAIN rt
      BY <1>2, <3>1 DEF RuntimeType, Names
    <3>3. name = <<e.packet, Roles[e.role], "broker">>
      BY <1>4 DEF ResourceOf
    <3>4. rt2[<<p, r, "internal">>] = rt[<<p, r, "internal">>]
      BY <1>8, <3>1, <3>2, <3>3
    <3>5. rt2[<<p, r, "broker">>] = rt[<<p, r, "broker">>]
      BY <1>8, <2>1, <3>2
    <3> QED BY <1>2, <2>1, <3>4, <3>5 DEF Attached
  <2> QED BY <2>1 DEF Attached
<1>11. BatchInv(b, e2, rt2, rows, made)
  <2>1. rt2 \in {rt, NoBroker(e, rt)} /\ Removal(b, e, e2, rt, rt2)
    BY <1>1
  <2> QED BY <1>2, <2>1, RemovalKeeps
<1> QED BY <1>1, <1>7, <1>9, <1>10, <1>11, <1>2, SettleRuntime

\* Remove: after the call its container goes, or the run has failed.
LEMMA RemoveKeeps ==
    ASSUME BrokerInv, NEW b \in Batches, Remove(b)
    PROVE  BrokerInv'
<1>1. PICK e, e1, next : /\ e = exec[b] /\ e1 = Raise(b)
                         /\ next = IF e.run[Role(b)].answer = "error" THEN e1
                                   ELSE Record(b, BrokerArgvs, "post")
  OBVIOUS
<1>2. /\ e.pc = "remove" /\ ExecShape(e) /\ ExecType(e) /\ Flags(e)
      /\ UNCHANGED <<ledger, calls>>
  BY <1>1, OwnInv DEF Remove, RemoveBroker, BatchInv
<1>3. AwaitsRemoval(e)
  BY <1>2 DEF AwaitsRemoval
<1>4. /\ e.attempted = TRUE /\ e.removed = FALSE /\ e.failed = FALSE
      /\ e.clean = TRUE /\ e.dirty = FALSE /\ e.at = 1
  BY <1>2 DEF Flags, ExecType, Closing
<1>5. Raised(e, e1)
  BY <1>1, <1>2, RaiseIs
<1>6. Moved(e, next, "post", 1) \/ Raised(e, next)
  BY <1>1, <1>2, <1>5, RecordMoves
<1>7. PICK name : name = ResourceOf(e, "broker")
  OBVIOUS
<1>8. /\ Name(b, "broker") = name /\ Session(b) = Owner(b, e)
      /\ [runtime EXCEPT ![name] = Free] = NoBroker(e, runtime)
  BY <1>1, <1>7, Abbreviations DEF NoBroker
<1>9. \/ /\ runtime' = NoBroker(e, runtime)
         /\ trespass' = IF runtime[name] \in {Free, Owner(b, e)} THEN trespass
                        ELSE trespass \cup {name}
         /\ Become(b, [next EXCEPT !.removed = TRUE])
      \/ /\ Become(b, [e1 EXCEPT !.removed = TRUE, !.dirty = TRUE])
         /\ UNCHANGED <<runtime, trespass>>
      \/ /\ Become(b, e1)
         /\ runtime' \in {runtime, NoBroker(e, runtime)} /\ UNCHANGED trespass
  BY <1>1, <1>8, Zenon DEF Remove, RemoveBroker
<1>10. runtime' \in {runtime, NoBroker(e, runtime)}
  BY <1>9
<1>11. trespass' \in {trespass, IF runtime[name] \in {Free, Owner(b, e)} THEN trespass
                                ELSE trespass \cup {name}}
  BY <1>9
<1>12. runtime' = NoBroker(e, runtime) => runtime'[name] = Free
  <2>1. name \in Names /\ DOMAIN runtime = Names
    BY <1>2, <1>7, NamesOfRun, OwnInv DEF ExecType, RuntimeType
  <2> QED BY <1>7, <2>1 DEF NoBroker
<1>13. ASSUME NEW e2, exec' = [exec EXCEPT ![b] = e2], Removal(b, e, e2, runtime, runtime')
       PROVE  BrokerInv'
  BY <1>1, <1>2, <1>3, <1>7, <1>10, <1>11, <1>13, RemovalSettles
<1>14. CASE /\ runtime' = NoBroker(e, runtime)
            /\ Become(b, [next EXCEPT !.removed = TRUE])
  <2>1. PICK e2 : e2 = [next EXCEPT !.removed = TRUE]
    OBVIOUS
  <2>2. ExecShape(next)
    BY <1>6 DEF Moved, Raised
  <2>3. e2 = [pc |-> next.pc, packet |-> next.packet, role |-> next.role, at |-> next.at,
              created |-> next.created, attempted |-> next.attempted,
              removed |-> TRUE, failed |-> next.failed, clean |-> next.clean,
              dirty |-> next.dirty, pre |-> next.pre, run |-> next.run,
              final |-> next.final]
    BY <2>1, <2>2 DEF ExecShape
  <2>4. Removal(b, e, e2, runtime, runtime')
    BY <1>2, <1>4, <1>6, <1>7, <1>12, <1>14, <2>3
       DEF Removal, SameRun, Moved, Raised, ExecShape
  <2>5. exec' = [exec EXCEPT ![b] = e2]
    BY <1>14, <2>1, Zenon DEF Become
  <2> QED BY <1>13, <2>4, <2>5
<1>15. CASE Become(b, [e1 EXCEPT !.removed = TRUE, !.dirty = TRUE])
  <2>1. PICK e2 : e2 = [e1 EXCEPT !.removed = TRUE, !.dirty = TRUE]
    OBVIOUS
  <2>2. e2 = [pc |-> e1.pc, packet |-> e1.packet, role |-> e1.role, at |-> e1.at,
              created |-> e1.created, attempted |-> e1.attempted,
              removed |-> TRUE, failed |-> e1.failed, clean |-> e1.clean,
              dirty |-> TRUE, pre |-> e1.pre, run |-> e1.run, final |-> e1.final]
    BY <1>5, <2>1 DEF Raised, ExecShape
  <2>3. Removal(b, e, e2, runtime, runtime')
    BY <1>2, <1>4, <1>5, <2>2 DEF Removal, SameRun, Raised, ExecShape
  <2>4. exec' = [exec EXCEPT ![b] = e2]
    BY <1>15, <2>1, Zenon DEF Become
  <2> QED BY <1>13, <2>3, <2>4
<1>16. CASE Become(b, e1)
  <2>1. Removal(b, e, e1, runtime, runtime')
    BY <1>2, <1>4, <1>5 DEF Removal, SameRun, Raised
  <2>2. exec' = [exec EXCEPT ![b] = e1]
    BY <1>16 DEF Become
  <2> QED BY <1>13, <2>1, <2>2
<1> QED BY <1>9, <1>14, <1>15, <1>16

\* CleanupCall: the finally block removes a container the run did not.
LEMMA CleanupCallKeeps ==
    ASSUME BrokerInv, NEW b \in Batches, CleanupCall(b)
    PROVE  BrokerInv'
<1>1. PICK e, e1 : e = exec[b] /\ e1 = [e EXCEPT !.clean = FALSE]
  OBVIOUS
<1>2. /\ e.pc = "cleanup" /\ e.at = 1 /\ e.attempted /\ ~e.removed
      /\ ExecShape(e) /\ ExecType(e) /\ Flags(e)
      /\ UNCHANGED <<ledger, calls>>
  BY <1>1, OwnInv DEF CleanupCall, RemoveBroker, BatchInv
<1>3. AwaitsRemoval(e)
  BY <1>2 DEF AwaitsRemoval
<1>4. /\ e.attempted = TRUE /\ e.removed = FALSE /\ e.failed \in BOOLEAN
      /\ e.clean \in BOOLEAN /\ e.dirty \in BOOLEAN
      /\ e.dirty => e.failed \/ ~e.clean
  BY <1>2 DEF Flags, ExecType, Closing
<1>5. e1 = [pc |-> e.pc, packet |-> e.packet, role |-> e.role, at |-> e.at,
            created |-> e.created, attempted |-> e.attempted,
            removed |-> e.removed, failed |-> e.failed, clean |-> FALSE,
            dirty |-> e.dirty, pre |-> e.pre, run |-> e.run, final |-> e.final]
  BY <1>1, <1>2 DEF ExecShape
<1>6. PICK e2 : e2 = [e1 EXCEPT !.removed = TRUE, !.dirty = TRUE]
  OBVIOUS
<1>7. e2 = [pc |-> e.pc, packet |-> e.packet, role |-> e.role, at |-> e.at,
            created |-> e.created, attempted |-> e.attempted,
            removed |-> TRUE, failed |-> e.failed, clean |-> FALSE,
            dirty |-> TRUE, pre |-> e.pre, run |-> e.run, final |-> e.final]
  BY <1>5, <1>6
<1>8. PICK e3 : e3 = [e EXCEPT !.removed = TRUE]
  OBVIOUS
<1>9. e3 = [pc |-> e.pc, packet |-> e.packet, role |-> e.role, at |-> e.at,
            created |-> e.created, attempted |-> e.attempted,
            removed |-> TRUE, failed |-> e.failed, clean |-> e.clean,
            dirty |-> e.dirty, pre |-> e.pre, run |-> e.run, final |-> e.final]
  BY <1>2, <1>8 DEF ExecShape
<1>10. PICK name : name = ResourceOf(e, "broker")
  OBVIOUS
<1>11. /\ Name(b, "broker") = name /\ Session(b) = Owner(b, e)
       /\ [runtime EXCEPT ![name] = Free] = NoBroker(e, runtime)
  BY <1>1, <1>10, Abbreviations DEF NoBroker
<1>12. \/ /\ runtime' = NoBroker(e, runtime)
          /\ trespass' = IF runtime[name] \in {Free, Owner(b, e)} THEN trespass
                         ELSE trespass \cup {name}
          /\ Become(b, e3)
       \/ /\ Become(b, e2) /\ runtime' \in {runtime, NoBroker(e, runtime)}
          /\ UNCHANGED trespass
  <2>1. RemoveBroker(b, e, e1, e2)
    BY <1>1, <1>6, Zenon DEF CleanupCall
  <2>2. \/ /\ runtime' = NoBroker(e, runtime)
           /\ trespass' = IF runtime[name] \in {Free, Owner(b, e)} THEN trespass
                          ELSE trespass \cup {name}
           /\ Become(b, [e EXCEPT !.removed = TRUE])
        \/ /\ Become(b, [e1 EXCEPT !.removed = TRUE, !.dirty = TRUE])
           /\ UNCHANGED <<runtime, trespass>>
        \/ /\ Become(b, e2)
           /\ runtime' \in {runtime, NoBroker(e, runtime)} /\ UNCHANGED trespass
    BY <1>11, <2>1, Zenon DEF RemoveBroker
  <2> QED BY <1>6, <1>8, <2>2
<1>13. runtime' = NoBroker(e, runtime) => runtime'[name] = Free
  <2>1. name \in Names /\ DOMAIN runtime = Names
    BY <1>2, <1>10, NamesOfRun, OwnInv DEF ExecType, RuntimeType
  <2> QED BY <1>10, <2>1 DEF NoBroker
<1>14. ASSUME NEW e4, Become(b, e4), Removal(b, e, e4, runtime, runtime')
       PROVE  BrokerInv'
  <2>1. exec' = [exec EXCEPT ![b] = e4]
    BY <1>14 DEF Become
  <2>2. runtime' \in {runtime, NoBroker(e, runtime)}
    BY <1>12
  <2>3. trespass' \in {trespass, IF runtime[name] \in {Free, Owner(b, e)} THEN trespass
                                 ELSE trespass \cup {name}}
    BY <1>12
  <2> QED BY <1>1, <1>2, <1>3, <1>10, <1>14, <2>1, <2>2, <2>3, RemovalSettles
<1>15. CASE runtime' = NoBroker(e, runtime) /\ Become(b, e3)
  <2>1. Removal(b, e, e3, runtime, runtime')
    <3>1. runtime'[ResourceOf(e, "broker")] = Free
      BY <1>10, <1>13, <1>15
    <3>2. /\ SameRun(e, e3) /\ e3.at = 1 /\ e3.created = e.created
          /\ e3.pc = "cleanup" /\ e3.attempted = TRUE /\ e3.removed = TRUE
          /\ e3.failed = e.failed /\ e3.clean = e.clean /\ e3.dirty = e.dirty
      BY <1>2, <1>4, <1>9 DEF SameRun, ExecShape
    <3> QED BY <1>4, <3>1, <3>2 DEF Removal
  <2> QED BY <1>14, <1>15, <2>1
<1>16. CASE Become(b, e2)
  <2>1. Removal(b, e, e2, runtime, runtime')
    BY <1>2, <1>4, <1>7 DEF Removal, SameRun, ExecShape
  <2> QED BY <1>14, <1>16, <2>1
<1> QED BY <1>12, <1>15, <1>16

\* e2 is e after the target it was at, removed (ok) or not.
NextFrom(e, e2, ok) ==
    /\ SameRun(e, e2) /\ e2.created = e.created
    /\ e2.attempted = e.attempted /\ e2.removed = e.removed
    /\ e2.failed = e.failed
    /\ ok => e2.clean = e.clean /\ e2.dirty = e.dirty
    /\ ~ok => e2.clean = FALSE /\ e2.dirty = TRUE
    /\ e.at = 3 => e2.pc = "absent" /\ e2.at = 1
    /\ e.at # 3 => e2.pc = "cleanup" /\ e2.at = e.at + 1

\* NextTarget goes on, whatever became of the target.
LEMMA NextIs ==
    ASSUME NEW b \in Batches, ExecType(exec[b]), NEW ok \in BOOLEAN
    PROVE  NextFrom(exec[b], NextTarget(b, ok), ok)
<1> PICK e, clean, dirty, pc, at :
        /\ e = exec[b] /\ clean = (e.clean /\ ok) /\ dirty = (e.dirty \/ ~ok)
        /\ pc = IF e.at = 3 THEN "absent" ELSE "cleanup"
        /\ at = IF e.at = 3 THEN 1 ELSE e.at + 1
  OBVIOUS
<1>1. PICK e1, e2 : /\ e1 = [e EXCEPT !.clean = clean, !.dirty = dirty]
                    /\ e2 = [e1 EXCEPT !.pc = pc, !.at = at]
  OBVIOUS
<1>2. PICK e4 : e4 = [e EXCEPT !.clean = clean, !.dirty = dirty, !.pc = pc, !.at = at]
  OBVIOUS
<1>3. e4 = e2
  BY <1>1, <1>2, Zenon
<1>4. NextTarget(b, ok) = e4
  BY <1>2, Zenon DEF NextTarget
<1>5. e1 = [pc |-> e.pc, packet |-> e.packet, role |-> e.role, at |-> e.at,
            created |-> e.created, attempted |-> e.attempted,
            removed |-> e.removed, failed |-> e.failed, clean |-> clean,
            dirty |-> dirty, pre |-> e.pre, run |-> e.run, final |-> e.final]
  <2>1. ExecShape(e)
    BY DEF ExecType
  <2>2. e1 = [e EXCEPT !.clean = clean, !.dirty = dirty]
    BY <1>1
  <2> QED BY <2>1, <2>2 DEF ExecShape
<1>6. e2 = [pc |-> pc, packet |-> e.packet, role |-> e.role, at |-> at,
            created |-> e.created, attempted |-> e.attempted,
            removed |-> e.removed, failed |-> e.failed, clean |-> clean,
            dirty |-> dirty, pre |-> e.pre, run |-> e.run, final |-> e.final]
  <2>1. e2 = [e1 EXCEPT !.pc = pc, !.at = at]
    BY <1>1
  <2> QED BY <1>5, <2>1
<1>7. /\ ok => clean = e.clean /\ dirty = e.dirty
      /\ ~ok => clean = FALSE /\ dirty = TRUE
      /\ e.at = 3 => pc = "absent" /\ at = 1
      /\ e.at # 3 => pc = "cleanup" /\ at = e.at + 1
  BY DEF ExecType
<1>8. NextFrom(e, e2, ok)
  BY <1>6, <1>7 DEF NextFrom, SameRun, ExecShape
<1> QED BY <1>3, <1>4, <1>8

\* And whatever else is recorded of the run.
LEMMA NextRecords ==
    ASSUME NEW e, NEW e1, NEW ok, NextFrom(e, e1, ok), NEW run,
           NEW e2, e2 = [e1 EXCEPT !.run = run]
    PROVE  NextFrom(e, e2, ok)
<1>1. e2 = [pc |-> e1.pc, packet |-> e1.packet, role |-> e1.role, at |-> e1.at,
            created |-> e1.created, attempted |-> e1.attempted,
            removed |-> e1.removed, failed |-> e1.failed, clean |-> e1.clean,
            dirty |-> e1.dirty, pre |-> e1.pre, run |-> run, final |-> e1.final]
  BY DEF NextFrom, SameRun, ExecShape
<1> QED BY <1>1 DEF NextFrom, SameRun, ExecShape

\* The runtime without a resource of the run.
Without(e, kind, rt) == [rt EXCEPT ![ResourceOf(e, kind)] = Free]

\* A target of the cleanup: what is not removed is remembered.
LEMMA TargetKeeps ==
    ASSUME NEW b \in Batches, NEW e, NEW rt, NEW rows, NEW made,
           RuntimeType(rt), BatchInv(b, e, rt, rows, made), e.pc = "cleanup",
           e.attempted => e.removed, e.packet \in Packets,
           NEW kind, kind = CleanupOrder[e.at],
           NEW rt2, rt2 \in {rt, Without(e, kind, rt)}, NEW ok \in BOOLEAN,
           ok => kind \notin e.created \/ rt2 = Without(e, kind, rt),
           NEW e2, NextFrom(e, e2, ok)
    PROVE  BatchInv(b, e2, rt2, rows, made)
<1> USE DEF NextFrom, SameRun
<1>0. /\ ExecType(e) /\ Flags(e) /\ e.at \in {1, 2, 3} /\ kind \in Lifecycle
      /\ e.clean \in BOOLEAN /\ e.dirty \in BOOLEAN
  BY TargetsAre DEF BatchInv, ExecType
<1>1. ExecType(e2)
  <2>1. e2.pc \in {"absent", "cleanup"} /\ e2.at \in {1, 2, 3}
    BY <1>0
  <2>2. e2.clean \in BOOLEAN /\ e2.dirty \in BOOLEAN
    BY <1>0
  <2> QED BY <1>0, <2>1, <2>2 DEF ExecType, StagePcs
<1>2. Flags(e2)
  BY <1>0 DEF Flags, Closing, Before
<1>3. ~AwaitsRemoval(e) /\ ~AwaitsRemoval(e2)
  BY <1>0 DEF AwaitsRemoval
<1>4. Holds(b, e2, rt2)
  BY <1>0, <1>3 DEF Holds
<1>5. ResourceOf(e, kind) \in Names
  BY <1>0, NamesOfRun
<1>6. \A n \in Names : rt2[n] = rt[n] \/ (n = ResourceOf(e, kind) /\ rt2[n] = Free)
  BY <1>5 DEF RuntimeType, Without
<1>7. Owns(b, e2, rt2)
  <2>1. ASSUME NEW n \in Names, rt2[n] # Free, rt2[n][1] = b
        PROVE  /\ n[1] = e2.packet /\ n[2] = rt2[n][2]
               /\ e2.dirty \/ (n[2] = Roles[e2.role] /\ Held(e2, n[3]))
    <3>1. rt2[n] = rt[n]
      BY <1>6, <2>1
    <3>2. /\ n[1] = e.packet /\ n[2] = rt[n][2]
          /\ e.dirty \/ (n[2] = Roles[e.role] /\ Held(e, n[3]))
      BY <2>1, <3>1 DEF BatchInv, Owns
    <3>3. ASSUME n[2] = Roles[e.role], Held(e, n[3]), ~e2.dirty
          PROVE  Held(e2, n[3])
      <4>1. ok
        BY <3>3
      <4>2. PICK i \in e.at..3 : n[3] \in e.created /\ CleanupOrder[i] = n[3]
        BY <1>3, <3>3 DEF Held, Using
      <4>3. i # e.at
        <5>1. ASSUME i = e.at
              PROVE  FALSE
          <6>1. n[3] = kind /\ kind \in e.created
            BY <4>2, <5>1
          <6>2. n = ResourceOf(e, kind) /\ rt2 = Without(e, kind, rt)
            BY <3>2, <3>3, <4>1, <6>1 DEF Names, ResourceOf
          <6> QED BY <1>5, <2>1, <6>2 DEF Without, RuntimeType
        <5> QED BY <5>1
      <4>4. e.at # 3 /\ i \in (e.at + 1)..3
        BY <1>0, <4>2, <4>3
      <4> QED BY <4>2, <4>4 DEF Held
    <3> QED BY <1>0, <3>1, <3>2, <3>3
  <2> QED BY <2>1, Zenon DEF Owns
<1>8. LedgerInv(e2, rows)
  BY <1>0 DEF BatchInv, LedgerInv
<1>9. CallsInv(e2, rows, made)
  <2>1. CallsInv(e, rows, made)
    BY DEF BatchInv
  <2>2. ~e2.failed => Called(made, Roles[e.role])
    BY <1>0, <2>1 DEF CallsInv, Closing
  <2>3. e2.role = 2 => Called(made, "reviewer")
    BY <1>0, <2>1 DEF CallsInv, Ended
  <2> QED BY <1>0, <2>1, <2>2, <2>3 DEF CallsInv, Before
<1> QED BY <1>1, <1>2, <1>4, <1>7, <1>8, <1>9 DEF BatchInv

\* Cleanup: only a resource with the session's label is removed, a network not
\* while a container is attached to it.
LEMMA CleanupKeeps ==
    ASSUME BrokerInv, NEW b \in Batches, Cleanup(b)
    PROVE  BrokerInv'
<1>1. PICK e, rt, rows, made, rt2 :
        /\ e = exec[b] /\ rt = runtime /\ rows = ledger[b] /\ made = calls[b]
        /\ rt2 = runtime'
  OBVIOUS
<1>2. /\ BatchInv(b, e, rt, rows, made) /\ RuntimeType(rt) /\ Attached(rt)
      /\ ExecShape(e) /\ ExecType(e) /\ e.pc = "cleanup" /\ e.packet \in Packets
      /\ e.attempted => e.removed
      /\ UNCHANGED <<ledger, calls>>
  BY <1>1, OwnInv DEF Cleanup, BatchInv, ExecType
<1>3. PICK kind, name, owner : /\ kind = CleanupOrder[e.at]
                               /\ name = ResourceOf(e, kind) /\ owner = Owner(b, e)
  OBVIOUS
<1>4. /\ kind \in Lifecycle /\ name \in Names /\ Roles[e.role] \in RoleSet
      /\ name = <<e.packet, Roles[e.role], kind>>
  <2>1. e.at \in {1, 2, 3} /\ e.role \in {1, 2}
    BY <1>2 DEF ExecType
  <2>2. kind \in Lifecycle
    BY <1>3, <2>1, TargetsAre
  <2> QED BY <1>2, <1>3, <2>1, <2>2, RolesAre, NamesOfRun DEF ResourceOf
<1>5. /\ Name(b, kind) = name /\ Session(b) = owner
      /\ Name(b, "broker") = ResourceOf(e, "broker")
      /\ [rt EXCEPT ![name] = Free] = Without(e, kind, rt)
  BY <1>1, <1>3, Abbreviations DEF Without
<1>6. PICK n, n2, run, run2 :
        /\ n = NextTarget(b, TRUE)
        /\ run = [n.run EXCEPT ![Role(b)] = [n.run[Role(b)] EXCEPT !.log =
                     n.run[Role(b)].log \o <<InspectArgv(kind), RemoveArgv(kind)>>]]
        /\ n2 = [n EXCEPT !.run = run]
        /\ run2 = [n2.run EXCEPT ![Role(b)] = [n2.run[Role(b)] EXCEPT !.removed =
                      [n2.run[Role(b)].removed EXCEPT ![kind] = rt[name]]]]
  OBVIOUS
<1>7. ASSUME NEW ok \in BOOLEAN, NEW e2, NextFrom(e, e2, ok), Become(b, e2),
             ok => kind \notin e.created \/ rt2 = Without(e, kind, rt),
             rt2 = rt \/ (/\ rt[name] = owner /\ ~InUse(b, kind)
                          /\ rt2 = Without(e, kind, rt)),
             UNCHANGED trespass
      PROVE  BrokerInv'
  <2>1. BatchInv(b, e2, rt2, rows, made)
    BY <1>2, <1>3, <1>7, TargetKeeps
  <2>2. Touches(b, e, rt, rt2)
    BY <1>3, <1>4, <1>7 DEF Touches, Without
  <2>3. Attached(rt2)
    <3>1. CASE rt2 = rt
      BY <1>2, <3>1
    <3>2. CASE ~InUse(b, kind) /\ rt2 = Without(e, kind, rt)
      <4>1. kind = "internal" => rt[<<e.packet, Roles[e.role], "broker">>] = Free
        BY <1>1, <1>5, <3>2 DEF InUse, ResourceOf
      <4>2. rt2 = [rt EXCEPT ![<<e.packet, Roles[e.role], kind>>] = Free]
        BY <1>3, <1>4, <3>2 DEF Without
      <4> QED BY <1>2, <1>4, <4>1, <4>2, AttachedKept
    <3> QED BY <1>7, <3>1, <3>2
  <2>4. exec' = [exec EXCEPT ![b] = e2]
    BY <1>7 DEF Become
  <2> QED BY <1>1, <1>2, <1>7, <2>1, <2>2, <2>3, <2>4, SettleRuntime
<1>8. \A ok \in BOOLEAN : NextFrom(e, NextTarget(b, ok), ok)
  BY <1>1, <1>2, NextIs
<1>9. CASE /\ kind \notin e.created /\ Become(b, NextTarget(b, TRUE))
           /\ UNCHANGED <<runtime, trespass>>
  BY <1>1, <1>7, <1>8, <1>9
<1>10. CASE /\ rt[name] = owner /\ ~InUse(b, kind) /\ rt2 = Without(e, kind, rt)
            /\ UNCHANGED trespass
            /\ Become(b, [n2 EXCEPT !.run = run2])
  <2>1. NextFrom(e, n, TRUE)
    BY <1>6, <1>8
  <2>2. NextFrom(e, n2, TRUE)
    BY <1>6, <2>1, NextRecords
  <2>3. PICK n3 : n3 = [n2 EXCEPT !.run = run2]
    OBVIOUS
  <2>4. NextFrom(e, n3, TRUE)
    BY <2>2, <2>3, NextRecords
  <2> QED BY <1>7, <1>10, <2>3, <2>4
<1>11. CASE /\ Become(b, NextTarget(b, FALSE))
            /\ rt2 = rt \/ (/\ rt[name] = owner /\ ~InUse(b, kind)
                            /\ rt2 = Without(e, kind, rt))
            /\ UNCHANGED trespass
  BY <1>7, <1>8, <1>11
<1>12. /\ Owned(b, name) <=> rt[name] = owner
       /\ CleanupOrder[exec[b].at] = kind /\ exec[b].created = e.created
  BY <1>1, <1>3, <1>5 DEF Owned
<1>13. \/ /\ kind \notin e.created /\ Become(b, NextTarget(b, TRUE))
          /\ UNCHANGED <<runtime, trespass>>
       \/ /\ Owned(b, name) /\ ~InUse(b, kind)
          /\ runtime' = [rt EXCEPT ![name] = Free]
          /\ trespass' = IF rt[name] = owner THEN trespass ELSE trespass \cup {name}
          /\ Become(b, [NextTarget(b, TRUE) EXCEPT !.run[Role(b)].log =
                    @ \o <<InspectArgv(kind), RemoveArgv(kind)>>,
                    !.run[Role(b)].removed[kind] = rt[name]])
       \/ /\ Become(b, NextTarget(b, FALSE)) /\ UNCHANGED <<runtime, trespass>>
       \/ /\ Become(b, NextTarget(b, FALSE)) /\ UNCHANGED trespass
          /\ runtime' \in {rt, IF Owned(b, name) /\ ~InUse(b, kind)
                                THEN [rt EXCEPT ![name] = Free] ELSE rt}
  BY <1>1, <1>5, <1>12, Zenon DEF Cleanup
<1>14. [NextTarget(b, TRUE) EXCEPT !.run[Role(b)].log =
                    @ \o <<InspectArgv(kind), RemoveArgv(kind)>>,
                    !.run[Role(b)].removed[kind] = rt[name]]
       = [n2 EXCEPT !.run = run2]
  BY <1>6, Zenon
<1> QED BY <1>1, <1>5, <1>9, <1>10, <1>11, <1>12, <1>13, <1>14
-----------------------------------------------------------------------------
(* What the executor's invariant says, and the steps as a whole *)

\* At the start no batch has done anything and no resource exists.
LEMMA BrokerStart == BrokerInit => BrokerInv
<1> SUFFICES ASSUME BrokerInit PROVE BrokerInv
  OBVIOUS
<1>1. PICK noRuns : noRuns = [r \in RoleSet |-> NoRun]
  OBVIOUS
<1>2. Idle = [pc |-> "idle", packet |-> NoPacket, role |-> 1, at |-> 1,
              created |-> {}, attempted |-> FALSE, removed |-> FALSE,
              failed |-> FALSE, clean |-> TRUE, dirty |-> FALSE,
              pre |-> Approved, run |-> noRuns, final |-> {}]
  BY <1>1, Zenon DEF Idle
<1>3. ExecType(Idle)
  <2>1. ExecShape(Idle)
    BY <1>2 DEF ExecShape
  <2> QED BY <1>2, <2>1 DEF ExecType, StagePcs
<1>4. \A n \in Names : runtime[n] = Free
  BY DEF BrokerInit
<1>5. BrokerType
  <2>1. RuntimeType(runtime)
    BY DEF BrokerInit, RuntimeType
  <2>2. <<>> \in Seq(CallRecords)
    OBVIOUS
  <2>3. calls \in [Batches -> Seq(CallRecords)]
    BY <2>2 DEF BrokerInit
  <2>4. exec = [b \in Batches |-> exec[b]] /\ ledger \in [Batches -> SUBSET LedgerRows]
    BY DEF BrokerInit
  <2> QED BY <2>1, <2>3, <2>4 DEF BrokerType
<1>6. ASSUME NEW b \in Batches
      PROVE  BatchInv(b, exec[b], runtime, ledger[b], calls[b])
  <2>1. exec[b] = Idle /\ ledger[b] = {} /\ calls[b] = <<>>
    BY DEF BrokerInit
  <2>2. Flags(Idle)
    BY <1>2 DEF Flags, Closing, Before
  <2>3. Holds(b, Idle, runtime)
    BY <1>2 DEF Holds, AwaitsRemoval
  <2>4. Owns(b, Idle, runtime)
    BY <1>4 DEF Owns
  <2>5. LedgerInv(Idle, {})
    <3>1. TokenLimit \in Nat
      BY BatchAssumption DEF AbsoluteLimit
    <3>2. IsFiniteSet({}) /\ Cardinality({}) = 0
      BY FS_EmptySet
    <3> QED BY <1>2, <3>1, <3>2 DEF LedgerInv
  <2>6. CallsInv(Idle, {}, <<>>)
    BY <1>2 DEF CallsInv, Called, Ended, Closing
  <2> QED BY <1>3, <2>1, <2>2, <2>3, <2>4, <2>5, <2>6 DEF BatchInv
<1>7. Attached(runtime)
  <2>1. ASSUME NEW p \in Packets, NEW r \in RoleSet
        PROVE  runtime[<<p, r, "broker">>] = Free
    BY <1>4 DEF Names
  <2> QED BY <2>1 DEF Attached
<1> QED BY <1>5, <1>6, <1>7 DEF BrokerInv, BrokerInit

\* A step that leaves the executors, the runtime and the ledgers alone keeps
\* the invariant.
LEMMA BrokerStutter ==
    ASSUME BrokerInv, UNCHANGED <<exec, runtime, ledger, calls, trespass>>
    PROVE  BrokerInv'
  BY DEF BrokerInv, BrokerType, BatchInv, RuntimeType, Attached

\* So does every command of a batch.
LEMMA ExecuteBatchKeeps ==
    ASSUME BrokerInv, NEW b \in Batches, ExecuteBatch(b)
    PROVE  BrokerInv'
  BY ProbeKeeps, PreflightKeeps, CreateKeeps, ConnectKeeps, InspectKeeps,
     ReserveKeeps, CallKeeps, RemoveKeeps, InspectAgainKeeps, CleanupCallKeeps,
     CleanupKeeps, AbsentKeeps, ReprobeKeeps, MeasureKeeps, Zenon
     DEF ExecuteBatch, ExecuteOne

\* The invariant has each role called at most once, in its row, behind its own
\* gateway, and the reservations within the limit.
LEMMA InvPaid == BrokerInv => PaidOnce
<1> SUFFICES ASSUME BrokerInv, NEW b \in Batches
             PROVE  /\ \A i \in DOMAIN calls[b] :
                         /\ calls[b][i].walled
                         /\ \E row \in ledger[b] :
                              /\ row.packet = calls[b][i].packet
                              /\ row.role = calls[b][i].role
                         /\ \A j \in DOMAIN calls[b] \ {i} :
                              calls[b][i].role # calls[b][j].role
                    /\ Cardinality(ledger[b]) <= TokenLimit
  BY DEF PaidOnce
<1>1. LedgerInv(exec[b], ledger[b]) /\ CallsInv(exec[b], ledger[b], calls[b])
  BY DEF BrokerInv, BatchInv
<1> QED BY <1>1, Zenon DEF LedgerInv, CallsInv

\* It has nothing forgotten and nothing foreign removed.
LEMMA InvExact == BrokerInv => CleanupExact
<1> SUFFICES ASSUME BrokerInv, NEW n \in Names, runtime[n] # Free,
                    exec[runtime[n][1]].pc \in Ended
             PROVE  exec[runtime[n][1]].dirty /\ exec[runtime[n][1]].pc # "done"
  BY DEF CleanupExact, CleanupOwn, NothingLeft, BrokerInv
<1>1. PICK b \in Batches : b = runtime[n][1]
  <2>1. runtime[n] \in Batches \X RoleSet
    BY DEF BrokerInv, BrokerType, RuntimeType
  <2> QED BY <2>1
<1>2. Owns(b, exec[b], runtime) /\ Flags(exec[b])
  BY DEF BrokerInv, BatchInv
<1>3. exec[b].pc \in Ended
  BY <1>1
<1>4. ~Held(exec[b], n[3])
  BY <1>3 DEF Held, AwaitsRemoval, Using, Ended
<1>5. exec[b].dirty
  BY <1>1, <1>2, <1>4 DEF Owns
<1>6. exec[b].pc # "done"
  BY <1>2, <1>5 DEF Flags, Closing
<1> QED BY <1>1, <1>5, <1>6

-----------------------------------------------------------------------------
(* A step of one driver *)

\* The phases by number.
LEMMA PhasesAre ==
    /\ Len(PhaseOrder) = 7 /\ DOMAIN PhaseOrder = 1..7
    /\ \A i \in 1..7 : /\ PhaseOrder[i] = "snapshot" <=> i = 1
                       /\ PhaseOrder[i] = "red-snapshot" <=> i = 2
                       /\ PhaseOrder[i] = "offline" <=> i = 3
                       /\ PhaseOrder[i] = "review-packet" <=> i = 4
                       /\ PhaseOrder[i] = "broker" <=> i = 5
                       /\ PhaseOrder[i] = "sign" <=> i = 6
                       /\ PhaseOrder[i] = "attested-judge" <=> i = 7
  BY DEF PhaseOrder

\* A review that runs is in a phase of its own, about its candidate.
LEMMA Running ==
    ASSUME DriversInv, NEW w \in Workflows, NEW s, s = wf[w], s.pc # "new"
    PROVE  /\ s.request.seq \in 1..7 /\ s.request.cand \in Contents
           /\ ForPhase(s.request, w, s.request.seq, s.request.cand)
           /\ Phase(w) = PhaseOrder[s.request.seq]
           /\ s.pc # "done" => Len(s.results) = s.request.seq - 1
  BY DEF DriversInv, ReviewInv, DriverInv, Phase

\* What a step of review w has to keep, so that every review keeps it.
LEMMA SettleReview ==
    ASSUME DriversInv, NEW w \in Workflows, NEW s2, wf' = [wf EXCEPT ![w] = s2],
           NEW p2, prepared' = [prepared EXCEPT ![w] = p2],
           NEW f2, finalized' = [finalized EXCEPT ![w] = f2],
           NEW e2, exec = [b \in Batches |-> exec[b]],
           exec' = [exec EXCEPT ![w] = e2], UNCHANGED clock,
           DriverInv(s2, w), PreparedInv(p2, s2, w), FinalizedInv(f2, s2, w),
           ExecutorInv(s2, e2)
    PROVE  DriversInv'
<1> PICK dr, pr, fi, ex : dr = wf' /\ pr = prepared' /\ fi = finalized' /\ ex = exec'
  OBVIOUS
<1>1. /\ dr = [v \in Workflows |-> dr[v]] /\ pr = [v \in Workflows |-> pr[v]]
      /\ fi = [v \in Workflows |-> fi[v]]
      /\ dr[w] = s2 /\ pr[w] = p2 /\ fi[w] = f2 /\ ex[w] = e2
      /\ \A v \in Workflows \ {w} : /\ dr[v] = wf[v] /\ pr[v] = prepared[v]
                                    /\ fi[v] = finalized[v] /\ ex[v] = exec[v]
  BY DEF DriversInv, ReviewType, Workflows
<1>2. ASSUME NEW v \in Workflows
      PROVE  /\ DriverInv(dr[v], v) /\ PreparedInv(pr[v], dr[v], v)
             /\ FinalizedInv(fi[v], dr[v], v) /\ ExecutorInv(dr[v], ex[v])
  <2>1. CASE v = w
    BY <1>1, <2>1, Zenon
  <2>2. CASE v # w
    BY <1>1, <2>2, Zenon DEF DriversInv, ReviewInv
  <2> QED BY <2>1, <2>2
<1>3. clock' \in Nat
  BY DEF DriversInv, ReviewType
<1> QED BY <1>1, <1>2, <1>3, Zenon DEF DriversInv, ReviewType, ReviewInv

\* The driver goes to another place within its phase.
Goes(s, s2, pc) ==
    /\ DriverShape(s2) /\ s2.pc = pc
    /\ s2.request = s.request /\ s2.results = s.results

\* A step within a phase keeps what the review has committed and asked for; the
\* broker phase is finalized once the executor is done.
LEMMA GoesKeeps ==
    ASSUME NEW w, NEW s, DriverInv(s, w), s.pc \notin Stopped,
           NEW pc \in {"materialise", "recheck", "external", "finalize", "failed"},
           NEW s2, Goes(s, s2, pc), PayloadInv(s2, w),
           NEW e, ExecutorInv(s, e), pc = "finalize" /\ s.request.seq = 5 => e.pc = "done",
           pc \in {"materialise", "recheck"} => s.request.seq = 1
    PROVE  DriverInv(s2, w) /\ ExecutorInv(s2, e)
<1>1. s.pc # "new" /\ s.pc # "done" /\ pc # "new" /\ pc # "done"
  BY DEF Stopped
<1>2. DriverInv(s2, w)
  BY <1>1 DEF DriverInv, Goes, Pcs
<1>3. ExecutorInv(s2, e)
  BY <1>1 DEF ExecutorInv, Goes
<1> QED BY <1>2, <1>3

\* And the replies it has taken are as old as they were.
LEMMA RepliesKeep ==
    ASSUME NEW w, NEW s, s.pc \notin Stopped,
           NEW pc \in {"materialise", "recheck", "external", "finalize", "failed"},
           pc \in {"materialise", "recheck"} =>
             s.pc \in {"prepare", "materialise", "recheck"},
           NEW s2, Goes(s, s2, pc), NEW p, PreparedInv(p, s, w),
           NEW f, FinalizedInv(f, s, w)
    PROVE  PreparedInv(p, s2, w) /\ FinalizedInv(f, s2, w)
  BY DEF PreparedInv, FinalizedInv, Goes, Stopped

\* So such a step, taken alone, keeps the driver's invariant.
LEMMA GoesSettles ==
    ASSUME BrokerInv, DriversInv, NEW w \in Workflows, NEW s, s = wf[w],
           s.pc \notin Stopped,
           NEW pc \in {"materialise", "recheck", "external", "finalize", "failed"},
           pc \in {"materialise", "recheck"} =>
             s.pc \in {"prepare", "materialise", "recheck"},
           pc \in {"materialise", "recheck"} => s.request.seq = 1,
           pc = "finalize" /\ s.request.seq = 5 => exec[w].pc = "done",
           NEW s2, Goes(s, s2, pc), PayloadInv(s2, w), wf' = [wf EXCEPT ![w] = s2],
           UNCHANGED <<exec, prepared, finalized, clock>>
    PROVE  DriversInv'
<1>1. PICK p, f, e : p = prepared[w] /\ f = finalized[w] /\ e = exec[w]
  OBVIOUS
<1>2. DriverInv(s, w) /\ PreparedInv(p, s, w) /\ FinalizedInv(f, s, w) /\ ExecutorInv(s, e)
  BY <1>1 DEF DriversInv, ReviewInv
<1>3. DriverInv(s2, w) /\ ExecutorInv(s2, e)
  BY <1>1, <1>2, GoesKeeps
<1>4. PreparedInv(p, s2, w) /\ FinalizedInv(f, s2, w)
  BY <1>2, RepliesKeep
<1>5. /\ prepared' = [prepared EXCEPT ![w] = p] /\ finalized' = [finalized EXCEPT ![w] = f]
      /\ exec = [b \in Batches |-> exec[b]] /\ exec' = [exec EXCEPT ![w] = e]
  <2>1. prepared = [v \in Workflows |-> prepared[v]] /\ finalized = [v \in Workflows |-> finalized[v]]
    BY DEF DriversInv, ReviewType
  <2>2. exec = [b \in Batches |-> exec[b]]
    BY DEF BrokerInv, BrokerType
  <2>3. prepared' = [prepared EXCEPT ![w] = p] /\ finalized' = [finalized EXCEPT ![w] = f]
    BY <1>1, <2>1
  <2>4. exec' = [exec EXCEPT ![w] = e]
    BY <1>1, <2>2 DEF Workflows
  <2> QED BY <2>2, <2>3, <2>4
<1> QED BY <1>3, <1>4, <1>5, SettleReview

\* A failure is such a step.
LEMMA FailIs ==
    ASSUME DriversInv, NEW w \in Workflows, Fail(w)
    PROVE  \E s2 : /\ wf' = [wf EXCEPT ![w] = s2] /\ Goes(wf[w], s2, "failed")
                   /\ PayloadInv(s2, w)
<1>1. PICK s : s = wf[w]
  OBVIOUS
<1>2. DriverShape(s) /\ wf = [v \in Workflows |-> wf[v]]
  BY <1>1 DEF DriversInv, ReviewInv, DriverInv, ReviewType
<1>3. PICK s2 : s2 = [s EXCEPT !.pc = "failed", !.payload = None, !.evidence = None]
  OBVIOUS
<1>4. wf' = [wf EXCEPT ![w] = s2]
  BY <1>1, <1>2, <1>3, Zenon DEF Fail
<1>5. Goes(s, s2, "failed")
  BY <1>2, <1>3 DEF Goes, DriverShape
<1>6. PayloadInv(s2, w)
  BY <1>5 DEF PayloadInv, Goes
<1> QED BY <1>1, <1>4, <1>5, <1>6

\* It keeps the driver's invariant.
LEMMA FailSettles ==
    ASSUME BrokerInv, DriversInv, NEW w \in Workflows, wf[w].pc \notin Stopped, Fail(w),
           UNCHANGED <<exec, prepared, finalized, clock>>
    PROVE  DriversInv'
<1>1. PICK s2 : /\ wf' = [wf EXCEPT ![w] = s2] /\ Goes(wf[w], s2, "failed")
                /\ PayloadInv(s2, w)
  BY FailIs
<1>2. PICK s, pc : s = wf[w] /\ pc = "failed"
  OBVIOUS
<1>3. /\ pc \in {"materialise", "recheck", "external", "finalize", "failed"}
      /\ pc \notin {"materialise", "recheck"} /\ pc # "finalize"
      /\ Goes(s, s2, pc) /\ s.pc \notin Stopped
  BY <1>1, <1>2
<1> QED BY <1>1, <1>2, <1>3, GoesSettles

-----------------------------------------------------------------------------
(* Replies *)

\* What is prepared for phase i of review w, about candidate c, as far as the
\* chain depends on it.
Prepares(w, i, c, payload) ==
    /\ i = 4 => payload[2] = c
    /\ i = 5 => payload[3] = c
    /\ i = 6 => payload[2] = w

\* A reply that matches the request of a running review is the one just made:
\* an earlier one was about another review or an older request.
LEMMA PreparedIsOwn ==
    ASSUME DriversInv, NEW w \in Workflows, wf[w].pc \in {"prepare", "recheck"},
           NEW v \in Workflows, ActionMatches(prepared[v], wf[w].request)
    PROVE  FALSE
<1>1. PICK s : s = wf[w]
  OBVIOUS
<1>2. s.request.wf = w /\ w # 0
  <2>1. ForPhase(s.request, w, s.request.seq, s.request.cand)
    BY <1>1, Running
  <2>2. w # 0
    BY BrokerAssumption DEF Workflows
  <2> QED BY <2>1, <2>2 DEF ForPhase
<1>3. prepared[v].request = s.request /\ s.request # NoRequest
  BY <1>1, <1>2 DEF ActionMatches, NoRequest
<1>4. PreparedInv(prepared[v], wf[v], v)
  BY DEF DriversInv, ReviewInv
<1>5. v = w
  BY <1>2, <1>3, <1>4 DEF PreparedInv
<1> QED BY <1>1, <1>3, <1>4, <1>5 DEF PreparedInv

\* The same for the result of a phase.
LEMMA FinalizedIsOwn ==
    ASSUME DriversInv, NEW w \in Workflows, wf[w].pc = "finalize",
           NEW v \in Workflows, finalized[v] # NoReply,
           finalized[v].result.request = wf[w].request
    PROVE  FALSE
<1>1. PICK s : s = wf[w]
  OBVIOUS
<1>2. s.request.wf = w
  BY <1>1, Running DEF ForPhase
<1>3. FinalizedInv(finalized[v], wf[v], v)
  BY DEF DriversInv, ReviewInv
<1>4. v = w
  BY <1>1, <1>2, <1>3 DEF FinalizedInv
<1> QED BY <1>1, <1>3, <1>4 DEF FinalizedInv, Stopped

\* The driver goes on with the reply to its own request, or fails.
LEMMA TakePreparedIs ==
    ASSUME DriversInv, NEW w \in Workflows, wf[w].pc \in {"prepare", "recheck"},
           NEW payload, TakePrepared(w, payload)
    PROVE  /\ prepared' = [prepared EXCEPT ![w] = [request |-> wf[w].request,
                                                   payload |-> payload]]
           /\ \/ wf' = [wf EXCEPT ![w].payload = payload,
                                  ![w].pc = IF Phase(w) \in External THEN "external"
                                            ELSE "finalize",
                                  ![w].evidence = payload]
              \/ Fail(w)
<1>1. PICK made : made = [request |-> wf[w].request, payload |-> payload]
  OBVIOUS
<1>2. /\ prepared' = [prepared EXCEPT ![w] = made]
      /\ \E m \in Range(prepared) \cup {made} :
           IF ActionMatches(m, wf[w].request) /\ Unseen(w, wf[w].request)
           THEN wf' = [wf EXCEPT ![w].payload = m.payload,
                                 ![w].pc = IF Phase(w) \in External THEN "external"
                                           ELSE "finalize",
                                 ![w].evidence = m.payload]
           ELSE Fail(w)
  BY <1>1, Zenon DEF TakePrepared
<1>3. PICK m \in Range(prepared) \cup {made} :
        IF ActionMatches(m, wf[w].request) /\ Unseen(w, wf[w].request)
        THEN wf' = [wf EXCEPT ![w].payload = m.payload,
                              ![w].pc = IF Phase(w) \in External THEN "external"
                                        ELSE "finalize",
                              ![w].evidence = m.payload]
        ELSE Fail(w)
  BY <1>2, Zenon
<1>4. ASSUME ActionMatches(m, wf[w].request)
      PROVE  m = made
  <2>1. ASSUME m \in Range(prepared) PROVE FALSE
    <3>1. PICK v \in Workflows : m = prepared[v]
      <4>1. DOMAIN prepared = Workflows
        BY DEF DriversInv, ReviewType
      <4> QED BY <2>1, <4>1 DEF Range
    <3> QED BY <1>4, <3>1, PreparedIsOwn, Zenon
  <2> QED BY <2>1
<1>5. made.payload = payload
  BY <1>1
<1> QED BY <1>1, <1>2, <1>3, <1>4, <1>5, Zenon

\* Taking what is prepared for its own request keeps the driver's invariant.
LEMMA TakePreparedKeeps ==
    ASSUME BrokerInv, DriversInv, NEW w \in Workflows,
           wf[w].pc \in {"prepare", "recheck"}, NEW payload,
           Prepares(w, wf[w].request.seq, wf[w].request.cand, payload),
           TakePrepared(w, payload), UNCHANGED <<exec, finalized, clock>>
    PROVE  DriversInv'
<1>1. PICK s, p, f, e, p2 : /\ s = wf[w] /\ p = prepared[w] /\ f = finalized[w]
                            /\ e = exec[w]
                            /\ p2 = [request |-> s.request, payload |-> payload]
  OBVIOUS
<1>2. DriverInv(s, w) /\ PreparedInv(p, s, w) /\ FinalizedInv(f, s, w) /\ ExecutorInv(s, e)
  BY <1>1 DEF DriversInv, ReviewInv
<1>3. s.pc \notin Stopped /\ s.pc # "new" /\ s.pc \in {"prepare", "recheck"}
  BY <1>1 DEF Stopped
<1>4. s.request.seq \in 1..7 /\ s.request.wf = w /\ Phase(w) = PhaseOrder[s.request.seq]
  BY <1>1, <1>3, Running DEF ForPhase
<1>5. PICK s2, pc : /\ pc \in {"external", "finalize", "failed"}
                    /\ wf' = [wf EXCEPT ![w] = s2] /\ Goes(s, s2, pc)
                    /\ PayloadInv(s2, w)
                    /\ pc = "finalize" => s.request.seq # 5
  <2>1. CASE Fail(w)
    <3>1. PICK s2 : /\ wf' = [wf EXCEPT ![w] = s2] /\ Goes(s, s2, "failed")
                    /\ PayloadInv(s2, w)
      BY <1>1, <2>1, FailIs
    <3> QED BY <3>1
  <2>2. CASE wf' = [wf EXCEPT ![w].payload = payload,
                              ![w].pc = IF Phase(w) \in External THEN "external"
                                        ELSE "finalize",
                              ![w].evidence = payload]
    <3>1. PICK pc : pc = IF Phase(w) \in External THEN "external" ELSE "finalize"
      OBVIOUS
    <3>2. PICK s2 : s2 = [s EXCEPT !.payload = payload, !.pc = pc, !.evidence = payload]
      OBVIOUS
    <3>3. wf = [v \in Workflows |-> wf[v]]
      BY DEF DriversInv, ReviewType
    <3>4. wf' = [wf EXCEPT ![w] = s2]
      BY <1>1, <2>2, <3>1, <3>2, <3>3, Zenon
    <3>5. Goes(s, s2, pc) /\ s2.payload = payload
      BY <1>2, <3>2 DEF Goes, DriverShape, DriverInv
    <3>6. /\ pc = "finalize" => s.request.seq # 5
          /\ pc \in {"external", "finalize"}
      BY <1>4, <3>1, PhasesAre DEF External
    <3>7. PayloadInv(s2, w)
      BY <1>1, <3>5 DEF PayloadInv, Prepares, Goes
    <3> QED BY <3>4, <3>5, <3>6, <3>7
  <2> QED BY <1>1, <2>1, <2>2, TakePreparedIs, Zenon
<1>6. DriverInv(s2, w) /\ ExecutorInv(s2, e)
  BY <1>2, <1>3, <1>5, GoesKeeps
<1>7. FinalizedInv(f, s2, w)
  BY <1>2, <1>3, <1>5, RepliesKeep
<1>8. PreparedInv(p2, s2, w)
  BY <1>1, <1>4, <1>5 DEF PreparedInv, Goes
<1>9. /\ prepared' = [prepared EXCEPT ![w] = p2] /\ finalized' = [finalized EXCEPT ![w] = f]
      /\ exec = [b \in Batches |-> exec[b]] /\ exec' = [exec EXCEPT ![w] = e]
  <2>1. finalized = [v \in Workflows |-> finalized[v]]
    BY DEF DriversInv, ReviewType
  <2>2. exec = [b \in Batches |-> exec[b]]
    BY DEF BrokerInv, BrokerType
  <2>3. finalized' = [finalized EXCEPT ![w] = f]
    BY <1>1, <2>1
  <2>4. exec' = [exec EXCEPT ![w] = e]
    BY <1>1, <2>2 DEF Workflows
  <2>5. prepared' = [prepared EXCEPT ![w] = p2]
    BY <1>1, TakePreparedIs, Zenon
  <2> QED BY <2>2, <2>3, <2>4, <2>5
<1> QED BY <1>5, <1>6, <1>7, <1>8, <1>9, SettleReview

-----------------------------------------------------------------------------
(* Commits *)

\* A sequence that grows by one keeps what it has.
LEMMA AppendIs ==
    ASSUME NEW s, IsSequence(s), NEW x
    PROVE  /\ IsSequence(Append(s, x)) /\ Len(s) \in Nat /\ DOMAIN s = 1..Len(s)
           /\ Len(Append(s, x)) = Len(s) + 1
           /\ DOMAIN Append(s, x) = 1..(Len(s) + 1)
           /\ Append(s, x)[Len(s) + 1] = x
           /\ \A i \in 1..Len(s) : Append(s, x)[i] = s[i]
<1>1. PICK S : S = {s[i] : i \in DOMAIN s} \cup {x}
  OBVIOUS
<1>2. s \in Seq(S)
  <2>1. s \in Seq({s[i] : i \in DOMAIN s}) /\ {s[i] : i \in DOMAIN s} \subseteq S
    BY <1>1 DEF IsSequence
  <2> QED BY <2>1
<1>3. PICK t : t = Append(s, x)
  OBVIOUS
<1>4. /\ Len(s) \in Nat /\ DOMAIN s = 1..Len(s)
      /\ Len(t) = Len(s) + 1 /\ DOMAIN t = 1..(Len(s) + 1)
      /\ t[Len(s) + 1] = x /\ t \in Seq(S)
      /\ \A i \in 1..Len(s) : t[i] = s[i]
  BY <1>1, <1>2, <1>3
<1>5. IsSequence(t)
  <2>1. PICK T : T = {t[i] : i \in DOMAIN t}
    OBVIOUS
  <2>2. PICK n \in Nat : t \in [1..n -> S]
    <3>1. Seq(S) = UNION {[1..n -> S] : n \in Nat}
      BY SeqDef, Zenon
    <3> QED BY <1>4, <3>1, Zenon
  <2>3. t \in [1..n -> T]
    BY <2>1, <2>2
  <2>4. t \in Seq(T)
    <3>1. Seq(T) = UNION {[1..m -> T] : m \in Nat}
      BY SeqDef, Zenon
    <3> QED BY <2>2, <2>3, <3>1, Zenon
  <2> QED BY <2>1, <2>4 DEF IsSequence
<1> QED BY <1>3, <1>4, <1>5

\* The request that follows a result names its digest, and is about the same
\* candidate.
Follows(r, res, r2) ==
    /\ RequestShape(r2) /\ r2.wf = r.wf /\ r2.seq = r.seq + 1 /\ r2.cand = r.cand
    /\ r2.prev = ResultDigest(res)
    /\ r2.snap = SnapAnchor(r, res.artifact) /\ r2.packet = PacketAnchor(r, res.artifact)

\* The request after the last one is none, after another one it follows it.
LEMMA NextRequestIs ==
    ASSUME NEW res, NEW r, r = res.request, RequestShape(r), r.seq \in 1..7
    PROVE  /\ r.seq = 7 => NextRequest(res) = NoRequest
           /\ r.seq # 7 => Follows(r, res, NextRequest(res))
<1>1. CASE r.seq = 7
  BY <1>1, PhasesAre, Zenon DEF NextRequest
<1>2. CASE r.seq # 7
  <2>1. PICK prev, snap, packet, r2 :
          /\ prev = ResultDigest(res) /\ snap = SnapAnchor(r, res.artifact)
          /\ packet = PacketAnchor(r, res.artifact) /\ r2 = NextRequest(res)
    OBVIOUS
  <2>2. r.seq # Len(PhaseOrder)
    BY <1>2, PhasesAre
  <2>3. PICK seq : seq = r.seq + 1
    OBVIOUS
  <2>4. PICK r1 : r1 = [r EXCEPT !.seq = seq, !.prev = prev]
    OBVIOUS
  <2>5. r2 = [r EXCEPT !.seq = @ + 1, !.prev = ResultDigest(res),
                       !.snap = SnapAnchor(r, res.artifact),
                       !.packet = PacketAnchor(r, res.artifact)]
    BY <2>1, <2>2, Zenon DEF NextRequest
  <2>6. r2 = [r EXCEPT !.seq = seq, !.prev = prev, !.snap = snap, !.packet = packet]
    BY <2>1, <2>3, <2>5, Zenon
  <2>7. r2 = [r1 EXCEPT !.snap = snap, !.packet = packet]
    BY <2>4, <2>6, Zenon
  <2>8. r1 = [wf |-> r.wf, seq |-> seq, prev |-> prev, cand |-> r.cand,
              snap |-> r.snap, packet |-> r.packet]
    BY <2>4 DEF RequestShape
  <2>9. r2 = [wf |-> r.wf, seq |-> seq, prev |-> prev, cand |-> r.cand,
              snap |-> snap, packet |-> packet]
    BY <2>7, <2>8
  <2>10. /\ RequestShape(r2) /\ r2.wf = r.wf /\ r2.seq = seq /\ r2.cand = r.cand
        /\ r2.prev = prev /\ r2.snap = snap /\ r2.packet = packet
    BY <2>9 DEF RequestShape
  <2> QED BY <1>2, <2>1, <2>3, <2>10, Zenon DEF Follows
<1> QED BY <1>1, <1>2

\* What review w has after it has committed a result: the next request, or
\* none after the last one.
Commits(s, s2, res, next) ==
    /\ DriverShape(s2) /\ s2.results = Append(s.results, res)
    /\ next = NoRequest => s2.pc = "done" /\ s2.request = s.request
    /\ next # NoRequest => s2.pc = "prepare" /\ s2.request = next

\* That is what the driver commits.
LEMMA CommittedIs ==
    ASSUME NEW w, NEW s, s = wf[w], DriverShape(s), NEW f
    PROVE  Commits(s, Committed(w, f), f.result, f.next)
<1>1. PICK results, request, pc :
        /\ results = Append(s.results, f.result)
        /\ request = IF f.next = NoRequest THEN s.request ELSE f.next
        /\ pc = IF f.next = NoRequest THEN "done" ELSE "prepare"
  OBVIOUS
<1>2. PICK s1 : s1 = [s EXCEPT !.results = results, !.request = request]
  OBVIOUS
<1>3. PICK s2 : s2 = [s1 EXCEPT !.pc = pc, !.payload = None, !.evidence = None]
  OBVIOUS
<1>4. Committed(w, f) = s2
  <2>1. Committed(w, f) =
          [s EXCEPT !.results = Append(@, f.result),
                    !.request = IF f.next = NoRequest THEN @ ELSE f.next,
                    !.pc = IF f.next = NoRequest THEN "done" ELSE "prepare",
                    !.payload = None, !.evidence = None]
    BY Zenon DEF Committed
  <2>2. Committed(w, f) =
          [s EXCEPT !.results = results, !.request = request, !.pc = pc,
                    !.payload = None, !.evidence = None]
    BY <1>1, <2>1, Zenon
  <2> QED BY <1>2, <1>3, <2>2, Zenon
<1>5. s1 = [pc |-> s.pc, request |-> request, payload |-> s.payload,
            evidence |-> s.evidence, results |-> results]
  BY <1>2 DEF DriverShape
<1>6. s2 = [pc |-> pc, request |-> request, payload |-> None,
            evidence |-> None, results |-> results]
  BY <1>5, <1>3
<1>7. DriverShape(s2) /\ s2.pc = pc /\ s2.request = request /\ s2.results = results
  BY <1>6 DEF DriverShape
<1> QED BY <1>1, <1>4, <1>7, Zenon DEF Commits

\* The result is about the candidate of the review.
About(w, i, c, artifact) ==
    (i <= 5 => artifact[2] = c) /\ (i = 6 => artifact[2] = w)

\* Committing a result of its own phase keeps the chain, and asks for the next.
LEMMA CommitKeeps ==
    ASSUME NEW w, NEW s, DriverInv(s, w), s.pc = "finalize", w # 0,
           NEW res, res.request = s.request,
           About(w, s.request.seq, s.request.cand, res.artifact),
           NEW s2, Commits(s, s2, res, NextRequest(res))
    PROVE  DriverInv(s2, w)
<1>1. PICK r, c, i, n : r = s.request /\ c = r.cand /\ i = r.seq /\ n = NextRequest(res)
  OBVIOUS
<1>2. /\ i \in 1..7 /\ c \in Contents /\ ForPhase(r, w, i, c)
      /\ Len(s.results) = i - 1 /\ IsSequence(s.results)
      /\ i > 1 => r.prev = ResultDigest(s.results[i - 1])
      /\ Chained(s.results, w, c)
  BY <1>1 DEF DriverInv
<1>3. PICK rs : rs = s2.results
  OBVIOUS
<1>4. /\ IsSequence(rs) /\ Len(rs) = i /\ DOMAIN rs = 1..i /\ rs[i] = res
      /\ DOMAIN s.results = 1..(i - 1)
      /\ \A j \in 1..(i - 1) : rs[j] = s.results[j]
  BY <1>1, <1>2, <1>3, AppendIs DEF Commits
<1>5. OfPhase(res, w, i, c)
  BY <1>1, <1>2 DEF OfPhase, About
<1>6. Chained(rs, w, c)
  <2> SUFFICES ASSUME NEW j \in DOMAIN rs
               PROVE  /\ OfPhase(rs[j], w, j, c)
                      /\ j > 1 => rs[j].request.prev = ResultDigest(rs[j - 1])
    BY DEF Chained
  <2>1. CASE j = i
    <3>1. i > 1 => rs[i - 1] = s.results[i - 1]
      BY <1>2, <1>4
    <3> QED BY <1>1, <1>2, <1>4, <1>5, <2>1, <3>1
  <2>2. CASE j # i
    <3>1. /\ j \in DOMAIN s.results /\ rs[j] = s.results[j]
          /\ j > 1 => rs[j - 1] = s.results[j - 1]
      BY <1>2, <1>4, <2>2
    <3> QED BY <1>2, <3>1 DEF Chained
  <2> QED BY <2>1, <2>2
<1>7. CASE i = 7
  <2>1. n = NoRequest
    BY <1>1, <1>2, <1>7, NextRequestIs DEF ForPhase
  <2>2. s2.pc = "done" /\ s2.request = r /\ DriverShape(s2)
    BY <1>1, <2>1 DEF Commits
  <2>3. PayloadInv(s2, w)
    BY <2>2 DEF PayloadInv
  <2> QED BY <1>1, <1>2, <1>3, <1>4, <1>6, <1>7, <2>2, <2>3 DEF DriverInv, Pcs
<1>8. CASE i # 7
  <2>1. Follows(r, res, n)
    BY <1>1, <1>2, <1>8, NextRequestIs DEF ForPhase
  <2>2. n # NoRequest
    BY <1>2, <2>1 DEF Follows, ForPhase, NoRequest
  <2>3. s2.pc = "prepare" /\ s2.request = n /\ DriverShape(s2)
    BY <1>1, <2>2 DEF Commits
  <2>4. PayloadInv(s2, w)
    BY <2>3 DEF PayloadInv
  <2>5. n.seq = i + 1 /\ n.cand = c /\ n.prev = ResultDigest(res)
    BY <1>1, <2>1 DEF Follows
  <2>6. ForPhase(n, w, i + 1, c)
    <3>1. n.snap = c
      BY <1>1, <1>2, <2>1 DEF Follows, SnapAnchor, About, ForPhase
    <3>2. i + 1 >= 5 => n.packet = c
      BY <1>1, <1>2, <2>1 DEF Follows, PacketAnchor, About, ForPhase
    <3> QED BY <1>2, <2>1, <2>5, <3>1, <3>2 DEF Follows, ForPhase
  <2> QED BY <1>2, <1>3, <1>4, <1>6, <1>8, <2>3, <2>4, <2>5, <2>6 DEF DriverInv, Pcs
<1> QED BY <1>7, <1>8

\* The result the driver has sent for, made of its own request.
ResultOf(s, artifact) ==
    [request |-> s.request, artifact |-> artifact, evidence |-> s.evidence]
ReplyOf(res) == [result |-> res, next |-> NextRequest(res)]

\* The driver commits the result of its own request, or fails.
LEMMA TakeFinalizedIs ==
    ASSUME DriversInv, NEW w \in Workflows, wf[w].pc = "finalize",
           NEW artifact, TakeFinalized(w, artifact), NEW made,
           made = ReplyOf(ResultOf(wf[w], artifact))
    PROVE  /\ finalized' = [finalized EXCEPT ![w] = made]
           /\ wf' = [wf EXCEPT ![w] = Committed(w, made)] \/ Fail(w)
<1>1. /\ finalized' = [finalized EXCEPT ![w] = made]
      /\ \E m \in Range(finalized) \cup {made} :
           /\ Received(made, finalized, m)
           /\ IF /\ FinalizedMatches(m, wf[w].request, wf[w].evidence)
                 /\ StoreMatches(w, m)
              THEN wf' = [wf EXCEPT ![w] = Committed(w, m)]
              ELSE Fail(w)
  BY Zenon DEF TakeFinalized, ReplyOf, ResultOf
<1>2. PICK m \in Range(finalized) \cup {made} :
        /\ Received(made, finalized, m)
        /\ IF /\ FinalizedMatches(m, wf[w].request, wf[w].evidence)
              /\ StoreMatches(w, m)
           THEN wf' = [wf EXCEPT ![w] = Committed(w, m)]
           ELSE Fail(w)
  BY <1>1, Zenon
<1>3. ASSUME FinalizedMatches(m, wf[w].request, wf[w].evidence)
      PROVE  m = made
  <2>1. ASSUME m # made PROVE FALSE
    <3>1. m \in Range(finalized) /\ m # NoReply
      BY <1>2, <2>1, Zenon DEF Received
    <3>2. PICK v \in Workflows : m = finalized[v]
      <4>1. DOMAIN finalized = Workflows
        BY DEF DriversInv, ReviewType
      <4> QED BY <3>1, <4>1 DEF Range
    <3>3. m.result.request = wf[w].request
      BY <1>3 DEF FinalizedMatches, OutputMatches
    <3> QED BY <3>1, <3>2, <3>3, FinalizedIsOwn, Zenon
  <2> QED BY <2>1
<1> QED BY <1>1, <1>2, <1>3, Zenon

\* Taking the result of its own phase keeps the driver's invariant.
LEMMA TakeFinalizedKeeps ==
    ASSUME BrokerInv, DriversInv, NEW w \in Workflows, wf[w].pc = "finalize",
           NEW artifact, About(w, wf[w].request.seq, wf[w].request.cand, artifact),
           TakeFinalized(w, artifact), UNCHANGED <<exec, prepared, clock>>
    PROVE  DriversInv'
<1>1. PICK s, p, f, e, res :
        /\ s = wf[w] /\ p = prepared[w] /\ f = finalized[w] /\ e = exec[w]
        /\ res = ResultOf(wf[w], artifact)
  OBVIOUS
<1>2. PICK made : made = ReplyOf(res)
  OBVIOUS
<1>3. DriverInv(s, w) /\ PreparedInv(p, s, w) /\ FinalizedInv(f, s, w) /\ ExecutorInv(s, e)
  BY <1>1 DEF DriversInv, ReviewInv
<1>4. /\ res.request = s.request /\ res.artifact = artifact
      /\ made.result = res /\ made.next = NextRequest(res)
  BY <1>1, <1>2 DEF ResultOf, ReplyOf
<1>5. /\ s.pc = "finalize" /\ s.request.seq \in 1..7 /\ s.request.wf = w /\ w # 0
      /\ ForPhase(s.request, w, s.request.seq, s.request.cand)
      /\ Len(s.results) = s.request.seq - 1 /\ IsSequence(s.results)
  <2>1. w # 0
    BY BrokerAssumption DEF Workflows
  <2> QED BY <1>1, <1>3, <2>1 DEF DriverInv, ForPhase
<1>6. /\ finalized' = [finalized EXCEPT ![w] = made]
      /\ wf' = [wf EXCEPT ![w] = Committed(w, made)] \/ Fail(w)
  BY <1>1, <1>2, TakeFinalizedIs
<1>7. PICK s2 : /\ wf' = [wf EXCEPT ![w] = s2]
                /\ DriverInv(s2, w) /\ PreparedInv(p, s2, w)
                /\ FinalizedInv(made, s2, w) /\ ExecutorInv(s2, e)
  <2>1. CASE Fail(w)
    <3>1. PICK s2 : /\ wf' = [wf EXCEPT ![w] = s2] /\ Goes(s, s2, "failed")
                    /\ PayloadInv(s2, w)
      BY <1>1, <2>1, FailIs
    <3>2. PICK pc : pc = "failed"
      OBVIOUS
    <3>3. /\ pc \in {"materialise", "recheck", "external", "finalize", "failed"}
          /\ pc \notin {"materialise", "recheck"} /\ pc # "finalize"
          /\ Goes(s, s2, pc) /\ s.pc \notin Stopped
      BY <1>5, <3>1, <3>2 DEF Stopped
    <3>4. DriverInv(s2, w) /\ ExecutorInv(s2, e)
      BY <1>3, <3>1, <3>3, GoesKeeps
    <3>5. PreparedInv(p, s2, w)
      BY <1>3, <3>3, RepliesKeep
    <3>6. FinalizedInv(made, s2, w)
      BY <1>4, <1>5, <3>1 DEF FinalizedInv, Goes, Stopped
    <3> QED BY <3>1, <3>4, <3>5, <3>6
  <2>2. CASE wf' = [wf EXCEPT ![w] = Committed(w, made)]
    <3>1. PICK s2, n : s2 = Committed(w, made) /\ n = NextRequest(res)
      OBVIOUS
    <3>2. Commits(s, s2, res, n)
      BY <1>1, <1>3, <1>4, <3>1, CommittedIs DEF DriverInv
    <3>3. DriverInv(s2, w)
      BY <1>1, <1>3, <1>4, <1>5, <3>1, <3>2, CommitKeeps
    <3>4. /\ s2.pc \in {"done", "prepare"}
          /\ s2.request.seq \in s.request.seq..(s.request.seq + 1)
          /\ s2.pc = "prepare" => s2.request.seq = s.request.seq + 1
          /\ s2.request.cand = s.request.cand
      <4>1. CASE s.request.seq = 7
        BY <1>4, <1>5, <3>1, <3>2, <4>1, NextRequestIs DEF Commits, ForPhase
      <4>2. CASE s.request.seq # 7
        <5>1. Follows(s.request, res, n)
          BY <1>4, <1>5, <3>1, <4>2, NextRequestIs DEF ForPhase
        <5>2. n # NoRequest
          BY <1>5, <5>1 DEF Follows, NoRequest
        <5> QED BY <1>5, <3>2, <5>1, <5>2 DEF Commits, Follows
      <4> QED BY <4>1, <4>2
    <3>5. PreparedInv(p, s2, w)
      <4>0. PICK i, i2 : i = s.request.seq /\ i2 = s2.request.seq
        OBVIOUS
      <4>1. 1..i \subseteq 1..i2 /\ (s2.pc = "prepare" => i2 \notin 1..i)
        <5>1. i \in 1..7 /\ i2 \in i..(i + 1) /\ (s2.pc = "prepare" => i2 = i + 1)
          BY <1>5, <3>4, <4>0
        <5> QED BY <5>1
      <4>3. /\ s2.pc # "new" /\ s.pc # "new"
            /\ s2.pc \in {"prepare", "materialise", "recheck"} => s2.pc = "prepare"
        BY <1>5, <3>4
      <4> QED BY <1>3, <4>0, <4>1, <4>3, Zenon DEF PreparedInv
    <3>6. FinalizedInv(made, s2, w)
      <4>1. s.request.seq \in 1..s2.request.seq /\ s2.pc # "new"
        BY <1>5, <3>4
      <4>2. s2.pc \notin Stopped => s.request.seq # s2.request.seq
        BY <1>5, <3>4 DEF Stopped
      <4>3. made.result.request = s.request /\ s.request.wf = w
        BY <1>4, <1>5
      <4> QED BY <4>1, <4>2, <4>3, Zenon DEF FinalizedInv
    <3>7. ExecutorInv(s2, e)
      <4>1. e.pc # "idle" => e.packet = s2.request.cand
        BY <1>3, <1>5, <3>4 DEF ExecutorInv
      <4>2. Len(s2.results) = s.request.seq
        <5>1. PICK rs, i : rs = s.results /\ i = s.request.seq
          OBVIOUS
        <5>2. Len(Append(rs, res)) = Len(rs) + 1
          BY <1>5, <5>1, AppendIs, Zenon
        <5>3. s2.results = Append(rs, res)
          BY <3>2, <5>1 DEF Commits
        <5>4. i \in 1..7 /\ Len(rs) = i - 1
          BY <1>5, <5>1
        <5>5. Len(Append(rs, res)) = i
          BY <5>2, <5>4
        <5> QED BY <5>1, <5>3, <5>5
      <4> QED BY <1>3, <1>5, <3>4, <4>1, <4>2 DEF ExecutorInv
    <3> QED BY <2>2, <3>1, <3>3, <3>5, <3>6, <3>7
  <2> QED BY <1>6, <2>1, <2>2
<1>8. /\ prepared' = [prepared EXCEPT ![w] = p]
      /\ exec = [b \in Batches |-> exec[b]] /\ exec' = [exec EXCEPT ![w] = e]
  <2>1. prepared = [v \in Workflows |-> prepared[v]]
    BY DEF DriversInv, ReviewType
  <2>2. exec = [b \in Batches |-> exec[b]]
    BY DEF BrokerInv, BrokerType
  <2>3. prepared' = [prepared EXCEPT ![w] = p]
    BY <1>1, <2>1
  <2>4. exec' = [exec EXCEPT ![w] = e]
    BY <1>1, <2>2 DEF Workflows
  <2> QED BY <2>2, <2>3, <2>4
<1> QED BY <1>6, <1>7, <1>8, SettleReview

-----------------------------------------------------------------------------
(* The executor's packet *)

\* The states a batch goes to are about its packet.
LEMMA StatesKeepPacket ==
    ASSUME NEW b, ExecShape(exec[b])
    PROVE  /\ Raise(b).packet = exec[b].packet /\ "packet" \in DOMAIN Raise(b)
           /\ \A argvs, pc : /\ Record(b, argvs, pc).packet = exec[b].packet
                             /\ "packet" \in DOMAIN Record(b, argvs, pc)
           /\ \A pc : Lost(b, pc).packet = exec[b].packet
           /\ \A ok : /\ NextTarget(b, ok).packet = exec[b].packet
                      /\ "packet" \in DOMAIN NextTarget(b, ok)
<1> PICK e : e = exec[b]
  OBVIOUS
<1>1. "packet" \in DOMAIN e
  BY DEF ExecShape
<1>2. Raise(b).packet = e.packet /\ "packet" \in DOMAIN Raise(b)
  BY <1>1 DEF Raise
<1>3. ASSUME NEW argvs, NEW pc
      PROVE  /\ Record(b, argvs, pc).packet = exec[b].packet
             /\ "packet" \in DOMAIN Record(b, argvs, pc)
  BY <1>1 DEF Record
<1>4. ASSUME NEW pc PROVE Lost(b, pc).packet = exec[b].packet
  BY DEF Lost, Idle
<1>5. ASSUME NEW ok
      PROVE  /\ NextTarget(b, ok).packet = exec[b].packet
             /\ "packet" \in DOMAIN NextTarget(b, ok)
  BY <1>1 DEF NextTarget
<1> QED BY <1>2, <1>3, <1>4, <1>5

\* A batch goes on about the packet it was handed.
Onward(b) == \E e2 : Become(b, e2) /\ e2.packet = exec[b].packet

\* Removing the broker container is such a step, whatever comes of it.
LEMMA RemovalOnward ==
    ASSUME NEW b \in Batches, NEW next, NEW failed, NEW raised,
           RemoveBroker(b, next, failed, raised),
           NEW p, p = exec[b].packet, next.packet = p, "packet" \in DOMAIN next,
           failed.packet = p, "packet" \in DOMAIN failed, raised.packet = p
    PROVE  Onward(b)
<1>1. CASE Become(b, [next EXCEPT !.removed = TRUE])
  <2>1. [next EXCEPT !.removed = TRUE].packet = exec[b].packet
    OBVIOUS
  <2> QED BY <1>1, <2>1, Zenon DEF Onward
<1>2. CASE Become(b, [failed EXCEPT !.removed = TRUE, !.dirty = TRUE])
  <2>1. [failed EXCEPT !.removed = TRUE, !.dirty = TRUE].packet = exec[b].packet
    OBVIOUS
  <2> QED BY <1>2, <2>1, Zenon DEF Onward
<1>3. CASE Become(b, raised)
  BY <1>3, Zenon DEF Onward
<1> QED BY <1>1, <1>2, <1>3, Zenon DEF RemoveBroker

\* The state after a call that ended with answer a.
Answered(b, a, slow) ==
    [exec[b] EXCEPT !.pc = "remove", !.attempted = TRUE,
                    !.run[Role(b)].answer = a, !.run[Role(b)].slow = slow]
Interrupted(b) == [Raise(b) EXCEPT !.attempted = TRUE]

\* Every command of a batch is such a step, of a batch that runs.
LEMMA ExecuteBatchOnward ==
    ASSUME BrokerInv, NEW b \in Batches, ExecuteBatch(b)
    PROVE  Onward(b) /\ exec[b].pc \notin Ended \cup {"idle"}
<1>1. PICK e : e = exec[b]
  OBVIOUS
<1>2. ExecShape(e) /\ "packet" \in DOMAIN e
  BY <1>1, OwnInv DEF ExecShape
<1>3. /\ Raise(b).packet = e.packet /\ "packet" \in DOMAIN Raise(b)
      /\ \A argvs, pc : /\ Record(b, argvs, pc).packet = e.packet
                        /\ "packet" \in DOMAIN Record(b, argvs, pc)
      /\ \A pc : Lost(b, pc).packet = e.packet
      /\ \A ok : /\ NextTarget(b, ok).packet = e.packet
                 /\ "packet" \in DOMAIN NextTarget(b, ok)
  BY <1>1, <1>2, StatesKeepPacket
<1>4. ASSUME Become(b, Raise(b)) \/ \E pc : Become(b, Lost(b, pc))
      PROVE  Onward(b)
  BY <1>1, <1>3, <1>4, Zenon DEF Onward
<1>5. ASSUME NEW argvs, NEW pc, Become(b, Record(b, argvs, pc)) PROVE Onward(b)
  BY <1>1, <1>3, <1>5, Zenon DEF Onward
<1>6. CASE Probe(b)
  <2>1. PICK host : Become(b, IF ProbeHolds(host, Binding)
                              THEN [exec[b] EXCEPT !.pre = host, !.pc = "preflight"]
                              ELSE Lost(b, "failed"))
    BY <1>6, Zenon DEF Probe
  <2>2. Onward(b)
    <3>1. PICK moved, lost : /\ moved = [exec[b] EXCEPT !.pre = host, !.pc = "preflight"]
                             /\ lost = Lost(b, "failed")
      OBVIOUS
    <3>2. PICK st : st = IF ProbeHolds(host, Binding) THEN moved ELSE lost
      OBVIOUS
    <3>3. moved.packet = e.packet /\ lost.packet = e.packet
      BY <1>1, <1>2, <1>3, <3>1
    <3>4. st.packet = e.packet
      BY <3>2, <3>3, Zenon
    <3>5. Become(b, st)
      BY <2>1, <3>1, <3>2, Zenon
    <3> QED BY <1>1, <3>4, <3>5, Zenon DEF Onward
  <2> QED BY <1>6, <2>2 DEF Probe, Ended
<1>7. CASE Preflight(b)
  <2>1. Onward(b)
    BY <1>4, <1>5, <1>7, Zenon DEF Preflight
  <2> QED BY <1>7, <2>1 DEF Preflight, Ended
<1>8. CASE Create(b)
  <2>1. PICK kind : kind = CreateOrder[exec[b].at]
    OBVIOUS
  <2>2. PICK ok, raised :
          /\ ok = [exec[b] EXCEPT !.created = @ \cup {kind},
                          !.run[Role(b)].log = Append(@, CreateArgv(kind)),
                          !.pc = IF exec[b].at = 3 THEN "connect" ELSE "create",
                          !.at = IF exec[b].at = 3 THEN 1 ELSE @ + 1]
          /\ raised = [Raise(b) EXCEPT !.created = FlagBefore(b, kind)]
    OBVIOUS
  <2>3. Become(b, ok) \/ Become(b, raised)
    BY <1>8, <2>1, <2>2, Zenon DEF Create
  <2>4. ok.packet = e.packet
    BY <1>1, <1>2, <2>2
  <2>5. raised.packet = e.packet
    BY <1>3, <2>2
  <2>6. Onward(b)
    BY <1>1, <2>3, <2>4, <2>5, Zenon DEF Onward
  <2> QED BY <1>8, <2>6 DEF Create, Ended
<1>9. CASE Connect(b)
  <2>1. Onward(b)
    BY <1>4, <1>5, <1>9, Zenon DEF Connect
  <2> QED BY <1>9, <2>1 DEF Connect, Ended
<1>10. CASE Inspect(b)
  <2>1. PICK st : st = [Record(b, InspectArgvs, "reserve")
                          EXCEPT !.run[Role(b)].before = Found(b)]
    OBVIOUS
  <2>2. st.packet = e.packet
    BY <1>3, <2>1
  <2>3. Become(b, st) \/ Become(b, Raise(b))
    BY <1>10, <2>1, Zenon DEF Inspect
  <2>4. Onward(b)
    BY <1>1, <1>4, <2>2, <2>3, Zenon DEF Onward
  <2> QED BY <1>10, <2>4 DEF Inspect, Ended
<1>11. CASE InspectAgain(b)
  <2>1. PICK st : st = [Record(b, InspectArgvs, "cleanup")
                          EXCEPT !.run[Role(b)].after = Found(b)]
    OBVIOUS
  <2>2. st.packet = e.packet
    BY <1>3, <2>1
  <2>3. Become(b, st) \/ Become(b, Raise(b))
    BY <1>11, <2>1, Zenon DEF InspectAgain
  <2>4. Onward(b)
    BY <1>1, <1>4, <2>2, <2>3, Zenon DEF Onward
  <2> QED BY <1>11, <2>4 DEF InspectAgain, Ended
<1>12. CASE Reserve(b)
  <2>1. PICK st : st = [exec[b] EXCEPT !.run[Role(b)].held = Rows(b) \cup {Row(b)},
                                       !.pc = "call"]
    OBVIOUS
  <2>2. st.packet = e.packet
    BY <1>1, <1>2, <2>1
  <2>3. Become(b, st) \/ Become(b, Raise(b))
    BY <1>12, <2>1, Zenon DEF Reserve
  <2>4. Onward(b)
    BY <1>1, <1>4, <2>2, <2>3, Zenon DEF Onward
  <2> QED BY <1>12, <2>4 DEF Reserve, Ended
<1>13. CASE Call(b)
  <2>1. ASSUME NEW a, NEW slow PROVE Answered(b, a, slow).packet = e.packet
    BY <1>1, <1>2 DEF Answered
  <2>2. Interrupted(b).packet = e.packet
    BY <1>3 DEF Interrupted
  <2>3. ASSUME Become(b, [Raise(b) EXCEPT !.attempted = TRUE])
        PROVE  Onward(b)
    <3>1. Become(b, Interrupted(b))
      BY <2>3, Zenon DEF Interrupted
    <3> QED BY <1>1, <2>2, <3>1, Zenon DEF Onward
  <2>4. ASSUME \E a, slow :
                 Become(b, [exec[b] EXCEPT !.pc = "remove", !.attempted = TRUE,
                            !.run[Role(b)].answer = a, !.run[Role(b)].slow = slow])
        PROVE  Onward(b)
    <3>1. PICK a, slow : Become(b, [exec[b] EXCEPT !.pc = "remove", !.attempted = TRUE,
                            !.run[Role(b)].answer = a, !.run[Role(b)].slow = slow])
      BY <2>4, Zenon
    <3>2. Become(b, Answered(b, a, slow))
      BY <3>1, Zenon DEF Answered
    <3> QED BY <1>1, <2>1, <3>2, Zenon DEF Onward
  <2>5. \/ \E a, slow : Become(b, [exec[b] EXCEPT !.pc = "remove", !.attempted = TRUE,
                          !.run[Role(b)].answer = a, !.run[Role(b)].slow = slow])
        \/ Become(b, [Raise(b) EXCEPT !.attempted = TRUE])
    BY <1>13, Zenon DEF Call
  <2>6. Onward(b)
    BY <2>3, <2>4, <2>5, Zenon
  <2>7. exec[b].pc = "call"
    BY <1>13, Zenon DEF Call
  <2> QED BY <2>6, <2>7 DEF Ended
<1>14. CASE Remove(b)
  <2>1. PICK next : next = IF exec[b].run[Role(b)].answer = "error" THEN Raise(b)
                           ELSE Record(b, BrokerArgvs, "post")
    OBVIOUS
  <2>2. next.packet = e.packet /\ "packet" \in DOMAIN next
    BY <1>3, <2>1, Zenon
  <2>3. RemoveBroker(b, next, Raise(b), Raise(b))
    BY <1>14, <2>1, Zenon DEF Remove
  <2>4. Onward(b)
    BY <1>1, <1>3, <2>2, <2>3, RemovalOnward
  <2> QED BY <1>14, <2>4 DEF Remove, Ended
<1>15. CASE CleanupCall(b)
  <2>1. PICK unclean : unclean = [exec[b] EXCEPT !.clean = FALSE]
    OBVIOUS
  <2>2. PICK raised : raised = [unclean EXCEPT !.removed = TRUE, !.dirty = TRUE]
    OBVIOUS
  <2>3. unclean.packet = e.packet /\ "packet" \in DOMAIN unclean
    BY <1>1, <1>2, <2>1
  <2>4. raised.packet = e.packet
    BY <2>2, <2>3
  <2>5. RemoveBroker(b, e, unclean, raised)
    BY <1>1, <1>15, <2>1, <2>2, Zenon DEF CleanupCall
  <2>6. Onward(b)
    BY <1>1, <1>2, <2>3, <2>4, <2>5, RemovalOnward
  <2> QED BY <1>15, <2>6 DEF CleanupCall, Ended
<1>16. CASE Cleanup(b)
  <2>1. ASSUME NEW ok, Become(b, NextTarget(b, ok)) PROVE Onward(b)
    BY <1>1, <1>3, <2>1, Zenon DEF Onward
  <2>2. PICK st : st = [NextTarget(b, TRUE) EXCEPT
              !.run[Role(b)].log =
                @ \o <<InspectArgv(CleanupOrder[exec[b].at]),
                       RemoveArgv(CleanupOrder[exec[b].at])>>,
              !.run[Role(b)].removed[CleanupOrder[exec[b].at]] =
                runtime[Name(b, CleanupOrder[exec[b].at])]]
    OBVIOUS
  <2>3. st.packet = e.packet
    BY <1>3, <2>2
  <2>4. Become(b, st) \/ \E ok : Become(b, NextTarget(b, ok))
    BY <1>16, <2>2, Zenon DEF Cleanup
  <2>5. Onward(b)
    BY <1>1, <2>1, <2>3, <2>4, Zenon DEF Onward
  <2> QED BY <1>16, <2>5 DEF Cleanup, Ended
<1>17. CASE Absent(b)
  <2>1. Onward(b)
    BY <1>4, <1>5, <1>17, Zenon DEF Absent
  <2> QED BY <1>17, <2>1 DEF Absent, Ended
<1>18. CASE Reprobe(b)
  <2>1. PICK next : next =
          IF exec[b].role = 2 THEN [exec[b] EXCEPT !.pc = "measure"]
          ELSE [exec[b] EXCEPT !.pc = "preflight", !.role = 2, !.created = {},
                               !.attempted = FALSE, !.removed = FALSE]
    OBVIOUS
  <2>2. next.packet = e.packet /\ "packet" \in DOMAIN next
    BY <1>1, <1>2, <2>1
  <2>3. ASSUME NEW host, Become(b, [next EXCEPT !.run[Role(b)].post = host])
        PROVE  Onward(b)
    <3>1. PICK st : st = [next EXCEPT !.run[Role(b)].post = host]
      OBVIOUS
    <3>2. st.packet = e.packet
      BY <2>2, <3>1
    <3> QED BY <1>1, <2>3, <3>1, <3>2, Zenon DEF Onward
  <2>4. Onward(b)
    BY <1>4, <1>18, <2>1, <2>3, Zenon DEF Reprobe
  <2> QED BY <1>18, <2>4 DEF Reprobe, Ended
<1>19. CASE Measure(b)
  <2>1. PICK st : st = [exec[b] EXCEPT !.pc = "done", !.final = Rows(b)]
    OBVIOUS
  <2>2. st.packet = e.packet
    BY <1>1, <1>2, <2>1
  <2>3. Become(b, st) \/ \E pc : Become(b, Lost(b, pc))
    BY <1>19, <2>1, Zenon DEF Measure
  <2>4. Onward(b)
    BY <1>1, <1>4, <2>2, <2>3, Zenon DEF Onward
  <2> QED BY <1>19, <2>4 DEF Measure, Ended
<1> QED BY <1>6, <1>7, <1>8, <1>9, <1>10, <1>11, <1>12, <1>13, <1>14, <1>15,
           <1>16, <1>17, <1>18, <1>19, Zenon DEF ExecuteBatch, ExecuteOne

-----------------------------------------------------------------------------
(* The driver's steps *)

\* A step that leaves the drivers, their replies and the executors alone keeps
\* the drivers' invariant.
LEMMA DriversStutter ==
    ASSUME DriversInv, UNCHANGED <<wf, prepared, finalized, exec>>, clock' \in Nat
    PROVE  DriversInv'
  BY DEF DriversInv, ReviewType, ReviewInv

\* A review starts about the patch a human approved.
LEMMA StartKeeps ==
    ASSUME BrokerInv, DriversInv, NEW w \in Workflows, Start(w)
    PROVE  DriversInv'
<1>1. PICK s, p, f, e : /\ s = wf[w] /\ p = prepared[w] /\ f = finalized[w]
                        /\ e = exec[w]
  OBVIOUS
<1>2. DriverInv(s, w) /\ PreparedInv(p, s, w) /\ FinalizedInv(f, s, w) /\ ExecutorInv(s, e)
  BY <1>1 DEF DriversInv, ReviewInv
<1>3. /\ s.pc = "new" /\ UNCHANGED <<exec, prepared, finalized, clock>>
  BY <1>1 DEF Start, brokerVars
<1>4. PICK c \in Contents :
        wf' = [wf EXCEPT ![w].pc = "prepare",
                         ![w].request = [NoRequest EXCEPT !.wf = w, !.cand = c]]
  BY Zenon DEF Start
<1>5. PICK r : r = [NoRequest EXCEPT !.wf = w, !.cand = c]
  OBVIOUS
<1>6. PICK s2 : s2 = [s EXCEPT !.pc = "prepare", !.request = r]
  OBVIOUS
<1>7. wf = [v \in Workflows |-> wf[v]]
  BY DEF DriversInv, ReviewType
<1>8. wf' = [wf EXCEPT ![w] = s2]
  BY <1>1, <1>4, <1>5, <1>6, <1>7, Zenon
<1>9. /\ DriverShape(s2) /\ s2.pc = "prepare" /\ s2.request = r
      /\ s2.results = <<>> /\ IsSequence(s2.results)
  <2>1. s = New /\ DriverShape(s) /\ IsSequence(s.results) /\ New.results = <<>>
    BY <1>2, <1>3 DEF DriverInv, New
  <2> QED BY <1>6, <2>1 DEF DriverShape
<1>10. /\ RequestShape(r) /\ r.wf = w /\ r.seq = 1 /\ r.cand = c
  BY <1>5 DEF NoRequest, RequestShape
<1>11. DriverInv(s2, w)
  <2>1. ForPhase(r, w, 1, c)
    BY <1>10 DEF ForPhase
  <2>2. Len(s2.results) = 0 /\ DOMAIN s2.results = {}
    BY <1>9
  <2>3. Chained(s2.results, w, c)
    BY <2>2 DEF Chained
  <2> QED BY <1>4, <1>9, <1>10, <2>1, <2>2, <2>3 DEF DriverInv, PayloadInv, Pcs
<1>12. PreparedInv(p, s2, w) /\ FinalizedInv(f, s2, w)
  BY <1>2, <1>3 DEF PreparedInv, FinalizedInv
<1>13. ExecutorInv(s2, e)
  <2>1. e.pc = "idle" /\ Len(s2.results) = 0
    BY <1>2, <1>3, <1>9 DEF ExecutorInv
  <2> QED BY <1>9, <2>1 DEF ExecutorInv
<1>14. /\ prepared' = [prepared EXCEPT ![w] = p] /\ finalized' = [finalized EXCEPT ![w] = f]
       /\ exec = [b \in Batches |-> exec[b]] /\ exec' = [exec EXCEPT ![w] = e]
  <2>1. /\ prepared = [v \in Workflows |-> prepared[v]]
        /\ finalized = [v \in Workflows |-> finalized[v]]
    BY DEF DriversInv, ReviewType
  <2>2. exec = [b \in Batches |-> exec[b]]
    BY DEF BrokerInv, BrokerType
  <2>3. prepared' = [prepared EXCEPT ![w] = p] /\ finalized' = [finalized EXCEPT ![w] = f]
    BY <1>1, <1>3, <2>1
  <2>4. exec' = [exec EXCEPT ![w] = e]
    BY <1>1, <1>3, <2>2 DEF Workflows
  <2> QED BY <2>2, <2>3, <2>4
<1> QED BY <1>3, <1>8, <1>11, <1>12, <1>13, <1>14, SettleReview

\* The first half of the snapshot phase keeps the candidate for the second.
LEMMA PrepareSnapshotKeeps ==
    ASSUME BrokerInv, DriversInv, NEW w \in Workflows, PrepareSnapshot(w)
    PROVE  DriversInv'
<1>1. wf[w].pc = "prepare" /\ UNCHANGED <<exec, prepared, finalized, clock>>
  BY DEF PrepareSnapshot, AtPrepare, brokerVars
<1>2. CASE Fail(w)
  BY <1>1, <1>2, FailSettles DEF Stopped
<1>3. CASE wf' = [wf EXCEPT ![w].pc = "materialise", ![w].payload = work.head]
  <2>1. PICK s, head, pc : s = wf[w] /\ head = work.head /\ pc = "materialise"
    OBVIOUS
  <2>2. PICK s2 : s2 = [s EXCEPT !.pc = pc, !.payload = head]
    OBVIOUS
  <2>3. wf = [v \in Workflows |-> wf[v]] /\ DriverShape(s)
    BY <2>1 DEF DriversInv, ReviewType, ReviewInv, DriverInv
  <2>4. wf' = [wf EXCEPT ![w] = s2]
    BY <1>3, <2>1, <2>2, <2>3, Zenon
  <2>5. Goes(s, s2, pc)
    BY <2>2, <2>3 DEF Goes, DriverShape
  <2>6. PayloadInv(s2, w)
    BY <2>1, <2>5 DEF PayloadInv, Goes
  <2>7. /\ pc \in {"materialise", "recheck", "external", "finalize", "failed"}
        /\ pc # "finalize" /\ s.pc = "prepare" /\ s.pc \notin Stopped
    BY <1>1, <2>1 DEF Stopped
  <2>8. s.request.seq = 1
    <3>1. Phase(w) = "snapshot"
      BY DEF PrepareSnapshot, AtPrepare
    <3> QED BY <2>1, <2>7, <3>1, Running, PhasesAre
  <2> QED BY <1>1, <2>1, <2>4, <2>5, <2>6, <2>7, <2>8, GoesSettles
<1> QED BY <1>2, <1>3, Zenon DEF PrepareSnapshot

\* So does materialising it.
LEMMA MaterialiseKeeps ==
    ASSUME BrokerInv, DriversInv, NEW w \in Workflows, Materialise(w)
    PROVE  DriversInv'
<1>1. wf[w].pc = "materialise" /\ UNCHANGED <<exec, prepared, finalized, clock>>
  BY DEF Materialise, brokerVars
<1>2. CASE Fail(w)
  BY <1>1, <1>2, FailSettles DEF Stopped
<1>3. CASE wf' = [wf EXCEPT ![w].pc = "recheck"]
  <2>1. PICK s, pc : s = wf[w] /\ pc = "recheck"
    OBVIOUS
  <2>2. PICK s2 : s2 = [s EXCEPT !.pc = pc]
    OBVIOUS
  <2>3. wf = [v \in Workflows |-> wf[v]] /\ DriverShape(s)
    BY <2>1 DEF DriversInv, ReviewType, ReviewInv, DriverInv
  <2>4. wf' = [wf EXCEPT ![w] = s2]
    BY <1>3, <2>1, <2>2, <2>3, Zenon
  <2>5. Goes(s, s2, pc)
    BY <2>2, <2>3 DEF Goes, DriverShape
  <2>6. PayloadInv(s2, w)
    BY <2>1, <2>5 DEF PayloadInv, Goes
  <2>7. /\ pc \in {"materialise", "recheck", "external", "finalize", "failed"}
        /\ pc # "finalize" /\ s.pc = "materialise" /\ s.pc \notin Stopped
    BY <1>1, <2>1 DEF Stopped
  <2>8. s.request.seq = 1
    BY <2>1, <2>7 DEF DriversInv, ReviewInv, DriverInv
  <2> QED BY <1>1, <2>1, <2>4, <2>5, <2>6, <2>7, <2>8, GoesSettles
<1> QED BY <1>2, <1>3, Zenon DEF Materialise

\* Rechecked, it is what the snapshot phase prepares.
LEMMA RecheckSnapshotKeeps ==
    ASSUME BrokerInv, DriversInv, NEW w \in Workflows, RecheckSnapshot(w)
    PROVE  DriversInv'
<1>1. /\ wf[w].pc = "recheck" /\ UNCHANGED <<exec, finalized, clock>>
  BY DEF RecheckSnapshot
<1>2. CASE Fail(w) /\ UNCHANGED prepared
  BY <1>1, <1>2, FailSettles DEF Stopped
<1>3. CASE \E payload : TakePrepared(w, payload)
  <2>1. PICK payload : TakePrepared(w, payload)
    BY <1>3
  <2>2. wf[w].request.seq = 1
    BY <1>1 DEF DriversInv, ReviewInv, DriverInv
  <2>3. Prepares(w, wf[w].request.seq, wf[w].request.cand, payload)
    BY <2>2 DEF Prepares
  <2> QED BY <1>1, <2>1, <2>3, TakePreparedKeeps
<1> QED BY <1>2, <1>3, Zenon DEF RecheckSnapshot

\* What a phase that reads frozen artifacts prepares is about its candidate.
LEMMA PrepareFrozenKeeps ==
    ASSUME BrokerInv, DriversInv, NEW w \in Workflows, PrepareFrozen(w)
    PROVE  DriversInv'
<1>1. /\ wf[w].pc = "prepare" /\ UNCHANGED <<exec, finalized, clock>>
  BY Zenon DEF PrepareFrozen
<1>2. PICK s, i, c : s = wf[w] /\ i = s.request.seq /\ c = s.request.cand
  OBVIOUS
<1>3. /\ i \in 1..7 /\ ForPhase(s.request, w, i, c) /\ Phase(w) = PhaseOrder[i]
  BY <1>1, <1>2, Running
<1>4. CASE Fail(w) /\ UNCHANGED prepared
  BY <1>1, <1>4, FailSettles DEF Stopped
<1>5. ASSUME NEW payload, TakePrepared(w, payload), Prepares(w, i, c, payload)
      PROVE  DriversInv'
  BY <1>1, <1>2, <1>5, TakePreparedKeeps
<1>6. CASE Phase(w) = "red-snapshot" /\ TakePrepared(w, PrepareRed(w))
  <2>1. i = 2
    BY <1>3, <1>6, PhasesAre
  <2> QED BY <1>5, <1>6, <2>1 DEF Prepares
<1>7. CASE Phase(w) = "offline" /\ TakePrepared(w, PrepareOffline(w))
  <2>1. i = 3
    BY <1>3, <1>7, PhasesAre
  <2> QED BY <1>5, <1>7, <2>1 DEF Prepares
<1>8. CASE Phase(w) = "review-packet" /\ TakePrepared(w, PreparePacket(w))
  <2>1. i = 4
    BY <1>3, <1>8, PhasesAre
  <2>2. PreparePacket(w)[2] = c
    BY <1>2, <1>3, <2>1 DEF PreparePacket, PacketOf, ForPhase
  <2> QED BY <1>5, <1>8, <2>1, <2>2 DEF Prepares
<1>9. CASE Phase(w) = "broker" /\ TakePrepared(w, PrepareBroker(w))
  <2>1. i = 5
    BY <1>3, <1>9, PhasesAre
  <2>2. PrepareBroker(w)[3] = c
    BY <1>2, <1>3, <2>1 DEF PrepareBroker, PreparedBatch, ForPhase
  <2> QED BY <1>5, <1>9, <2>1, <2>2 DEF Prepares
<1>10. CASE Phase(w) = "sign" /\ TakePrepared(w, PrepareSign(w))
  <2>1. i = 6
    BY <1>3, <1>10, PhasesAre
  <2>2. PrepareSign(w)[2] = w
    BY DEF PrepareSign
  <2> QED BY <1>5, <1>10, <2>1, <2>2 DEF Prepares
<1>11. \/ Phase(w) \in {"red-snapshot", "offline", "review-packet", "broker", "sign"}
       \/ Fail(w) /\ UNCHANGED prepared
  <2>1. Phase(w) \notin {"snapshot", "attested-judge"}
    BY Zenon DEF PrepareFrozen
  <2> QED BY <1>3, <2>1, PhasesAre
<1>12. \/ Fail(w) /\ UNCHANGED prepared
       \/ Phase(w) = "red-snapshot" /\ TakePrepared(w, PrepareRed(w))
       \/ Phase(w) = "offline" /\ TakePrepared(w, PrepareOffline(w))
       \/ Phase(w) = "review-packet" /\ TakePrepared(w, PreparePacket(w))
       \/ Phase(w) = "broker" /\ TakePrepared(w, PrepareBroker(w))
       \/ Phase(w) = "sign" /\ TakePrepared(w, PrepareSign(w))
  BY <1>11 DEF PrepareFrozen
<1> QED BY <1>4, <1>6, <1>7, <1>8, <1>9, <1>10, <1>12

\* What the judge prepares goes to the driver as the others' do.
LEMMA PrepareJudgeKeeps ==
    ASSUME BrokerInv, DriversInv, NEW w \in Workflows, PrepareJudge(w)
    PROVE  DriversInv'
<1>1. /\ wf[w].pc = "prepare" /\ Phase(w) = "attested-judge"
      /\ UNCHANGED <<exec, finalized, clock>>
  BY Zenon DEF PrepareJudge, AtPrepare
<1>2. CASE Fail(w) /\ UNCHANGED prepared
  BY <1>1, <1>2, FailSettles DEF Stopped
<1>3. CASE \E payload : TakePrepared(w, payload)
  <2>1. PICK payload : TakePrepared(w, payload)
    BY <1>3
  <2>2. wf[w].request.seq = 7
    BY <1>1, Running, PhasesAre
  <2>3. Prepares(w, wf[w].request.seq, wf[w].request.cand, payload)
    BY <2>2 DEF Prepares
  <2> QED BY <1>1, <2>1, <2>3, TakePreparedKeeps
<1> QED BY <1>2, <1>3, Zenon DEF PrepareJudge

\* The evidence of the offline runs goes to the phase that planned them.
LEMMA ExecuteOfflineKeeps ==
    ASSUME BrokerInv, DriversInv, NEW w \in Workflows, ExecuteOffline(w)
    PROVE  DriversInv'
<1>1. /\ wf[w].pc = "external" /\ Phase(w) = "offline"
      /\ UNCHANGED <<exec, prepared, finalized, clock>>
  BY Zenon DEF ExecuteOffline
<1>2. CASE Fail(w)
  BY <1>1, <1>2, FailSettles DEF Stopped
<1>3. CASE \E ev : wf' = [wf EXCEPT ![w].pc = "finalize", ![w].evidence = ev]
  <2>1. PICK ev : wf' = [wf EXCEPT ![w].pc = "finalize", ![w].evidence = ev]
    BY <1>3, Zenon
  <2>2. PICK s, pc : s = wf[w] /\ pc = "finalize"
    OBVIOUS
  <2>3. PICK s2 : s2 = [s EXCEPT !.pc = pc, !.evidence = ev]
    OBVIOUS
  <2>4. wf = [v \in Workflows |-> wf[v]] /\ DriverShape(s)
    BY <2>2 DEF DriversInv, ReviewType, ReviewInv, DriverInv
  <2>5. wf' = [wf EXCEPT ![w] = s2]
    BY <2>1, <2>2, <2>3, <2>4, Zenon
  <2>6. Goes(s, s2, pc)
    BY <2>3, <2>4 DEF Goes, DriverShape
  <2>7. s.request.seq = 3
    BY <1>1, <2>2, Running, PhasesAre
  <2>8. PayloadInv(s2, w)
    BY <2>2, <2>6, <2>7 DEF PayloadInv, Goes
  <2>9. /\ pc \in {"materialise", "recheck", "external", "finalize", "failed"}
        /\ pc \notin {"materialise", "recheck"} /\ s.pc \notin Stopped
    BY <1>1, <2>2 DEF Stopped
  <2>10. ~(pc = "finalize" /\ s.request.seq = 5)
    BY <2>7
  <2> QED BY <1>1, <2>2, <2>5, <2>6, <2>8, <2>9, <2>10, GoesSettles
<1>4. ASSUME ~Fail(w)
      PROVE  \E ev : wf' = [wf EXCEPT ![w].pc = "finalize", ![w].evidence = ev]
  <2>1. PICK exits \in Outcomes :
          wf' = [wf EXCEPT ![w].pc = "finalize",
                           ![w].evidence = <<"runs", wf[w].payload,
             [r \in RunIds |-> RunEvidence(wf[w].payload[3][r], exits[r])]>>]
    BY <1>4, Zenon DEF ExecuteOffline, RunBroken
  <2>2. PICK ev : ev = <<"runs", wf[w].payload,
             [r \in RunIds |-> RunEvidence(wf[w].payload[3][r], exits[r])]>>
    OBVIOUS
  <2>3. wf' = [wf EXCEPT ![w].pc = "finalize", ![w].evidence = ev]
    BY <2>1, <2>2, Zenon
  <2> QED BY <2>3, Zenon
<1> QED BY <1>2, <1>3, <1>4, Zenon

\* The broker phase is finalized when its executor is done.
LEMMA EndBrokerKeeps ==
    ASSUME BrokerInv, DriversInv, NEW w \in Workflows, EndBroker(w)
    PROVE  DriversInv'
<1>1. /\ wf[w].pc = "external" /\ UNCHANGED <<exec, prepared, finalized, clock>>
  BY Zenon DEF EndBroker, brokerVars
<1>2. CASE Fail(w)
  BY <1>1, <1>2, FailSettles DEF Stopped
<1>3. CASE /\ exec[w].pc = "done"
           /\ \E ev : wf' = [wf EXCEPT ![w].pc = "finalize", ![w].evidence = ev]
  <2>1. PICK ev : wf' = [wf EXCEPT ![w].pc = "finalize", ![w].evidence = ev]
    BY <1>3, Zenon
  <2>2. PICK s, pc : s = wf[w] /\ pc = "finalize"
    OBVIOUS
  <2>3. PICK s2 : s2 = [s EXCEPT !.pc = pc, !.evidence = ev]
    OBVIOUS
  <2>4. wf = [v \in Workflows |-> wf[v]] /\ DriverShape(s)
    BY <2>2 DEF DriversInv, ReviewType, ReviewInv, DriverInv
  <2>5. wf' = [wf EXCEPT ![w] = s2]
    BY <2>1, <2>2, <2>3, <2>4, Zenon
  <2>6. Goes(s, s2, pc)
    BY <2>3, <2>4 DEF Goes, DriverShape
  <2>7. s.request.seq = 5
    <3>1. Phase(w) = "broker"
      BY DEF EndBroker
    <3> QED BY <1>1, <2>2, <3>1, Running, PhasesAre
  <2>8. PayloadInv(s2, w)
    BY <2>2, <2>6, <2>7 DEF PayloadInv, Goes
  <2>9. /\ pc \in {"materialise", "recheck", "external", "finalize", "failed"}
        /\ pc \notin {"materialise", "recheck"} /\ s.pc \notin Stopped
    BY <1>1, <2>2 DEF Stopped
  <2> QED BY <1>1, <1>3, <2>2, <2>5, <2>6, <2>7, <2>8, <2>9, GoesSettles
<1> QED BY <1>2, <1>3, Zenon DEF EndBroker

\* The artifact of a phase that ran outside is about its candidate.
LEMMA FinalizeOutsideKeeps ==
    ASSUME BrokerInv, DriversInv, NEW w \in Workflows, FinalizeOutside(w)
    PROVE  DriversInv'
<1>1. /\ wf[w].pc = "finalize" /\ Phase(w) \in External
      /\ UNCHANGED <<exec, prepared, clock>>
  BY Zenon DEF FinalizeOutside
<1>2. CASE Fail(w) /\ UNCHANGED finalized
  BY <1>1, <1>2, FailSettles DEF Stopped
<1>3. PICK s, i, c : s = wf[w] /\ i = s.request.seq /\ c = s.request.cand
  OBVIOUS
<1>4. /\ i \in 1..7 /\ ForPhase(s.request, w, i, c) /\ Phase(w) = PhaseOrder[i]
  BY <1>1, <1>3, Running
<1>5. CASE Phase(w) = "offline" /\ TakeFinalized(w, OfflineArtifacts(w))
  <2>1. i = 3
    BY <1>4, <1>5, PhasesAre
  <2>2. OfflineArtifacts(w)[2] = c
    BY <1>3, <1>4, <2>1 DEF OfflineArtifacts, ForPhase
  <2>3. About(w, i, c, OfflineArtifacts(w))
    BY <2>1, <2>2 DEF About
  <2> QED BY <1>1, <1>3, <1>5, <2>3, TakeFinalizedKeeps
<1>6. CASE Phase(w) = "broker" /\ TakeFinalized(w, BrokerArtifacts(w))
  <2>1. i = 5
    BY <1>4, <1>6, PhasesAre
  <2>2. BrokerArtifacts(w)[2] = c
    BY <1>3, <1>4, <2>1 DEF BrokerArtifacts, ForPhase
  <2>3. About(w, i, c, BrokerArtifacts(w))
    BY <2>1, <2>2 DEF About
  <2> QED BY <1>1, <1>3, <1>6, <2>3, TakeFinalizedKeeps
<1>7. \/ Fail(w) /\ UNCHANGED finalized
      \/ Phase(w) = "offline" /\ TakeFinalized(w, OfflineArtifacts(w))
      \/ Phase(w) = "broker" /\ TakeFinalized(w, BrokerArtifacts(w))
  <2>1. Phase(w) # "offline" => Phase(w) = "broker"
    BY <1>1 DEF External
  <2>2. \/ Fail(w) /\ UNCHANGED finalized
        \/ TakeFinalized(w, IF Phase(w) = "offline" THEN OfflineArtifacts(w)
                            ELSE BrokerArtifacts(w))
    BY Zenon DEF FinalizeOutside
  <2> QED BY <2>1, <2>2
<1> QED BY <1>2, <1>5, <1>6, <1>7

\* So is that of a phase whose evidence is what it prepared: the snapshot is
\* the candidate's, RED and the packet are about the candidate snapshot, and
\* what is signed is about the review.
LEMMA FinalizeInsideKeeps ==
    ASSUME BrokerInv, DriversInv, NEW w \in Workflows, FinalizeInside(w)
    PROVE  DriversInv'
<1>1. /\ wf[w].pc = "finalize" /\ Phase(w) \notin External
      /\ UNCHANGED <<exec, prepared, clock>>
  BY Zenon DEF FinalizeInside
<1>2. CASE Fail(w) /\ UNCHANGED finalized
  BY <1>1, <1>2, FailSettles DEF Stopped
<1>3. CASE /\ Phase(w) = "snapshot" => SnapshotMeasured(w)
           /\ Phase(w) = "red-snapshot" => RedMeasured(w)
           /\ TakeFinalized(w, wf[w].payload)
  <2>1. PICK s, i, c : s = wf[w] /\ i = s.request.seq /\ c = s.request.cand
    OBVIOUS
  <2>2. /\ i \in 1..7 /\ ForPhase(s.request, w, i, c) /\ Phase(w) = PhaseOrder[i]
    BY <1>1, <2>1, Running
  <2>3. i # 3 /\ i # 5
    BY <1>1, <2>2, PhasesAre DEF External
  <2>4. PayloadInv(s, w)
    BY <2>1 DEF DriversInv, ReviewInv, DriverInv
  <2>5. i = 1 => s.payload[2] = c
    BY <1>3, <2>1, <2>2, PhasesAre DEF SnapshotMeasured, SnapshotPayloadParses
  <2>6. i = 2 => s.payload[2] = c
    BY <1>3, <2>1, <2>2, PhasesAre DEF RedMeasured, RedPayloadParses, ForPhase
  <2>7. /\ i = 4 => s.payload[2] = c
        /\ i = 6 => s.payload[2] = w
    BY <1>1, <2>1, <2>4 DEF PayloadInv
  <2>8. About(w, i, c, s.payload)
    BY <2>2, <2>3, <2>5, <2>6, <2>7 DEF About
  <2> QED BY <1>1, <1>3, <2>1, <2>8, TakeFinalizedKeeps
<1> QED BY <1>2, <1>3, Zenon DEF FinalizeInside

\* A step of the executor of a review that leaves its driver where it is, or
\* ends it, keeps the drivers' invariant.
LEMMA ExecutorSettles ==
    ASSUME BrokerInv, DriversInv, NEW w \in Workflows,
           NEW e2, exec' = [exec EXCEPT ![w] = e2],
           NEW s2, wf' = [wf EXCEPT ![w] = s2],
           DriverInv(s2, w), PreparedInv(prepared[w], s2, w),
           FinalizedInv(finalized[w], s2, w), ExecutorInv(s2, e2),
           UNCHANGED <<prepared, finalized, clock>>
    PROVE  DriversInv'
<1>1. PICK p, f : p = prepared[w] /\ f = finalized[w]
  OBVIOUS
<1>2. /\ prepared = [v \in Workflows |-> prepared[v]]
      /\ finalized = [v \in Workflows |-> finalized[v]]
  BY DEF DriversInv, ReviewType
<1>3. prepared' = [prepared EXCEPT ![w] = p] /\ finalized' = [finalized EXCEPT ![w] = f]
  BY <1>1, <1>2
<1>4. exec = [b \in Batches |-> exec[b]]
  BY DEF BrokerInv, BrokerType
<1>5. PreparedInv(p, s2, w) /\ FinalizedInv(f, s2, w)
  BY <1>1
<1> QED BY <1>3, <1>4, <1>5, SettleReview

\* The driver stays: the executor's step is about the candidate's packet, and
\* one that is done takes none.
LEMMA ExecutorAlone ==
    ASSUME BrokerInv, DriversInv, NEW w \in Workflows, NEW s, s = wf[w],
           NEW e2, exec' = [exec EXCEPT ![w] = e2], ExecutorInv(s, e2),
           UNCHANGED <<wf, prepared, finalized, clock>>
    PROVE  DriversInv'
<1>1. /\ DriverInv(s, w) /\ PreparedInv(prepared[w], s, w)
      /\ FinalizedInv(finalized[w], s, w)
  BY DEF DriversInv, ReviewInv
<1>2. wf' = [wf EXCEPT ![w] = s]
  <2>1. wf = [v \in Workflows |-> wf[v]]
    BY DEF DriversInv, ReviewType
  <2> QED BY <2>1
<1> QED BY <1>1, <1>2, ExecutorSettles

\* So a command of its batch keeps the drivers' invariant.
LEMMA BrokerKeeps ==
    ASSUME BrokerInv, DriversInv, NEW w \in Workflows, Broker(w)
    PROVE  BrokerInv' /\ DriversInv'
<1>1. w \in Batches /\ ExecuteBatch(w) /\ UNCHANGED <<wf, prepared, finalized, clock>>
  BY DEF Broker, reviewVars, Workflows
<1>2. BrokerInv'
  BY <1>1, ExecuteBatchKeeps
<1>3. Onward(w) /\ exec[w].pc \notin Ended \cup {"idle"}
  BY <1>1, ExecuteBatchOnward
<1>4. PICK e2 : Become(w, e2) /\ e2.packet = exec[w].packet
  BY <1>3 DEF Onward
<1>5. PICK s : s = wf[w]
  OBVIOUS
<1>6. ExecutorInv(s, exec[w])
  BY <1>5 DEF DriversInv, ReviewInv
<1>7. ExecutorInv(s, e2)
  BY <1>3, <1>4, <1>6 DEF ExecutorInv, Ended
<1>8. exec' = [exec EXCEPT ![w] = e2]
  BY <1>4, Zenon DEF Become
<1>9. DriversInv'
  BY <1>1, <1>5, <1>7, <1>8, ExecutorAlone
<1> QED BY <1>2, <1>9

\* The batch that is handed over is about the candidate of the review.
LEMMA BeginBrokerKeeps ==
    ASSUME BrokerInv, DriversInv, NEW w \in Workflows, BeginBroker(w)
    PROVE  BrokerInv' /\ DriversInv'
<1>1. PICK s, batch : s = wf[w] /\ batch = wf[w].payload
  OBVIOUS
<1>2. /\ s.pc = "external" /\ Phase(w) = "broker" /\ w \in Batches
      /\ UNCHANGED <<wf, prepared, finalized, clock>>
  BY <1>1 DEF BeginBroker, reviewVars, Workflows
<1>3. Begin(w, batch)
  BY <1>1 DEF BeginBroker
<1>4. s.request.seq = 5 /\ s.request.cand \in Packets /\ Len(s.results) = 4
  <2>1. s.request.seq \in 1..7 /\ Phase(w) = PhaseOrder[s.request.seq]
    BY <1>1, <1>2, Running
  <2>2. s.request.seq = 5
    BY <1>2, <2>1, PhasesAre
  <2>3. s.request.cand \in Contents /\ Len(s.results) = s.request.seq - 1
    BY <1>1, <1>2, Running
  <2> QED BY <2>2, <2>3, ReviewAssumption
<1>5. batch[3] = s.request.cand
  BY <1>1, <1>2, <1>4 DEF DriversInv, ReviewInv, DriverInv, PayloadInv
<1>6. BrokerInv'
  BY <1>2, <1>3, <1>4, <1>5, BeginKeeps
<1>7. PICK e, pc : e = exec[w] /\ pc = IF BatchParses(batch) THEN "probe" ELSE "failed"
  OBVIOUS
<1>8. PICK e2 : e2 = [e EXCEPT !.pc = pc, !.packet = batch[3]]
  OBVIOUS
<1>9. exec' = [exec EXCEPT ![w] = e2]
  BY <1>3, <1>7, <1>8, Zenon DEF Begin, Become
<1>10. ExecShape(e) /\ "packet" \in DOMAIN e
  BY <1>2, <1>7, OwnInv DEF ExecShape
<1>11. e2.packet = batch[3]
  BY <1>8, <1>10
<1>12. ExecutorInv(s, e2)
  BY <1>2, <1>4, <1>5, <1>11 DEF ExecutorInv
<1>13. DriversInv'
  BY <1>1, <1>2, <1>9, <1>12, ExecutorAlone
<1> QED BY <1>6, <1>13

\* A copy that fails ends the review.
LEMMA CopyFailsKeeps ==
    ASSUME BrokerInv, DriversInv, NEW w \in Workflows, CopyFails(w)
    PROVE  DriversInv'
<1>1. /\ wf[w].pc \in {"prepare", "finalize"} /\ Fail(w)
      /\ UNCHANGED <<exec, prepared, finalized, clock>>
  BY DEF CopyFails
<1> QED BY <1>1, FailSettles DEF Stopped

\* So does the death of its driver, and of the executor inside it.
LEMMA KillKeeps ==
    ASSUME BrokerInv, DriversInv, NEW w \in Workflows, Kill(w)
    PROVE  BrokerInv' /\ DriversInv'
<1>1. /\ wf[w].pc \notin Stopped /\ Fail(w) /\ w \in Batches
      /\ UNCHANGED <<prepared, finalized, clock>>
  BY DEF Kill, Workflows
<1>2. CASE UNCHANGED <<exec, runtime, ledger, calls, trespass>>
  BY <1>1, <1>2, FailSettles, BrokerStutter
<1>3. CASE Die(w)
  <2>1. BrokerInv'
    BY <1>1, <1>3, DieKeeps
  <2>2. PICK s, p, f, e, pc : /\ s = wf[w] /\ p = prepared[w] /\ f = finalized[w]
                              /\ e = exec[w] /\ pc = "failed"
    OBVIOUS
  <2>3. /\ DriverInv(s, w) /\ PreparedInv(p, s, w) /\ FinalizedInv(f, s, w)
        /\ ExecutorInv(s, e)
    BY <2>2 DEF DriversInv, ReviewInv
  <2>4. PICK s2 : /\ wf' = [wf EXCEPT ![w] = s2] /\ Goes(s, s2, pc)
                  /\ PayloadInv(s2, w)
    BY <1>1, <2>2, FailIs
  <2>5. /\ pc \in {"materialise", "recheck", "external", "finalize", "failed"}
        /\ pc \notin {"materialise", "recheck"} /\ pc # "finalize"
        /\ s.pc \notin Stopped
    BY <1>1, <2>2
  <2>6. DriverInv(s2, w)
    BY <2>3, <2>4, <2>5, GoesKeeps
  <2>7. PreparedInv(p, s2, w) /\ FinalizedInv(f, s2, w)
    BY <2>3, <2>4, <2>5, RepliesKeep
  <2>8. PICK l : l = Lost(w, "crashed")
    OBVIOUS
  <2>9. PICK e2 : e2 = [l EXCEPT !.dirty = TRUE]
    OBVIOUS
  <2>10. exec' = [exec EXCEPT ![w] = e2] /\ e.pc \notin Ended \cup {"idle"}
    BY <1>3, <2>2, <2>8, <2>9, Zenon DEF Die, Become
  <2>11. Emptied(e, l, "crashed", e.dirty)
    BY <1>1, <2>2, <2>8, LostIs
  <2>12. e2.packet = e.packet
    BY <2>9, <2>11 DEF Emptied, ExecShape
  <2>13. ExecutorInv(s2, e2)
    BY <2>2, <2>3, <2>4, <2>10, <2>12 DEF ExecutorInv, Goes, Stopped, Ended
  <2>14. DriversInv'
    BY <1>1, <2>2, <2>4, <2>6, <2>7, <2>10, <2>13, ExecutorSettles
  <2> QED BY <2>1, <2>14
<1> QED BY <1>2, <1>3 DEF Kill

-----------------------------------------------------------------------------
(* The executor's and the drivers' invariant *)

ChainInv == BrokerInv /\ DriversInv

\* Every step of a review keeps both.
LEMMA StepKeepsChain ==
    ASSUME ChainInv, NEW w \in Workflows, Step(w)
    PROVE  ChainInv'
<1>1. BrokerInv /\ DriversInv
  BY DEF ChainInv
<1>2. ASSUME UNCHANGED <<exec, runtime, ledger, calls, trespass>>, DriversInv'
      PROVE  ChainInv'
  BY <1>1, <1>2, BrokerStutter DEF ChainInv
<1>3. CASE PrepareSnapshot(w)
  BY <1>1, <1>2, <1>3, PrepareSnapshotKeeps DEF PrepareSnapshot, brokerVars
<1>4. CASE Materialise(w)
  BY <1>1, <1>2, <1>4, MaterialiseKeeps DEF Materialise, brokerVars
<1>5. CASE RecheckSnapshot(w)
  BY <1>1, <1>2, <1>5, RecheckSnapshotKeeps, Zenon DEF RecheckSnapshot
<1>6. CASE PrepareFrozen(w)
  BY <1>1, <1>2, <1>6, PrepareFrozenKeeps, Zenon DEF PrepareFrozen
<1>7. CASE PrepareJudge(w)
  BY <1>1, <1>2, <1>7, PrepareJudgeKeeps, Zenon DEF PrepareJudge
<1>8. CASE ExecuteOffline(w)
  BY <1>1, <1>2, <1>8, ExecuteOfflineKeeps, Zenon DEF ExecuteOffline
<1>9. CASE BeginBroker(w)
  BY <1>1, <1>9, BeginBrokerKeeps DEF ChainInv
<1>10. CASE Broker(w)
  BY <1>1, <1>10, BrokerKeeps DEF ChainInv
<1>11. CASE EndBroker(w)
  <2>1. UNCHANGED <<exec, runtime, ledger, calls, trespass>>
    BY <1>11 DEF EndBroker, brokerVars
  <2> QED BY <1>1, <1>2, <1>11, <2>1, EndBrokerKeeps
<1>12. CASE FinalizeOutside(w)
  BY <1>1, <1>2, <1>12, FinalizeOutsideKeeps, Zenon DEF FinalizeOutside
<1>13. CASE FinalizeInside(w)
  BY <1>1, <1>2, <1>13, FinalizeInsideKeeps, Zenon DEF FinalizeInside
<1> QED BY <1>3, <1>4, <1>5, <1>6, <1>7, <1>8, <1>9, <1>10, <1>11, <1>12, <1>13
        DEF Step

\* So does every step of the system.
LEMMA NextKeepsChain == ChainInv /\ [Next]_vars => ChainInv'
<1> SUFFICES ASSUME ChainInv, [Next]_vars PROVE ChainInv'
  OBVIOUS
<1>1. BrokerInv /\ DriversInv /\ clock \in Nat
  BY DEF ChainInv, DriversInv, ReviewType
<1>2. ASSUME UNCHANGED <<exec, runtime, ledger, calls, trespass>>, DriversInv'
      PROVE  ChainInv'
  BY <1>1, <1>2, BrokerStutter DEF ChainInv
<1>3. ASSUME NEW w \in Workflows, Start(w) PROVE ChainInv'
  <2>1. UNCHANGED <<exec, runtime, ledger, calls, trespass>>
    BY <1>3, Zenon DEF Start, brokerVars
  <2>2. DriversInv'
    BY <1>1, <1>3, StartKeeps
  <2> QED BY <1>2, <2>1, <2>2
<1>4. ASSUME NEW w \in Workflows, Step(w) PROVE ChainInv'
  BY <1>4, StepKeepsChain
<1>5. ASSUME NEW w \in Workflows, Rejudge(w) PROVE ChainInv'
  <2>1. UNCHANGED <<exec, runtime, ledger, calls, trespass, wf, prepared, finalized, clock>>
    BY <1>5, Zenon DEF Rejudge
  <2> QED BY <1>1, <1>2, <2>1, DriversStutter
<1>6. ASSUME NEW w \in Workflows, CopyFails(w) PROVE ChainInv'
  BY <1>1, <1>2, <1>6, CopyFailsKeeps DEF CopyFails
<1>7. ASSUME NEW w \in Workflows, Kill(w) PROVE ChainInv'
  BY <1>1, <1>7, KillKeeps DEF ChainInv
<1>8. CASE Edit
  BY <1>1, <1>2, <1>8, DriversStutter DEF Edit, brokerVars
<1>9. CASE Tick
  BY <1>1, <1>2, <1>9, DriversStutter DEF Tick, brokerVars
<1>10. CASE UNCHANGED vars
  BY <1>1, <1>2, <1>10, DriversStutter DEF vars, brokerVars, reviewVars
<1> QED BY <1>3, <1>4, <1>5, <1>6, <1>7, <1>8, <1>9, <1>10 DEF Next

\* At the start no review has begun.
LEMMA InitChain == Init => ChainInv
<1> SUFFICES ASSUME Init PROVE ChainInv
  OBVIOUS
<1>1. BrokerInv
  BY BrokerStart DEF Init
<1>2. ReviewType
  BY DEF Init, ReviewType
<1>3. ASSUME NEW w \in Workflows PROVE ReviewInv(w)
  <2>1. /\ wf[w] = New /\ prepared[w] = NoReply /\ finalized[w] = NoReply
        /\ exec[w] = Idle
    BY <1>3 DEF Init, BrokerInit, Workflows
  <2>2. /\ DriverShape(New) /\ New.pc = "new" /\ New.results = <<>>
    BY DEF New, DriverShape
  <2>3. IsSequence(<<>>) /\ Len(<<>>) = 0
    <3>1. <<>> \in Seq({<<>>[i] : i \in DOMAIN <<>>})
      OBVIOUS
    <3> QED BY <3>1 DEF IsSequence
  <2>4. Idle.pc = "idle" /\ NoReply.request = NoRequest
    BY DEF Idle, NoReply
  <2>5. DriverInv(New, w)
    BY <2>2, <2>3 DEF DriverInv, PayloadInv, Pcs
  <2>6. PreparedInv(NoReply, New, w) /\ FinalizedInv(NoReply, New, w)
    BY <2>4 DEF PreparedInv, FinalizedInv
  <2>7. ExecutorInv(New, Idle)
    BY <2>2, <2>3, <2>4 DEF ExecutorInv
  <2> QED BY <2>1, <2>5, <2>6, <2>7 DEF ReviewInv
<1> QED BY <1>1, <1>2, <1>3 DEF ChainInv, DriversInv

\* In every behaviour each phase a review commits is about the candidate its
\* first request named, however replies and edits come.
THEOREM ChainInvariance == Spec => []ChainInv
<1> QED BY InitChain, NextKeepsChain, PTL DEF Spec

\* The chain of phases is one about one candidate.
LEMMA InvChained == DriversInv => ChainIntact
<1> SUFFICES ASSUME DriversInv, NEW w \in Workflows, NEW i \in DOMAIN wf[w].results
             PROVE  LET res == wf[w].results[i]
                    IN /\ res.request.wf = w /\ res.request.seq = i
                       /\ i > 1 => res.request.prev = ResultDigest(wf[w].results[i - 1])
                       /\ res.request.cand = wf[w].results[1].request.cand
                       /\ i <= 5 => res.artifact[2] = wf[w].results[1].request.cand
                       /\ i = 6 => res.artifact[2] = w
  BY Zenon DEF ChainIntact
<1>1. PICK s, c, rs : s = wf[w] /\ c = s.request.cand /\ rs = s.results
  OBVIOUS
<1>2. DriverInv(s, w) /\ IsSequence(rs)
  BY <1>1 DEF DriversInv, ReviewInv, DriverInv
<1>3. Chained(rs, w, c)
  <2>1. CASE s.pc = "new"
    <3>1. rs = <<>>
      BY <1>1, <1>2, <2>1 DEF DriverInv, New
    <3> QED BY <1>1, <3>1
  <2>2. CASE s.pc # "new"
    BY <1>1, <1>2, <2>2 DEF DriverInv
  <2> QED BY <2>1, <2>2
<1>4. DOMAIN rs = 1..Len(rs) /\ Len(rs) \in Nat
  BY <1>2, AppendIs
<1>5. i \in Nat /\ 1 \in DOMAIN rs
  BY <1>1, <1>4
<1>6. rs[1].request.cand = c
  BY <1>3, <1>5 DEF Chained, OfPhase, ForPhase
<1>7. /\ rs[i].request.wf = w /\ rs[i].request.seq = i /\ rs[i].request.cand = c
      /\ i > 1 => rs[i].request.prev = ResultDigest(rs[i - 1])
      /\ i <= 5 => rs[i].artifact[2] = c
      /\ i = 6 => rs[i].artifact[2] = w
  BY <1>1, <1>3 DEF Chained, OfPhase, ForPhase
<1> QED BY <1>1, <1>6, <1>7

\* The committed phases of a review are its own, in order, chained to each
\* other, and about the candidate its first request named: no reply for
\* another request and no edit gets in between (ActionMatches,
\* FinalizedMatches, SnapshotMeasured, RedPayloadParses).
THEOREM ChainTheorem == Spec => []ChainIntact
<1>1. ChainInv => ChainIntact
  BY InvChained DEF ChainInv
<1> QED BY <1>1, ChainInvariance, PTL

\* A review calls each role at most once, for a row of its own ledger, behind
\* the gateway of its own session, and reserves no more than its limit
\* (Inspect, Reserve, Call, Remove, Cleanup).
THEOREM PaidTheorem == Spec => []PaidOnce
<1>1. ChainInv => PaidOnce
  BY InvPaid DEF ChainInv
<1> QED BY <1>1, ChainInvariance, PTL

\* No session removes what is another session's, and what outlives a batch is
\* what could not be removed or was left by a death (Owned, RemoveBroker,
\* FlagBefore, NextTarget).
THEOREM CleanupTheorem == Spec => []CleanupExact
<1>1. ChainInv => CleanupExact
  BY InvExact DEF ChainInv
<1> QED BY <1>1, ChainInvariance, PTL

-----------------------------------------------------------------------------
(* The driver goes on *)

\* The next place of a driver: it keeps what it has committed, and is in a
\* later phase or at a later place of the same one.
Advances(s, s2) ==
    /\ s2.results = s.results \/ \E x : s2.results = Append(s.results, x)
    /\ \/ s2.request.seq = s.request.seq + 1
       \/ s2.request.seq = s.request.seq /\ PcOrder[s2.pc] > PcOrder[s.pc]

DriverMoves(w) == \E s2 : wf' = [wf EXCEPT ![w] = s2] /\ Advances(wf[w], s2)

\* The order of the driver's places.
LEMMA PcOrderIs ==
    /\ PcOrder["new"] = 1 /\ PcOrder["prepare"] = 2 /\ PcOrder["materialise"] = 3
    /\ PcOrder["recheck"] = 4 /\ PcOrder["external"] = 5 /\ PcOrder["finalize"] = 6
    /\ PcOrder["done"] = 7 /\ PcOrder["failed"] = 8
  BY DEF PcOrder

\* A step within a phase goes on to a later place.
LEMMA GoesMoves ==
    ASSUME NEW w \in Workflows, NEW s2, NEW pc, Goes(wf[w], s2, pc),
           PcOrder[pc] > PcOrder[wf[w].pc], wf' = [wf EXCEPT ![w] = s2]
    PROVE  DriverMoves(w)
<1>1. Advances(wf[w], s2)
  BY DEF Goes, Advances
<1> QED BY <1>1, Zenon DEF DriverMoves

\* A failure does, unless the review is over.
LEMMA FailMoves ==
    ASSUME DriversInv, NEW w \in Workflows, wf[w].pc \notin {"done", "failed"}, Fail(w)
    PROVE  DriverMoves(w)
<1>1. PICK s2 : wf' = [wf EXCEPT ![w] = s2] /\ Goes(wf[w], s2, "failed")
  BY FailIs
<1>2. wf[w].pc \in Pcs
  BY DEF DriversInv, ReviewInv, DriverInv
<1>3. PcOrder["failed"] > PcOrder[wf[w].pc]
  BY <1>2, PcOrderIs DEF Pcs
<1> QED BY <1>1, <1>3, GoesMoves

\* So does taking what was prepared.
LEMMA TakePreparedMoves ==
    ASSUME DriversInv, NEW w \in Workflows, wf[w].pc \in {"prepare", "recheck"},
           NEW payload, TakePrepared(w, payload)
    PROVE  DriverMoves(w)
<1>1. CASE Fail(w)
  BY <1>1, FailMoves
<1>2. CASE wf' = [wf EXCEPT ![w].payload = payload,
                            ![w].pc = IF Phase(w) \in External THEN "external"
                                      ELSE "finalize",
                            ![w].evidence = payload]
  <2>1. PICK s, pc : /\ s = wf[w]
                     /\ pc = IF Phase(w) \in External THEN "external" ELSE "finalize"
    OBVIOUS
  <2>2. PICK s2 : s2 = [s EXCEPT !.payload = payload, !.pc = pc, !.evidence = payload]
    OBVIOUS
  <2>3. wf = [v \in Workflows |-> wf[v]] /\ DriverShape(s)
    BY <2>1 DEF DriversInv, ReviewType, ReviewInv, DriverInv
  <2>4. wf' = [wf EXCEPT ![w] = s2]
    BY <1>2, <2>1, <2>2, <2>3, Zenon
  <2>5. Goes(s, s2, pc)
    BY <2>2, <2>3 DEF Goes, DriverShape
  <2>6. PcOrder[pc] > PcOrder[s.pc]
    BY <2>1, PcOrderIs
  <2> QED BY <2>1, <2>4, <2>5, <2>6, GoesMoves
<1> QED BY <1>1, <1>2, TakePreparedIs, Zenon

\* And so does taking a result, which is committed and ends the phase.
LEMMA TakeFinalizedMoves ==
    ASSUME DriversInv, NEW w \in Workflows, wf[w].pc = "finalize",
           NEW artifact, TakeFinalized(w, artifact)
    PROVE  DriverMoves(w)
<1>1. CASE Fail(w)
  BY <1>1, FailMoves
<1>2. PICK s, res, n : /\ s = wf[w] /\ res = ResultOf(wf[w], artifact)
                       /\ n = NextRequest(res)
  OBVIOUS
<1>3. PICK made : made = ReplyOf(res)
  OBVIOUS
<1>4. res.request = s.request /\ made.result = res /\ made.next = n
  BY <1>2, <1>3 DEF ResultOf, ReplyOf
<1>5. CASE wf' = [wf EXCEPT ![w] = Committed(w, made)]
  <2>1. PICK s2 : s2 = Committed(w, made)
    OBVIOUS
  <2>2. DriverShape(s)
    BY <1>2 DEF DriversInv, ReviewInv, DriverInv
  <2>3. Commits(s, s2, res, n)
    BY <1>2, <1>4, <2>1, <2>2, CommittedIs
  <2>4. s.pc = "finalize" /\ s.request.seq \in 1..7 /\ RequestShape(s.request)
    <3>1. wf[w].pc # "new"
      OBVIOUS
    <3> QED BY <1>2, <3>1, Running DEF ForPhase
  <2>5. s2.results = Append(s.results, res)
    BY <2>3 DEF Commits
  <2>6. CASE s.request.seq = 7
    <3>1. n = NoRequest
      BY <1>2, <1>4, <2>4, <2>6, NextRequestIs
    <3>2. s2.pc = "done" /\ s2.request = s.request
      BY <2>3, <3>1 DEF Commits
    <3>3. Advances(s, s2)
      BY <2>4, <2>5, <3>2, PcOrderIs DEF Advances
    <3> QED BY <1>2, <1>5, <2>1, <3>3, Zenon DEF DriverMoves
  <2>7. CASE s.request.seq # 7
    <3>1. Follows(s.request, res, n)
      BY <1>2, <1>4, <2>4, <2>7, NextRequestIs
    <3>2. n # NoRequest
      BY <2>4, <3>1 DEF Follows, NoRequest
    <3>3. s2.request.seq = s.request.seq + 1
      BY <2>3, <3>1, <3>2 DEF Commits, Follows
    <3>4. Advances(s, s2)
      BY <2>5, <3>3, Zenon DEF Advances
    <3> QED BY <1>2, <1>5, <2>1, <3>4, Zenon DEF DriverMoves
  <2> QED BY <2>6, <2>7
<1> QED BY <1>1, <1>2, <1>3, <1>5, TakeFinalizedIs, Zenon

\* What the coordinator prepares takes the driver on.
LEMMA PrepareMoves ==
    ASSUME DriversInv, NEW w \in Workflows,
           PrepareSnapshot(w) \/ Materialise(w) \/ RecheckSnapshot(w)
           \/ PrepareFrozen(w) \/ PrepareJudge(w)
    PROVE  DriverMoves(w)
<1>1. PICK s : s = wf[w]
  OBVIOUS
<1>2. wf = [v \in Workflows |-> wf[v]] /\ DriverShape(s)
  BY <1>1 DEF DriversInv, ReviewType, ReviewInv, DriverInv
<1>3. CASE PrepareSnapshot(w)
  <2>1. s.pc = "prepare"
    BY <1>1, <1>3 DEF PrepareSnapshot, AtPrepare
  <2>2. CASE Fail(w)
    BY <1>1, <2>1, <2>2, FailMoves
  <2>3. CASE wf' = [wf EXCEPT ![w].pc = "materialise", ![w].payload = work.head]
    <3>1. PICK head, pc : head = work.head /\ pc = "materialise"
      OBVIOUS
    <3>2. PICK s2 : s2 = [s EXCEPT !.pc = pc, !.payload = head]
      OBVIOUS
    <3>3. wf' = [wf EXCEPT ![w] = s2]
      BY <1>1, <1>2, <2>3, <3>1, <3>2, Zenon
    <3>4. Goes(s, s2, pc)
      BY <1>2, <3>2 DEF Goes, DriverShape
    <3>5. PcOrder[pc] > PcOrder[s.pc]
      BY <2>1, <3>1, PcOrderIs
    <3> QED BY <1>1, <3>3, <3>4, <3>5, GoesMoves
  <2> QED BY <1>3, <2>2, <2>3, Zenon DEF PrepareSnapshot
<1>4. CASE Materialise(w)
  <2>1. s.pc = "materialise"
    BY <1>1, <1>4 DEF Materialise
  <2>2. CASE Fail(w)
    BY <1>1, <2>1, <2>2, FailMoves
  <2>3. CASE wf' = [wf EXCEPT ![w].pc = "recheck"]
    <3>1. PICK pc : pc = "recheck"
      OBVIOUS
    <3>2. PICK s2 : s2 = [s EXCEPT !.pc = pc]
      OBVIOUS
    <3>3. wf' = [wf EXCEPT ![w] = s2]
      BY <1>1, <1>2, <2>3, <3>1, <3>2, Zenon
    <3>4. Goes(s, s2, pc)
      BY <1>2, <3>2 DEF Goes, DriverShape
    <3>5. PcOrder[pc] > PcOrder[s.pc]
      BY <2>1, <3>1, PcOrderIs
    <3> QED BY <1>1, <3>3, <3>4, <3>5, GoesMoves
  <2> QED BY <1>4, <2>2, <2>3, Zenon DEF Materialise
<1>5. CASE RecheckSnapshot(w)
  <2>1. s.pc = "recheck"
    BY <1>1, <1>5 DEF RecheckSnapshot
  <2>2. Fail(w) \/ \E payload : TakePrepared(w, payload)
    BY <1>5, Zenon DEF RecheckSnapshot
  <2> QED BY <1>1, <2>1, <2>2, FailMoves, TakePreparedMoves
<1>6. CASE PrepareFrozen(w)
  <2>1. s.pc = "prepare" /\ Phase(w) \notin {"snapshot", "attested-judge"}
    BY <1>1, <1>6, Zenon DEF PrepareFrozen
  <2>2. Phase(w) \in {"red-snapshot", "offline", "review-packet", "broker", "sign"}
    BY <1>1, <2>1, Running, PhasesAre
  <2>3. Fail(w) \/ \E payload : TakePrepared(w, payload)
    BY <1>6, <2>2 DEF PrepareFrozen
  <2> QED BY <1>1, <2>1, <2>3, FailMoves, TakePreparedMoves
<1>7. CASE PrepareJudge(w)
  <2>1. s.pc = "prepare"
    BY <1>1, <1>7, Zenon DEF PrepareJudge, AtPrepare
  <2>2. Fail(w) \/ \E payload : TakePrepared(w, payload)
    BY <1>7, Zenon DEF PrepareJudge
  <2> QED BY <1>1, <2>1, <2>2, FailMoves, TakePreparedMoves
<1> QED BY <1>3, <1>4, <1>5, <1>6, <1>7

\* So does what runs outside, and what the coordinator finalizes.
LEMMA FinalizeMoves ==
    ASSUME DriversInv, NEW w \in Workflows,
           ExecuteOffline(w) \/ EndBroker(w) \/ FinalizeOutside(w) \/ FinalizeInside(w)
    PROVE  DriverMoves(w)
<1>1. PICK s : s = wf[w]
  OBVIOUS
<1>2. wf = [v \in Workflows |-> wf[v]] /\ DriverShape(s)
  BY <1>1 DEF DriversInv, ReviewType, ReviewInv, DriverInv
<1>3. ASSUME s.pc = "external",
             \E ev : wf' = [wf EXCEPT ![w].pc = "finalize", ![w].evidence = ev]
      PROVE  DriverMoves(w)
  <2>1. PICK ev : wf' = [wf EXCEPT ![w].pc = "finalize", ![w].evidence = ev]
    BY <1>3, Zenon
  <2>2. PICK pc : pc = "finalize"
    OBVIOUS
  <2>3. PICK s2 : s2 = [s EXCEPT !.pc = pc, !.evidence = ev]
    OBVIOUS
  <2>4. wf' = [wf EXCEPT ![w] = s2]
    BY <1>1, <1>2, <2>1, <2>2, <2>3, Zenon
  <2>5. Goes(s, s2, pc)
    BY <1>2, <2>3 DEF Goes, DriverShape
  <2>6. PcOrder[pc] > PcOrder[s.pc]
    BY <1>3, <2>2, PcOrderIs
  <2> QED BY <1>1, <2>4, <2>5, <2>6, GoesMoves
<1>4. CASE ExecuteOffline(w)
  <2>1. s.pc = "external"
    BY <1>1, <1>4, Zenon DEF ExecuteOffline
  <2>2. ASSUME ~Fail(w)
        PROVE  \E ev : wf' = [wf EXCEPT ![w].pc = "finalize", ![w].evidence = ev]
    <3>1. PICK exits \in Outcomes :
            wf' = [wf EXCEPT ![w].pc = "finalize",
                             ![w].evidence = <<"runs", wf[w].payload,
               [r \in RunIds |-> RunEvidence(wf[w].payload[3][r], exits[r])]>>]
      BY <1>4, <2>2, Zenon DEF ExecuteOffline, RunBroken
    <3> QED BY <3>1, Zenon
  <2> QED BY <1>1, <1>3, <2>1, <2>2, FailMoves
<1>5. CASE EndBroker(w)
  <2>1. s.pc = "external"
    BY <1>1, <1>5, Zenon DEF EndBroker
  <2>2. \/ Fail(w)
        \/ \E ev : wf' = [wf EXCEPT ![w].pc = "finalize", ![w].evidence = ev]
    BY <1>5, Zenon DEF EndBroker
  <2> QED BY <1>1, <1>3, <2>1, <2>2, FailMoves
<1>6. CASE FinalizeOutside(w) \/ FinalizeInside(w)
  <2>1. s.pc = "finalize"
    BY <1>1, <1>6, Zenon DEF FinalizeOutside, FinalizeInside
  <2>2. Fail(w) \/ \E artifact : TakeFinalized(w, artifact)
    BY <1>6, Zenon DEF FinalizeOutside, FinalizeInside
  <2> QED BY <1>1, <2>1, <2>2, FailMoves, TakeFinalizedMoves
<1> QED BY <1>4, <1>5, <1>6

\* A review that starts is at its first phase.
LEMMA StartMoves ==
    ASSUME DriversInv, NEW w \in Workflows, Start(w)
    PROVE  DriverMoves(w)
<1>1. PICK s : s = wf[w]
  OBVIOUS
<1>2. s = New /\ wf = [v \in Workflows |-> wf[v]] /\ DriverShape(s)
  BY <1>1 DEF DriversInv, ReviewType, ReviewInv, DriverInv, Start
<1>3. PICK c \in Contents :
        wf' = [wf EXCEPT ![w].pc = "prepare",
                         ![w].request = [NoRequest EXCEPT !.wf = w, !.cand = c]]
  BY Zenon DEF Start
<1>4. PICK r : r = [NoRequest EXCEPT !.wf = w, !.cand = c]
  OBVIOUS
<1>5. PICK s2 : s2 = [s EXCEPT !.pc = "prepare", !.request = r]
  OBVIOUS
<1>6. wf' = [wf EXCEPT ![w] = s2]
  BY <1>1, <1>2, <1>3, <1>4, <1>5, Zenon
<1>7. s2.pc = "prepare" /\ s2.request = r /\ s2.results = s.results
  BY <1>2, <1>5 DEF DriverShape
<1>8. s.pc = "new" /\ r.seq = 1 /\ s.request.seq = 1
  BY <1>2, <1>4 DEF New, NoRequest
<1>9. Advances(s, s2)
  BY <1>7, <1>8, PcOrderIs DEF Advances
<1> QED BY <1>1, <1>6, <1>9, Zenon DEF DriverMoves

-----------------------------------------------------------------------------
(* The executor goes on *)

\* The next place of the executor: a later role, a later stage, a later target
\* of the same stage, or the same target without the container.
Further(e, e2) ==
    \/ e2.role = e.role + 1
    \/ /\ e2.role = e.role
       /\ \/ StageOrder[e2.pc] > StageOrder[e.pc]
          \/ /\ e2.pc = e.pc
             /\ e2.at = e.at + 1 \/ (e2.at = e.at /\ ~e.removed /\ e2.removed)

ExecutorMoves(b) == \E e2 : Become(b, e2) /\ Further(exec[b], e2)

\* The order of the executor's stages.
LEMMA StageOrderIs ==
    /\ StageOrder["idle"] = 1 /\ StageOrder["probe"] = 2 /\ StageOrder["preflight"] = 3
    /\ StageOrder["create"] = 4 /\ StageOrder["connect"] = 5 /\ StageOrder["inspect"] = 6
    /\ StageOrder["reserve"] = 7 /\ StageOrder["call"] = 8 /\ StageOrder["remove"] = 9
    /\ StageOrder["post"] = 10 /\ StageOrder["cleanup"] = 11 /\ StageOrder["absent"] = 12
    /\ StageOrder["reprobe"] = 13 /\ StageOrder["measure"] = 14
    /\ StageOrder["done"] = 15 /\ StageOrder["failed"] = 16 /\ StageOrder["crashed"] = 17
  BY DEF StageOrder

\* The state is that of the same role, at stage pc.
IsAt(e, st, pc) ==
    /\ st.role = e.role /\ st.pc = pc
    /\ "role" \in DOMAIN st /\ "pc" \in DOMAIN st

\* Such a step to a later stage goes on.
LEMMA StageMoves ==
    ASSUME NEW b, NEW st, Become(b, st), NEW pc, IsAt(exec[b], st, pc),
           StageOrder[pc] > StageOrder[exec[b].pc]
    PROVE  ExecutorMoves(b)
<1>1. Further(exec[b], st)
  BY DEF Further, IsAt
<1> QED BY <1>1, Zenon DEF ExecutorMoves

\* Where the states are that a batch goes to.
LEMMA StatesAre ==
    ASSUME NEW b, ExecShape(exec[b])
    PROVE  /\ IsAt(exec[b], Raise(b), "cleanup")
           /\ \A argvs, pc : IsAt(exec[b], Record(b, argvs, pc), pc)
           /\ \A pc : IsAt(exec[b], Lost(b, pc), pc)
<1>1. PICK e : e = exec[b]
  OBVIOUS
<1>2. "role" \in DOMAIN e /\ "pc" \in DOMAIN e
  BY <1>1 DEF ExecShape
<1>3. IsAt(e, Raise(b), "cleanup")
  BY <1>1, <1>2 DEF Raise, IsAt
<1>4. ASSUME NEW argvs, NEW pc PROVE IsAt(e, Record(b, argvs, pc), pc)
  BY <1>1, <1>2 DEF Record, IsAt
<1>5. ASSUME NEW pc PROVE IsAt(e, Lost(b, pc), pc)
  BY <1>1 DEF Lost, Idle, IsAt
<1> QED BY <1>1, <1>3, <1>4, <1>5

\* Up to the call of the role, every command takes the executor on.
LEMMA BeforeMoves ==
    ASSUME BrokerInv, NEW b \in Batches,
           Probe(b) \/ Preflight(b) \/ Create(b) \/ Connect(b) \/ Inspect(b) \/ Reserve(b)
    PROVE  ExecutorMoves(b)
<1>1. PICK e : e = exec[b]
  OBVIOUS
<1>2. ExecShape(e) /\ ExecType(e) /\ Flags(e)
  BY <1>1, OwnInv DEF BatchInv
<1>3. /\ IsAt(e, Raise(b), "cleanup")
      /\ \A argvs, pc : IsAt(e, Record(b, argvs, pc), pc)
      /\ \A pc : IsAt(e, Lost(b, pc), pc)
  BY <1>1, <1>2, StatesAre
<1>4. ASSUME NEW st, NEW pc, Become(b, st), IsAt(e, st, pc),
             StageOrder[pc] > StageOrder[e.pc]
      PROVE  ExecutorMoves(b)
  BY <1>1, <1>4, StageMoves
<1>5. ASSUME Become(b, Raise(b)), StageOrder[e.pc] < 11 PROVE ExecutorMoves(b)
  <2>1. StageOrder["cleanup"] > StageOrder[e.pc]
    BY <1>2, <1>5, StageOrderIs DEF ExecType, StagePcs
  <2> QED BY <1>3, <1>4, <1>5, <2>1
<1>6. CASE Probe(b)
  <2>1. e.pc = "probe"
    BY <1>1, <1>6, Zenon DEF Probe
  <2>2. PICK host : Become(b, IF ProbeHolds(host, Binding)
                              THEN [exec[b] EXCEPT !.pre = host, !.pc = "preflight"]
                              ELSE Lost(b, "failed"))
    BY <1>6, Zenon DEF Probe
  <2>3. PICK moved : moved = [e EXCEPT !.pre = host, !.pc = "preflight"]
    OBVIOUS
  <2>4. IsAt(e, moved, "preflight")
    BY <1>2, <2>3 DEF ExecShape, IsAt
  <2>5. Become(b, moved) \/ Become(b, Lost(b, "failed"))
    BY <1>1, <2>2, <2>3, Zenon
  <2>6. /\ StageOrder["preflight"] > StageOrder[e.pc]
        /\ StageOrder["failed"] > StageOrder[e.pc]
    BY <2>1, StageOrderIs
  <2> QED BY <1>3, <1>4, <2>4, <2>5, <2>6
<1>7. CASE Preflight(b)
  <2>1. e.pc = "preflight" /\ StageOrder[e.pc] < 11
    BY <1>1, <1>7, StageOrderIs DEF Preflight
  <2>2. Become(b, Record(b, AbsenceArgv, "create")) \/ Become(b, Raise(b))
    BY <1>7, Zenon DEF Preflight
  <2>3. StageOrder["create"] > StageOrder[e.pc]
    BY <2>1, StageOrderIs
  <2> QED BY <1>3, <1>4, <1>5, <2>1, <2>2, <2>3
<1>8. CASE Create(b)
  <2>1. PICK kind, at, pc :
          /\ kind = CreateOrder[e.at]
          /\ at = (IF e.at = 3 THEN 1 ELSE e.at + 1)
          /\ pc = (IF e.at = 3 THEN "connect" ELSE "create")
    OBVIOUS
  <2>2. PICK run, ok : /\ run = [e.run EXCEPT ![Role(b)] =
                                 [@ EXCEPT !.log = Append(@, CreateArgv(kind))]]
                       /\ ok = [exec[b] EXCEPT !.created = @ \cup {kind},
                            !.run[Role(b)].log = Append(@, CreateArgv(kind)),
                            !.pc = IF exec[b].at = 3 THEN "connect" ELSE "create",
                            !.at = IF exec[b].at = 3 THEN 1 ELSE @ + 1]
    OBVIOUS
  <2>3. e.pc = "create" /\ StageOrder[e.pc] < 11
    <3>1. e.pc = "create"
      BY <1>1, <1>8, Zenon DEF Create
    <3> QED BY <3>1, StageOrderIs
  <2>4. Become(b, ok) \/ Become(b, [Raise(b) EXCEPT !.created = FlagBefore(b, kind)])
    BY <1>1, <1>8, <2>1, <2>2, Zenon DEF Create
  <2>5. ASSUME Become(b, [Raise(b) EXCEPT !.created = FlagBefore(b, kind)])
        PROVE  ExecutorMoves(b)
    <3>1. PICK x : x = FlagBefore(b, kind)
      OBVIOUS
    <3>2. PICK st : st = [Raise(b) EXCEPT !.created = x]
      OBVIOUS
    <3>3. IsAt(e, st, "cleanup")
      <4>1. IsAt(e, Raise(b), "cleanup")
        BY <1>3
      <4> QED BY <3>2, <4>1 DEF IsAt
    <3>4. StageOrder["cleanup"] > StageOrder[e.pc]
      BY <2>3, StageOrderIs
    <3>5. Become(b, st)
      BY <2>5, <3>1, <3>2, Zenon
    <3> QED BY <1>4, <3>3, <3>4, <3>5
  <2>6. ok.role = e.role /\ ok.pc = pc /\ ok.at = at
    <3>1. PICK x, run2 : x = e.created \cup {kind}
                   /\ run2 = [e.run EXCEPT ![Role(b)].log = Append(@, CreateArgv(kind))]
      OBVIOUS
    <3>2. ok = [e EXCEPT !.created = x, !.run = run2, !.pc = pc, !.at = at]
      BY <1>1, <2>1, <2>2, <3>1, Zenon
    <3> QED BY <1>2, <3>2 DEF ExecShape
  <2>7. Further(e, ok)
    <3>1. CASE e.at = 3
      <4>1. StageOrder[ok.pc] > StageOrder[e.pc]
        BY <2>1, <2>3, <2>6, <3>1, StageOrderIs
      <4> QED BY <2>6, <4>1 DEF Further
    <3>2. CASE e.at # 3
      BY <2>1, <2>3, <2>6, <3>2 DEF Further
    <3> QED BY <3>1, <3>2
  <2>8. ASSUME Become(b, ok) PROVE ExecutorMoves(b)
    BY <1>1, <2>7, <2>8, Zenon DEF ExecutorMoves
  <2> QED BY <2>4, <2>5, <2>8
<1>9. CASE Connect(b)
  <2>1. e.pc = "connect" /\ StageOrder[e.pc] < 11
    BY <1>1, <1>9, StageOrderIs DEF Connect
  <2>2. Become(b, Record(b, <<ConnectArgv>>, "inspect")) \/ Become(b, Raise(b))
    BY <1>9, Zenon DEF Connect
  <2>3. StageOrder["inspect"] > StageOrder[e.pc]
    BY <2>1, StageOrderIs
  <2> QED BY <1>3, <1>4, <1>5, <2>1, <2>2, <2>3
<1>10. CASE Inspect(b)
  <2>1. e.pc = "inspect" /\ StageOrder[e.pc] < 11
    BY <1>1, <1>10, StageOrderIs DEF Inspect
  <2>2. PICK st : st = [Record(b, InspectArgvs, "reserve")
                          EXCEPT !.run[Role(b)].before = Found(b)]
    OBVIOUS
  <2>3. IsAt(e, st, "reserve")
    <3>1. IsAt(e, Record(b, InspectArgvs, "reserve"), "reserve")
      BY <1>3
    <3> QED BY <2>2, <3>1 DEF IsAt
  <2>4. Become(b, st) \/ Become(b, Raise(b))
    BY <1>10, <2>2, Zenon DEF Inspect
  <2>5. StageOrder["reserve"] > StageOrder[e.pc]
    BY <2>1, StageOrderIs
  <2> QED BY <1>4, <1>5, <2>1, <2>3, <2>4, <2>5
<1>11. CASE Reserve(b)
  <2>1. e.pc = "reserve" /\ StageOrder[e.pc] < 11
    BY <1>1, <1>11, StageOrderIs DEF Reserve
  <2>2. PICK st : st = [exec[b] EXCEPT !.run[Role(b)].held = Rows(b) \cup {Row(b)},
                                       !.pc = "call"]
    OBVIOUS
  <2>3. IsAt(e, st, "call")
    BY <1>1, <1>2, <2>2 DEF ExecShape, IsAt
  <2>4. Become(b, st) \/ Become(b, Raise(b))
    BY <1>11, <2>2, Zenon DEF Reserve
  <2>5. StageOrder["call"] > StageOrder[e.pc]
    BY <2>1, StageOrderIs
  <2> QED BY <1>4, <1>5, <2>1, <2>3, <2>4, <2>5
<1> QED BY <1>6, <1>7, <1>8, <1>9, <1>10, <1>11

\* From the call on, every command takes the executor on too, whatever comes
\* of it.
LEMMA CallMoves ==
    ASSUME BrokerInv, NEW b \in Batches, Call(b)
    PROVE  ExecutorMoves(b)
<1>1. PICK e : e = exec[b]
  OBVIOUS
<1>2. ExecShape(e) /\ IsAt(e, Raise(b), "cleanup")
  BY <1>1, OwnInv, StatesAre
<1>3. e.pc = "call"
  BY <1>1, Zenon DEF Call
<1>4. /\ StageOrder["remove"] > StageOrder[e.pc]
      /\ StageOrder["cleanup"] > StageOrder[e.pc]
  BY <1>3, StageOrderIs
<1>5. ASSUME NEW a, NEW slow PROVE IsAt(e, Answered(b, a, slow), "remove")
  BY <1>1, <1>2 DEF Answered, ExecShape, IsAt
<1>6. IsAt(e, Interrupted(b), "cleanup")
  BY <1>2 DEF Interrupted, IsAt
<1>7. CASE Become(b, [Raise(b) EXCEPT !.attempted = TRUE])
  <2>1. Become(b, Interrupted(b))
    BY <1>7, Zenon DEF Interrupted
  <2> QED BY <1>1, <1>4, <1>6, <2>1, StageMoves
<1>8. CASE \E a, slow : Become(b, [exec[b] EXCEPT !.pc = "remove", !.attempted = TRUE,
                          !.run[Role(b)].answer = a, !.run[Role(b)].slow = slow])
  <2>1. PICK a, slow : Become(b, [exec[b] EXCEPT !.pc = "remove", !.attempted = TRUE,
                          !.run[Role(b)].answer = a, !.run[Role(b)].slow = slow])
    BY <1>8, Zenon
  <2>2. Become(b, Answered(b, a, slow))
    BY <2>1, Zenon DEF Answered
  <2> QED BY <1>1, <1>4, <1>5, <2>2, StageMoves
<1> QED BY <1>7, <1>8, Zenon DEF Call

\* The call's container is removed once, by the call or by the cleanup.
LEMMA RemovalMoves ==
    ASSUME BrokerInv, NEW b \in Batches, Remove(b) \/ CleanupCall(b)
    PROVE  ExecutorMoves(b)
<1>1. PICK e : e = exec[b]
  OBVIOUS
<1>2. /\ ExecShape(e) /\ IsAt(e, Raise(b), "cleanup")
      /\ \A argvs, pc : IsAt(e, Record(b, argvs, pc), pc)
  BY <1>1, OwnInv, StatesAre
<1>3. CASE Remove(b)
  <2>1. PICK next, pc :
          /\ next = IF exec[b].run[Role(b)].answer = "error" THEN Raise(b)
                    ELSE Record(b, BrokerArgvs, "post")
          /\ pc = IF exec[b].run[Role(b)].answer = "error" THEN "cleanup" ELSE "post"
    OBVIOUS
  <2>2. IsAt(e, next, pc) /\ pc \in {"cleanup", "post"}
    BY <1>2, <2>1, Zenon
  <2>3. PICK gone, failed :
          /\ gone = [next EXCEPT !.removed = TRUE]
          /\ failed = [Raise(b) EXCEPT !.removed = TRUE, !.dirty = TRUE]
    OBVIOUS
  <2>4. IsAt(e, gone, pc) /\ IsAt(e, failed, "cleanup")
    BY <1>2, <2>2, <2>3 DEF IsAt
  <2>5. Become(b, gone) \/ Become(b, failed) \/ Become(b, Raise(b))
    BY <1>3, <2>1, <2>3, Zenon DEF Remove, RemoveBroker
  <2>6. e.pc = "remove"
    BY <1>1, <1>3, Zenon DEF Remove
  <2>7. StageOrder[pc] > StageOrder[e.pc] /\ StageOrder["cleanup"] > StageOrder[e.pc]
    BY <2>2, <2>6, StageOrderIs
  <2> QED BY <1>1, <1>2, <2>4, <2>5, <2>7, StageMoves
<1>4. CASE CleanupCall(b)
  <2>1. PICK unclean : unclean = [e EXCEPT !.clean = FALSE]
    OBVIOUS
  <2>2. PICK gone, failed :
          /\ gone = [e EXCEPT !.removed = TRUE]
          /\ failed = [unclean EXCEPT !.removed = TRUE, !.dirty = TRUE]
    OBVIOUS
  <2>3. e.pc = "cleanup" /\ ~e.removed
    BY <1>1, <1>4, Zenon DEF CleanupCall
  <2>4. Become(b, gone) \/ Become(b, failed)
    BY <1>1, <1>4, <2>1, <2>2, Zenon DEF CleanupCall, RemoveBroker
  <2>5. Further(e, gone)
    BY <1>2, <2>2, <2>3 DEF ExecShape, Further
  <2>6. Further(e, failed)
    <3>1. unclean.pc = e.pc /\ unclean.role = e.role /\ unclean.at = e.at
          /\ {"pc", "role", "at", "removed"} \subseteq DOMAIN unclean
      BY <1>2, <2>1 DEF ExecShape
    <3> QED BY <2>2, <2>3, <3>1 DEF Further
  <2> QED BY <1>1, <2>4, <2>5, <2>6, Zenon DEF ExecutorMoves
<1> QED BY <1>3, <1>4

\* Each target of the cleanup is tried once.
LEMMA TargetMoves ==
    ASSUME BrokerInv, NEW b \in Batches, Cleanup(b)
    PROVE  ExecutorMoves(b)
<1>1. PICK e : e = exec[b]
  OBVIOUS
<1>2. ExecType(e) /\ e.pc = "cleanup"
  <2>1. ExecType(e)
    BY <1>1, OwnInv DEF BatchInv
  <2>2. e.pc = "cleanup"
    BY <1>1, Zenon DEF Cleanup
  <2> QED BY <2>1, <2>2
<1>3. ASSUME NEW st, NEW ok \in BOOLEAN, NextFrom(e, st, ok) PROVE Further(e, st)
  <2>1. /\ st.role = e.role
        /\ e.at = 3 => st.pc = "absent"
        /\ e.at # 3 => st.pc = e.pc /\ st.at = e.at + 1
    BY <1>2, <1>3 DEF NextFrom, SameRun
  <2>2. StageOrder["absent"] > StageOrder[e.pc]
    BY <1>2, StageOrderIs
  <2> QED BY <2>1, <2>2 DEF Further
<1>4. ASSUME NEW ok \in BOOLEAN, Become(b, NextTarget(b, ok)) PROVE ExecutorMoves(b)
  <2>1. NextFrom(e, NextTarget(b, ok), ok)
    BY <1>1, <1>2, NextIs
  <2>2. Further(exec[b], NextTarget(b, ok))
    BY <1>1, <1>3, <2>1
  <2> QED BY <1>4, <2>2, Zenon DEF ExecutorMoves
<1>5. PICK st : st = [NextTarget(b, TRUE) EXCEPT
            !.run[Role(b)].log =
              @ \o <<InspectArgv(CleanupOrder[exec[b].at]),
                     RemoveArgv(CleanupOrder[exec[b].at])>>,
            !.run[Role(b)].removed[CleanupOrder[exec[b].at]] =
              runtime[Name(b, CleanupOrder[exec[b].at])]]
  OBVIOUS
<1>6. Further(e, st)
  <2>1. NextFrom(e, NextTarget(b, TRUE), TRUE)
    BY <1>1, <1>2, NextIs
  <2>2. PICK e1 : e1 = NextTarget(b, TRUE)
    OBVIOUS
  <2>3. {"role", "pc", "at"} \subseteq DOMAIN e1
    BY <2>1, <2>2 DEF NextFrom, SameRun, ExecShape
  <2>4. st.role = e1.role /\ st.pc = e1.pc /\ st.at = e1.at
    BY <1>5, <2>2, <2>3
  <2>5. Further(e, e1)
    BY <1>3, <2>1, <2>2
  <2>6. e1.role = e.role /\ (e1.pc # e.pc \/ e1.at = e.at + 1)
    BY <1>2, <2>1, <2>2 DEF NextFrom, SameRun
  <2> QED BY <1>2, <2>4, <2>5, <2>6 DEF Further, ExecType
<1>7. \/ Become(b, st)
      \/ \E ok \in BOOLEAN : Become(b, NextTarget(b, ok))
  BY <1>5, Zenon DEF Cleanup
<1> QED BY <1>1, <1>4, <1>6, <1>7, Zenon DEF ExecutorMoves

\* So do the inspections, the probe and the measurement that follow the call.
LEMMA AfterMoves ==
    ASSUME BrokerInv, NEW b \in Batches,
           InspectAgain(b) \/ Absent(b) \/ Reprobe(b) \/ Measure(b)
    PROVE  ExecutorMoves(b)
<1>1. PICK e : e = exec[b]
  OBVIOUS
<1>2. ExecShape(e) /\ e.role \in {1, 2}
  BY <1>1, OwnInv DEF BatchInv, ExecType
<1>3. /\ IsAt(e, Raise(b), "cleanup")
      /\ \A argvs, pc : IsAt(e, Record(b, argvs, pc), pc)
      /\ \A pc : IsAt(e, Lost(b, pc), pc)
  BY <1>1, <1>2, StatesAre
<1>4. ASSUME NEW st, NEW pc, Become(b, st), IsAt(e, st, pc),
             StageOrder[pc] > StageOrder[e.pc]
      PROVE  ExecutorMoves(b)
  BY <1>1, <1>4, StageMoves
<1>5. CASE InspectAgain(b)
  <2>1. e.pc = "post"
    BY <1>1, <1>5 DEF InspectAgain
  <2>2. PICK st : st = [Record(b, InspectArgvs, "cleanup")
                          EXCEPT !.run[Role(b)].after = Found(b)]
    OBVIOUS
  <2>3. IsAt(e, st, "cleanup")
    <3>1. IsAt(e, Record(b, InspectArgvs, "cleanup"), "cleanup")
      BY <1>3
    <3> QED BY <2>2, <3>1 DEF IsAt
  <2>4. Become(b, st) \/ Become(b, Raise(b))
    BY <1>5, <2>2, Zenon DEF InspectAgain
  <2>5. StageOrder["cleanup"] > StageOrder[e.pc]
    BY <2>1, StageOrderIs
  <2> QED BY <1>3, <1>4, <2>3, <2>4, <2>5
<1>6. CASE Absent(b)
  <2>1. e.pc = "absent"
    BY <1>1, <1>6 DEF Absent
  <2>2. Become(b, Lost(b, "failed")) \/ Become(b, Record(b, AbsenceArgv, "reprobe"))
    BY <1>6, Zenon DEF Absent
  <2>3. /\ StageOrder["failed"] > StageOrder[e.pc]
        /\ StageOrder["reprobe"] > StageOrder[e.pc]
    BY <2>1, StageOrderIs
  <2> QED BY <1>3, <1>4, <2>2, <2>3
<1>7. CASE Reprobe(b)
  <2>1. e.pc = "reprobe"
    BY <1>1, <1>7, Zenon DEF Reprobe
  <2>2. PICK next : next =
          IF exec[b].role = 2 THEN [exec[b] EXCEPT !.pc = "measure"]
          ELSE [exec[b] EXCEPT !.pc = "preflight", !.role = 2, !.created = {},
                               !.attempted = FALSE, !.removed = FALSE]
    OBVIOUS
  <2>3. \/ Become(b, Lost(b, "failed"))
        \/ \E host : Become(b, [next EXCEPT !.run[Role(b)].post = host])
    BY <1>7, <2>2, Zenon DEF Reprobe
  <2>4. /\ {"role", "pc"} \subseteq DOMAIN next
        /\ IF e.role = 2 THEN next.role = 2 /\ next.pc = "measure" ELSE next.role = 2
    BY <1>1, <1>2, <2>2 DEF ExecShape
  <2>5. ASSUME NEW host, Become(b, [next EXCEPT !.run[Role(b)].post = host])
        PROVE  ExecutorMoves(b)
    <3>1. PICK st : st = [next EXCEPT !.run[Role(b)].post = host]
      OBVIOUS
    <3>2. st.role = next.role /\ st.pc = next.pc
      BY <2>4, <3>1
    <3>3. StageOrder["measure"] > StageOrder[e.pc]
      BY <2>1, StageOrderIs
    <3>4. Further(e, st)
      BY <1>2, <2>4, <3>2, <3>3 DEF Further
    <3> QED BY <1>1, <2>5, <3>1, <3>4, Zenon DEF ExecutorMoves
  <2>6. StageOrder["failed"] > StageOrder[e.pc]
    BY <2>1, StageOrderIs
  <2> QED BY <1>3, <1>4, <2>3, <2>5, <2>6
<1>8. CASE Measure(b)
  <2>1. e.pc = "measure"
    BY <1>1, <1>8, Zenon DEF Measure
  <2>2. PICK st : st = [exec[b] EXCEPT !.pc = "done", !.final = Rows(b)]
    OBVIOUS
  <2>3. IsAt(e, st, "done")
    BY <1>1, <1>2, <2>2 DEF ExecShape, IsAt
  <2>4. Become(b, st) \/ Become(b, Lost(b, "failed"))
    BY <1>8, <2>2, Zenon DEF Measure
  <2>5. StageOrder["done"] > StageOrder[e.pc] /\ StageOrder["failed"] > StageOrder[e.pc]
    BY <2>1, StageOrderIs
  <2> QED BY <1>3, <1>4, <2>3, <2>4, <2>5
<1> QED BY <1>5, <1>6, <1>7, <1>8

\* A command of a batch takes its executor on.
LEMMA ExecuteBatchMoves ==
    ASSUME BrokerInv, NEW b \in Batches, ExecuteBatch(b)
    PROVE  ExecutorMoves(b)
  BY BeforeMoves, CallMoves, RemovalMoves, TargetMoves, AfterMoves, Zenon
     DEF ExecuteBatch, ExecuteOne

-----------------------------------------------------------------------------
(* No step takes a review back *)

\* The rank as numbers: the phase, the driver's place, the role, the
\* executor's stage and target, and whether its container is gone.
Number(a, p, r, g, t, d) == ((((a * 10 + p) * 10 + r) * 20 + g) * 20 + t) * 2 + d

\* They are within their bases.
Ranked(w) ==
    /\ wf[w].request.seq \in Nat /\ PcOrder[wf[w].pc] \in 1..8
    /\ exec[w].role \in 1..2 /\ StageOrder[exec[w].pc] \in 1..17
    /\ exec[w].at \in 1..3

AllRanked == \A w \in Workflows : Ranked(w)

\* The invariants keep them there.
LEMMA RankRanges == ChainInv => AllRanked
<1> SUFFICES ASSUME ChainInv, NEW w \in Workflows PROVE Ranked(w)
  BY DEF AllRanked
<1>1. PICK s, e : s = wf[w] /\ e = exec[w]
  OBVIOUS
<1>2. DriverInv(s, w) /\ ExecType(e)
  <2>1. DriverInv(s, w)
    BY <1>1 DEF ChainInv, DriversInv, ReviewInv
  <2>2. ExecType(e)
    BY <1>1 DEF ChainInv, BrokerInv, BatchInv, Workflows
  <2> QED BY <2>1, <2>2
<1>3. s.request.seq \in Nat
  <2>1. CASE s.pc = "new"
    <3>1. s = New
      BY <1>2, <2>1 DEF DriverInv
    <3> QED BY <3>1 DEF New, NoRequest
  <2>2. CASE s.pc # "new"
    BY <1>2, <2>2 DEF DriverInv
  <2> QED BY <2>1, <2>2
<1>4. PcOrder[s.pc] \in 1..8
  <2>1. s.pc \in Pcs
    BY <1>2 DEF DriverInv
  <2> QED BY <2>1, PcOrderIs DEF Pcs
<1>5. e.role \in 1..2 /\ StageOrder[e.pc] \in 1..17 /\ e.at \in 1..3
  <2>1. e.pc \in StagePcs /\ e.role \in {1, 2} /\ e.at \in {1, 2, 3}
    BY <1>2 DEF ExecType
  <2>2. StageOrder[e.pc] \in 1..17
    BY <2>1, StageOrderIs DEF StagePcs
  <2> QED BY <2>1, <2>2
<1> QED BY <1>1, <1>3, <1>4, <1>5 DEF Ranked

\* A driver that goes on takes its review on, whatever its executor does.
LEMMA DriverRank ==
    ASSUME ChainInv, ChainInv', NEW w \in Workflows, DriverMoves(w)
    PROVE  Rank(w) < Rank(w)'
<1>1. PICK s2 : wf' = [wf EXCEPT ![w] = s2] /\ Advances(wf[w], s2)
  BY Zenon DEF DriverMoves
<1>2. wf'[w] = s2
  BY <1>1 DEF ChainInv, DriversInv, ReviewType
<1>3. PICK a, p, r, g, t, d :
        /\ a = wf[w].request.seq /\ p = PcOrder[wf[w].pc] /\ r = exec[w].role
        /\ g = StageOrder[exec[w].pc] /\ t = exec[w].at
        /\ d = IF exec[w].removed THEN 1 ELSE 0
  OBVIOUS
<1>4. PICK a2, p2, r2, g2, t2, d2 :
        /\ a2 = wf'[w].request.seq /\ p2 = PcOrder[wf'[w].pc] /\ r2 = exec'[w].role
        /\ g2 = StageOrder[exec'[w].pc] /\ t2 = exec'[w].at
        /\ d2 = IF exec'[w].removed THEN 1 ELSE 0
  OBVIOUS
<1>5. a \in Nat /\ p \in 1..8 /\ r \in 1..2 /\ g \in 1..17 /\ t \in 1..3 /\ d \in 0..1
  BY <1>3, RankRanges DEF AllRanked, Ranked
<1>6. /\ a2 \in Nat /\ p2 \in 1..8 /\ r2 \in 1..2 /\ g2 \in 1..17 /\ t2 \in 1..3
      /\ d2 \in 0..1
  <2>1. AllRanked'
    BY RankRanges, PTL
  <2>2. Ranked(w)'
    BY <2>1 DEF AllRanked
  <2> QED BY <1>4, <2>2 DEF Ranked
<1>7. a2 = a + 1 \/ (a2 = a /\ p2 > p)
  BY <1>1, <1>2, <1>3, <1>4 DEF Advances
<1>8. Number(a, p, r, g, t, d) < Number(a2, p2, r2, g2, t2, d2)
  <2>1. a2 > a \/ (a2 = a /\ p2 > p)
    BY <1>5, <1>7
  <2> QED BY <1>5, <1>6, <2>1 DEF Number
<1>9. Rank(w) = Number(a, p, r, g, t, d)
  BY <1>3, Zenon DEF Rank, Number
<1>10. Rank(w)' = Number(a2, p2, r2, g2, t2, d2)
  BY <1>4, Zenon DEF Rank, Number
<1> QED BY <1>8, <1>9, <1>10

\* So does an executor that goes on while its driver waits.
LEMMA ExecutorRank ==
    ASSUME ChainInv, ChainInv', NEW w \in Workflows, UNCHANGED wf, ExecutorMoves(w)
    PROVE  Rank(w) < Rank(w)'
<1>1. PICK e2 : Become(w, e2) /\ Further(exec[w], e2)
  BY Zenon DEF ExecutorMoves
<1>2. exec'[w] = e2
  BY <1>1 DEF ChainInv, BrokerInv, BrokerType, Become, Workflows
<1>3. PICK a, p, r, g, t, d :
        /\ a = wf[w].request.seq /\ p = PcOrder[wf[w].pc] /\ r = exec[w].role
        /\ g = StageOrder[exec[w].pc] /\ t = exec[w].at
        /\ d = IF exec[w].removed THEN 1 ELSE 0
  OBVIOUS
<1>4. PICK r2, g2, t2, d2 :
        /\ r2 = e2.role /\ g2 = StageOrder[e2.pc] /\ t2 = e2.at
        /\ d2 = IF e2.removed THEN 1 ELSE 0
  OBVIOUS
<1>5. a \in Nat /\ p \in 1..8 /\ r \in 1..2 /\ g \in 1..17 /\ t \in 1..3 /\ d \in 0..1
  BY <1>3, RankRanges DEF AllRanked, Ranked
<1>6. r2 \in 1..2 /\ g2 \in 1..17 /\ t2 \in 1..3 /\ d2 \in 0..1
  <2>1. AllRanked'
    BY RankRanges, PTL
  <2>2. Ranked(w)'
    BY <2>1 DEF AllRanked
  <2> QED BY <1>2, <1>4, <2>2 DEF Ranked
<1>7. \/ r2 = r + 1
      \/ r2 = r /\ g2 > g
      \/ r2 = r /\ g2 = g /\ t2 = t + 1
      \/ r2 = r /\ g2 = g /\ t2 = t /\ d = 0 /\ d2 = 1
  BY <1>1, <1>3, <1>4 DEF Further
<1>8. Number(a, p, r, g, t, d) < Number(a, p, r2, g2, t2, d2)
  BY <1>5, <1>6, <1>7 DEF Number
<1>9. Rank(w) = Number(a, p, r, g, t, d)
  BY <1>3, Zenon DEF Rank, Number
<1>10. Rank(w)' = Number(a, p, r2, g2, t2, d2)
  BY <1>2, <1>3, <1>4, Zenon DEF Rank, Number
<1> QED BY <1>8, <1>9, <1>10

\* What a step must do for every review.
Forward ==
    \A w \in Workflows :
      <<wf[w], exec[w]>> # <<wf[w], exec[w]>>' => Rank(w) < Rank(w)'

\* A step moves one review, and that one on.
LEMMA OneMoves ==
    ASSUME ChainInv, ChainInv', NEW w \in Workflows,
           \/ DriverMoves(w) /\ (UNCHANGED exec \/ \E e2 : Become(w, e2))
           \/ UNCHANGED wf /\ ExecutorMoves(w)
    PROVE  Forward
<1> SUFFICES ASSUME NEW v \in Workflows, <<wf[v], exec[v]>> # <<wf[v], exec[v]>>'
             PROVE  Rank(v) < Rank(v)'
  BY DEF Forward
<1>1. v = w
  <2>1. ASSUME v # w PROVE FALSE
    <3>1. wf'[v] = wf[v]
      BY <2>1 DEF DriverMoves, ChainInv, DriversInv, ReviewType
    <3>2. exec'[v] = exec[v]
      BY <2>1 DEF ExecutorMoves, Become, ChainInv, BrokerInv, BrokerType, Workflows
    <3> QED BY <3>1, <3>2
  <2> QED BY <2>1
<1> QED BY <1>1, DriverRank, ExecutorRank

\* The batch that is handed over takes the executor on.
LEMMA BeginMoves ==
    ASSUME BrokerInv, NEW w \in Batches, NEW batch, Begin(w, batch)
    PROVE  ExecutorMoves(w)
<1>1. PICK e, pc : e = exec[w] /\ pc = IF BatchParses(batch) THEN "probe" ELSE "failed"
  OBVIOUS
<1>2. PICK e2 : e2 = [e EXCEPT !.pc = pc, !.packet = batch[3]]
  OBVIOUS
<1>3. Become(w, e2)
  BY <1>1, <1>2, Zenon DEF Begin
<1>4. ExecShape(e) /\ e.pc = "idle"
  BY <1>1, OwnInv DEF Begin
<1>5. IsAt(e, e2, pc)
  BY <1>2, <1>4 DEF ExecShape, IsAt
<1>6. StageOrder[pc] > StageOrder[e.pc]
  BY <1>1, <1>4, StageOrderIs
<1> QED BY <1>1, <1>3, <1>5, <1>6, StageMoves

\* So no step takes a review back.
LEMMA StepGoesForward ==
    ASSUME ChainInv, ChainInv', [Next]_vars
    PROVE  Forward
<1>1. BrokerInv /\ DriversInv
  BY DEF ChainInv
<1>2. ASSUME UNCHANGED <<wf, exec>> PROVE Forward
  BY <1>2 DEF Forward
<1>3. ASSUME NEW w \in Workflows, DriverMoves(w), UNCHANGED exec PROVE Forward
  BY <1>3, OneMoves
<1>4. ASSUME NEW w \in Workflows, Start(w) PROVE Forward
  <2>1. UNCHANGED exec
    BY <1>4, Zenon DEF Start, brokerVars
  <2> QED BY <1>1, <1>3, <1>4, <2>1, StartMoves
<1>5. ASSUME NEW w \in Workflows,
             PrepareSnapshot(w) \/ Materialise(w) \/ RecheckSnapshot(w)
             \/ PrepareFrozen(w) \/ PrepareJudge(w)
      PROVE  Forward
  <2>1. UNCHANGED exec
    BY <1>5, Zenon DEF PrepareSnapshot, Materialise, RecheckSnapshot, PrepareFrozen,
       PrepareJudge, brokerVars
  <2> QED BY <1>1, <1>3, <1>5, <2>1, PrepareMoves
<1>6. ASSUME NEW w \in Workflows,
             ExecuteOffline(w) \/ EndBroker(w) \/ FinalizeOutside(w) \/ FinalizeInside(w)
      PROVE  Forward
  <2>1. UNCHANGED exec
    BY <1>6, Zenon DEF ExecuteOffline, EndBroker, FinalizeOutside, FinalizeInside,
       brokerVars
  <2> QED BY <1>1, <1>3, <1>6, <2>1, FinalizeMoves
<1>7. ASSUME NEW w \in Workflows, BeginBroker(w) \/ Broker(w) PROVE Forward
  <2>1. UNCHANGED wf
    BY <1>7, Zenon DEF BeginBroker, Broker, reviewVars
  <2>2. ExecutorMoves(w)
    <3>1. CASE BeginBroker(w)
      BY <1>1, <3>1, BeginMoves, Zenon DEF BeginBroker, Workflows
    <3>2. CASE Broker(w)
      BY <1>1, <3>2, ExecuteBatchMoves, Zenon DEF Broker, Workflows
    <3> QED BY <1>7, <3>1, <3>2
  <2> QED BY <2>1, <2>2, OneMoves
<1>8. ASSUME NEW w \in Workflows, Step(w) PROVE Forward
  BY <1>5, <1>6, <1>7, <1>8, Zenon DEF Step
<1>9. ASSUME NEW w \in Workflows, Rejudge(w) PROVE Forward
  <2>1. UNCHANGED <<wf, exec>>
    BY <1>9, Zenon DEF Rejudge
  <2> QED BY <1>2, <2>1
<1>10. ASSUME NEW w \in Workflows, CopyFails(w) PROVE Forward
  <2>1. wf[w].pc \in {"prepare", "finalize"} /\ Fail(w) /\ UNCHANGED exec
    BY <1>10, Zenon DEF CopyFails
  <2>2. DriverMoves(w)
    BY <1>1, <2>1, FailMoves
  <2> QED BY <1>3, <2>1, <2>2
<1>11. ASSUME NEW w \in Workflows, Kill(w) PROVE Forward
  <2>1. wf[w].pc \notin Stopped /\ Fail(w)
    BY <1>11, Zenon DEF Kill
  <2>2. DriverMoves(w)
    BY <1>1, <2>1, FailMoves DEF Stopped
  <2>3. UNCHANGED exec \/ \E e2 : Become(w, e2)
    BY <1>11, Zenon DEF Kill, Die
  <2> QED BY <2>2, <2>3, OneMoves
<1>12. ASSUME Edit \/ Tick \/ UNCHANGED vars PROVE Forward
  <2>1. UNCHANGED <<wf, exec>>
    BY <1>12, Zenon DEF Edit, Tick, vars, brokerVars, reviewVars
  <2> QED BY <1>2, <2>1
<1> QED BY <1>4, <1>8, <1>9, <1>10, <1>11, <1>12, Zenon DEF Next

\* Every step a review takes brings it nearer its end: no failure, no foreign
\* resource and no cleanup that fails sends the driver or the executor back to
\* a place it has left (run_fixed_workflow, _execute_one, the finally block).
THEOREM ForwardTheorem == Spec => AlwaysForward
<1>1. ChainInv /\ ChainInv' /\ [Next]_vars => [Forward]_vars
  BY StepGoesForward
<1> QED BY <1>1, ChainInvariance, PTL DEF Spec, AlwaysForward, Forward

-----------------------------------------------------------------------------
(* A pass is earned *)

\* The place of each phase in the order.
LEMMA SequenceIs ==
    /\ Sequence["snapshot"] = 1 /\ Sequence["red-snapshot"] = 2
    /\ Sequence["offline"] = 3 /\ Sequence["review-packet"] = 4
    /\ Sequence["broker"] = 5 /\ Sequence["sign"] = 6
<1>1. DOMAIN PhaseOrder = 1..7
  BY DEF PhaseOrder
<1>2. /\ PhaseOrder[1] = "snapshot" /\ PhaseOrder[2] = "red-snapshot"
      /\ PhaseOrder[3] = "offline" /\ PhaseOrder[4] = "review-packet"
      /\ PhaseOrder[5] = "broker" /\ PhaseOrder[6] = "sign"
      /\ PhaseOrder[7] = "attested-judge"
  BY DEF PhaseOrder
<1>3. ASSUME NEW i \in 1..7, NEW j \in 1..7, PhaseOrder[i] = PhaseOrder[j]
      PROVE  i = j
  <2>1. /\ i \in {1, 2, 3, 4, 5, 6, 7} /\ j \in {1, 2, 3, 4, 5, 6, 7}
    BY <1>3
  <2> QED BY <1>2, <1>3, <2>1
<1>4. ASSUME NEW i \in 1..7 PROVE Sequence[PhaseOrder[i]] = i
  <2>1. PhaseOrder[i] \in Range(PhaseOrder)
    BY <1>1 DEF Range
  <2>2. Sequence[PhaseOrder[i]] =
          CHOOSE d \in DOMAIN PhaseOrder :
            PhaseOrder[i] \in Range(PhaseOrder) => PhaseOrder[d] = PhaseOrder[i]
    BY <2>1, Zenon DEF Sequence, AntiFunction, Inverse
  <2> QED BY <1>1, <1>3, <2>1, <2>2
<1> QED BY <1>2, <1>4

\* What a review with these results and calls, judged at this time, must have
\* been to pass.
Earned(results, made, at) ==
    /\ PolicyHolds(results[1].request.cand)
    /\ GatesPass(results[3].artifact[3]) /\ TddHolds(results[3].artifact[3])
    /\ results[3].artifact[3]["green"].tree = TreeOf[results[1].request.cand]
    /\ \A r \in RoleSet :
         /\ AnswerOf(results[5].evidence[3], r) = "accept"
         /\ \E c \in Range(made) :
              c.packet = results[1].request.cand /\ c.role = r
    /\ at - results[6].artifact[3].issued <= MaxAge

Verdicts == [wf : Workflows, status : {"pass", "fail", "human_review"},
             at : Nat]

\* A verdict that is no failure has spent the nonces of its review, over six
\* committed phases; a pass was earned, and is the only such verdict of its
\* review.
EarnedInv ==
    /\ verdicts \in Seq(Verdicts)
    /\ \A i \in DOMAIN verdicts :
         verdicts[i].status # "fail" =>
           /\ verdicts[i].wf \in nonces
           /\ Len(wf[verdicts[i].wf].results) >= 6
           /\ \A j \in DOMAIN verdicts \ {i} :
                verdicts[j].wf = verdicts[i].wf => verdicts[j].status = "fail"
    /\ \A i \in DOMAIN verdicts :
         verdicts[i].status = "pass" =>
           Earned(wf[verdicts[i].wf].results, calls[verdicts[i].wf], verdicts[i].at)

\* The property follows.
LEMMA InvEarned == EarnedInv => PassIsEarned
<1> SUFFICES ASSUME EarnedInv, NEW i \in DOMAIN verdicts, verdicts[i].status = "pass"
             PROVE  LET v == verdicts[i]
                        cand == wf[v.wf].results[1].request.cand
                    IN /\ PolicyHolds(cand)
                       /\ GatesPass(Runs(v.wf)) /\ TddHolds(Runs(v.wf))
                       /\ Runs(v.wf)["green"].tree = TreeOf[cand]
                       /\ \A r \in RoleSet :
                            /\ AnswerOf(Result(v.wf, "broker").evidence[3], r) = "accept"
                            /\ \E c \in Range(calls[v.wf]) : c.packet = cand /\ c.role = r
                       /\ v.at - Result(v.wf, "sign").artifact[3].issued <= MaxAge
                       /\ \A j \in DOMAIN verdicts \ {i} :
                            verdicts[j].wf = v.wf => verdicts[j].status = "fail"
  BY Zenon DEF PassIsEarned
<1>1. PICK v : v = verdicts[i]
  OBVIOUS
<1>2. /\ Runs(v.wf) = wf[v.wf].results[3].artifact[3]
      /\ Result(v.wf, "broker") = wf[v.wf].results[5]
      /\ Result(v.wf, "sign") = wf[v.wf].results[6]
  BY SequenceIs, Zenon DEF Runs, Result
<1>3. Earned(wf[v.wf].results, calls[v.wf], v.at)
  BY <1>1 DEF EarnedInv
<1>4. \A j \in DOMAIN verdicts \ {i} : verdicts[j].wf = v.wf => verdicts[j].status = "fail"
  BY <1>1 DEF EarnedInv
<1> QED BY <1>1, <1>2, <1>3, <1>4, Zenon DEF Earned

\* What was earned stays so: no committed phase and no call is taken back.
LEMMA EarnedGrows ==
    ASSUME NEW results, IsSequence(results), Len(results) >= 6,
           NEW results2, results2 = results \/ \E x : results2 = Append(results, x),
           NEW made, NEW made2, Range(made) \subseteq Range(made2),
           NEW at, Earned(results, made, at)
    PROVE  Earned(results2, made2, at) /\ Len(results2) >= 6
<1>1. /\ results2[1] = results[1] /\ results2[3] = results[3]
      /\ results2[5] = results[5] /\ results2[6] = results[6]
      /\ Len(results2) >= 6
  <2>1. CASE results2 = results
    BY <2>1
  <2>2. ASSUME NEW x, results2 = Append(results, x)
        PROVE  /\ results2[1] = results[1] /\ results2[3] = results[3]
               /\ results2[5] = results[5] /\ results2[6] = results[6]
               /\ Len(results2) >= 6
    BY <2>2, AppendIs
  <2> QED BY <2>1, <2>2
<1> QED BY <1>1, Zenon DEF Earned

\* Only Call adds to the calls of a review, and takes none away.
LEMMA CallsGrow ==
    ASSUME BrokerInv, NEW b \in Batches, ExecuteBatch(b)
    PROVE  \A v \in Workflows : Range(calls[v]) \subseteq Range(calls'[v])
<1>1. CASE UNCHANGED calls
  BY <1>1
<1>2. CASE \E c : calls' = [calls EXCEPT ![b] = Append(calls[b], c)]
  <2>1. PICK c : calls' = [calls EXCEPT ![b] = Append(calls[b], c)]
    BY <1>2
  <2>2. calls \in [Batches -> Seq(CallRecords)]
    BY DEF BrokerInv, BrokerType
  <2>3. Range(calls[b]) \subseteq Range(Append(calls[b], c))
    <3>1. PICK s : s = calls[b] /\ s \in Seq(CallRecords)
      BY <2>2
    <3>2. /\ DOMAIN s = 1..Len(s) /\ DOMAIN Append(s, c) = 1..(Len(s) + 1)
          /\ \A i \in 1..Len(s) : Append(s, c)[i] = s[i]
      BY <3>1
    <3>3. Len(s) \in Nat
      BY <3>1
    <3>4. 1..Len(s) \subseteq 1..(Len(s) + 1)
      BY <3>3
    <3> QED BY <3>1, <3>2, <3>4 DEF Range
  <2> QED BY <2>1, <2>2, <2>3 DEF Workflows
<1>3. CASE Call(b)
  BY <1>1, <1>2, <1>3, Zenon DEF Call
<1>4. CASE Probe(b) \/ Reprobe(b) \/ Measure(b)
  BY <1>1, <1>4, Zenon DEF Probe, Reprobe, Measure
<1>5. CASE Preflight(b) \/ Create(b) \/ Connect(b) \/ Inspect(b) \/ Reserve(b)
           \/ InspectAgain(b)
  BY <1>1, <1>5, Zenon DEF Preflight, Create, Connect, Inspect, Reserve, InspectAgain
<1>6. CASE Remove(b) \/ CleanupCall(b) \/ Cleanup(b) \/ Absent(b)
  BY <1>1, <1>6, Zenon DEF Remove, CleanupCall, RemoveBroker, Cleanup, Absent
<1> QED BY <1>3, <1>4, <1>5, <1>6, Zenon DEF ExecuteBatch, ExecuteOne

\* No step takes back a committed phase of a review, or a call it made.
Kept(w) ==
    /\ \/ wf'[w].results = wf[w].results
       \/ \E x : wf'[w].results = Append(wf[w].results, x)
    /\ Range(calls[w]) \subseteq Range(calls'[w])

AllKept == \A w \in Workflows : Kept(w)

\* A driver that goes on keeps what the reviews have committed.
LEMMA DriverKeeps ==
    ASSUME DriversInv, NEW w \in Workflows, DriverMoves(w), UNCHANGED calls
    PROVE  AllKept
<1> SUFFICES ASSUME NEW v \in Workflows PROVE Kept(v)
  BY DEF AllKept
<1>1. PICK s2 : wf' = [wf EXCEPT ![w] = s2] /\ Advances(wf[w], s2)
  BY Zenon DEF DriverMoves
<1>2. wf = [u \in Workflows |-> wf[u]]
  BY DEF DriversInv, ReviewType
<1>3. CASE v = w
  <2>1. wf'[w] = s2
    BY <1>1, <1>2
  <2> QED BY <1>1, <1>3, <2>1 DEF Advances, Kept
<1>4. CASE v # w
  <2>1. wf'[v] = wf[v]
    BY <1>1, <1>2, <1>4
  <2> QED BY <2>1 DEF Kept
<1> QED BY <1>3, <1>4

\* So does every step.
LEMMA NextKeepsAll ==
    ASSUME ChainInv, [Next]_vars
    PROVE  AllKept
<1>1. BrokerInv /\ DriversInv
  BY DEF ChainInv
<1>2. ASSUME UNCHANGED <<wf, calls>> PROVE AllKept
  BY <1>2 DEF AllKept, Kept
<1>3. ASSUME NEW w \in Workflows, DriverMoves(w), UNCHANGED calls PROVE AllKept
  BY <1>1, <1>3, DriverKeeps
<1>4. ASSUME NEW w \in Workflows, Start(w) PROVE AllKept
  <2>1. UNCHANGED calls
    BY <1>4, Zenon DEF Start, brokerVars
  <2> QED BY <1>1, <1>3, <1>4, <2>1, StartMoves
<1>5. ASSUME NEW w \in Workflows,
             PrepareSnapshot(w) \/ Materialise(w) \/ RecheckSnapshot(w)
             \/ PrepareFrozen(w) \/ PrepareJudge(w)
      PROVE  AllKept
  <2>1. UNCHANGED calls
    BY <1>5, Zenon DEF PrepareSnapshot, Materialise, RecheckSnapshot, PrepareFrozen,
       PrepareJudge, brokerVars
  <2> QED BY <1>1, <1>3, <1>5, <2>1, PrepareMoves
<1>6. ASSUME NEW w \in Workflows,
             ExecuteOffline(w) \/ EndBroker(w) \/ FinalizeOutside(w) \/ FinalizeInside(w)
      PROVE  AllKept
  <2>1. UNCHANGED calls
    BY <1>6, Zenon DEF ExecuteOffline, EndBroker, FinalizeOutside, FinalizeInside,
       brokerVars
  <2> QED BY <1>1, <1>3, <1>6, <2>1, FinalizeMoves
<1>7. ASSUME NEW w \in Workflows, BeginBroker(w) PROVE AllKept
  <2>1. UNCHANGED <<wf, calls>>
    BY <1>7, Zenon DEF BeginBroker, Begin, reviewVars
  <2> QED BY <1>2, <2>1
<1>8. ASSUME NEW w \in Workflows, Broker(w) PROVE AllKept
  <2>1. UNCHANGED wf /\ ExecuteBatch(w)
    BY <1>8, Zenon DEF Broker, reviewVars
  <2>2. \A v \in Workflows : Range(calls[v]) \subseteq Range(calls'[v])
    BY <1>1, <2>1, CallsGrow, Zenon DEF Workflows
  <2> QED BY <2>1, <2>2 DEF AllKept, Kept
<1>9. ASSUME NEW w \in Workflows, Step(w) PROVE AllKept
  BY <1>5, <1>6, <1>7, <1>8, <1>9, Zenon DEF Step
<1>10. ASSUME NEW w \in Workflows, Rejudge(w) PROVE AllKept
  <2>1. UNCHANGED <<wf, calls>>
    BY <1>10, Zenon DEF Rejudge
  <2> QED BY <1>2, <2>1
<1>11. ASSUME NEW w \in Workflows, CopyFails(w) PROVE AllKept
  <2>1. wf[w].pc \in {"prepare", "finalize"} /\ Fail(w) /\ UNCHANGED calls
    BY <1>11, Zenon DEF CopyFails
  <2>2. DriverMoves(w)
    BY <1>1, <2>1, FailMoves
  <2> QED BY <1>3, <2>1, <2>2
<1>12. ASSUME NEW w \in Workflows, Kill(w) PROVE AllKept
  <2>1. wf[w].pc \notin Stopped /\ Fail(w) /\ UNCHANGED calls
    BY <1>12, Zenon DEF Kill, Die
  <2>2. DriverMoves(w)
    BY <1>1, <2>1, FailMoves DEF Stopped
  <2> QED BY <1>3, <2>1, <2>2
<1>13. ASSUME Edit \/ Tick \/ UNCHANGED vars PROVE AllKept
  <2>1. UNCHANGED <<wf, calls>>
    BY <1>13, Zenon DEF Edit, Tick, vars, brokerVars, reviewVars
  <2> QED BY <1>2, <2>1
<1> QED BY <1>4, <1>9, <1>10, <1>11, <1>12, <1>13, Zenon DEF Next

\* The answer of a role, as the evidence of the batch has it, is one of those
\* the role may give.
LEMMA AnswersDecided ==
    ASSUME NEW outer, NEW batch, FinalizeEvidence(outer, batch),
           \A i \in DOMAIN batch[4] : ReviewUsable(outer.runs[i], batch[4][i])
    PROVE  \A r \in RoleSet : AnswerOf(outer, r) \in Decisions[r]
<1>1. PICK runs : runs = outer.runs
  OBVIOUS
<1>2. [i \in DOMAIN runs |-> runs[i].role] = Roles
  BY <1>1, Zenon DEF FinalizeEvidence
<1>3. [i \in DOMAIN batch[4] |-> batch[4][i].request.role] = Roles
  BY Zenon DEF FinalizeEvidence, BatchValid
<1>4. /\ DOMAIN runs = DOMAIN Roles /\ DOMAIN batch[4] = DOMAIN Roles
      /\ \A i \in DOMAIN Roles : runs[i].role = Roles[i]
  BY <1>2, <1>3, Zenon
<1> SUFFICES ASSUME NEW r \in RoleSet PROVE AnswerOf(outer, r) \in Decisions[r]
  OBVIOUS
<1>5. PICK k : k = CHOOSE i \in DOMAIN Roles : Roles[i] = r
  OBVIOUS
<1>6. k \in DOMAIN Roles /\ Roles[k] = r
  <2>1. \E i \in DOMAIN Roles : Roles[i] = r
    BY DEF Roles, RoleSet
  <2> QED BY <1>5, <2>1
<1>7. runs[k].answer.review \in Decisions[runs[k].role]
  BY <1>1, <1>4, <1>6, Zenon DEF ReviewUsable
<1>8. AnswerOf(outer, r) = runs[k].answer.review
  BY <1>1, <1>5, Zenon DEF AnswerOf, OfRole
<1> QED BY <1>4, <1>6, <1>7, <1>8

\* Each role has been called for the candidate of a review that has committed
\* its broker phase.
LEMMA RolesCalled ==
    ASSUME ChainInv, NEW w \in Workflows, Len(wf[w].results) >= 5
    PROVE  \A r \in RoleSet :
             \E c \in Range(calls[w]) : c.packet = wf[w].request.cand /\ c.role = r
<1>1. PICK e, made, rows, rt : /\ e = exec[w] /\ made = calls[w]
                               /\ rows = ledger[w] /\ rt = runtime
  OBVIOUS
<1>2. ExecutorInv(wf[w], e) /\ BatchInv(w, e, rt, rows, made)
  <2>1. ExecutorInv(wf[w], e)
    BY <1>1 DEF ChainInv, DriversInv, ReviewInv
  <2>2. BatchInv(w, e, rt, rows, made)
    BY <1>1 DEF ChainInv, BrokerInv, Workflows
  <2> QED BY <2>1, <2>2
<1>3. e.pc = "done" /\ e.packet = wf[w].request.cand
  <2>1. e.pc = "done"
    BY <1>2 DEF ExecutorInv
  <2> QED BY <1>2, <2>1 DEF ExecutorInv
<1>4. e.role = 2
  BY <1>2, <1>3 DEF BatchInv, Flags
<1>5. CallsInv(e, rows, made)
  BY <1>2 DEF BatchInv
<1>6. Called(made, "reviewer")
  <2>1. e.pc \notin Ended \ {"done"}
    BY <1>3
  <2> QED BY <1>4, <1>5, <2>1, Zenon DEF CallsInv
<1>7. Called(made, "adversary")
  <2>1. Called(made, Roles[e.role])
    BY <1>3, <1>5, Zenon DEF CallsInv
  <2>2. Roles[e.role] = "adversary"
    BY <1>4 DEF Roles
  <2> QED BY <2>1, <2>2
<1>8. \A i \in DOMAIN made : made[i].packet = e.packet
  BY <1>5 DEF CallsInv
<1> QED BY <1>1, <1>3, <1>6, <1>7, <1>8 DEF Called, Range, RoleSet

\* A judge that passes a review found all there is to find.
LEMMA PassEarned ==
    ASSUME ChainInv, NEW w \in Workflows, Len(wf[w].results) >= 6,
           BundleSound(w), AttestationsHold(w), OrdinaryVerdict(w) = "self_reported"
    PROVE  Earned(wf[w].results, calls[w], clock)
<1>1. PICK rs, c : rs = wf[w].results /\ c = wf[w].request.cand
  OBVIOUS
<1>2. rs[1].request.cand = c
  <2>1. DriverInv(wf[w], w) /\ IsSequence(rs)
    BY <1>1 DEF ChainInv, DriversInv, ReviewInv, DriverInv
  <2>2. Len(rs) \in Nat /\ DOMAIN rs = 1..Len(rs)
    BY <2>1, AppendIs
  <2>3. 1 \in DOMAIN rs
    BY <1>1, <2>2
  <2>4. wf[w].pc # "new"
    <3>1. wf[w].pc = "new" => rs = <<>>
      BY <1>1, <2>1 DEF DriverInv, New
    <3> QED BY <1>1, <3>1
  <2>5. Chained(rs, w, c)
    BY <1>1, <2>1, <2>4 DEF DriverInv
  <2> QED BY <2>3, <2>5 DEF Chained, OfPhase, ForPhase
<1>3. /\ Runs(w) = rs[3].artifact[3] /\ Trees(w) = rs[1].artifact[3]
      /\ Result(w, "broker") = rs[5] /\ Result(w, "sign") = rs[6]
  BY <1>1, SequenceIs, Zenon DEF Runs, Trees, Result
<1>4. PICK answers : answers = [r \in RoleSet |-> AnswerOf(rs[5].evidence[3], r)]
  OBVIOUS
<1>5. /\ PolicyHolds(c) /\ GatesPass(Runs(w)) /\ TddHolds(Runs(w))
      /\ \A r \in RoleSet : answers[r] # "reject" /\ answers[r] # "medium"
  <2>1. OrdinaryVerdict(w) =
          IF \/ ~PolicyHolds(c) \/ ~GatesPass(Runs(w)) \/ ~TddHolds(Runs(w))
             \/ \E r \in RoleSet : answers[r] = "reject" THEN "fail"
          ELSE IF \E r \in RoleSet : answers[r] = "medium" THEN "human_review"
          ELSE "self_reported"
    BY <1>1, <1>3, <1>4, Zenon DEF OrdinaryVerdict
  <2>2. "fail" # "self_reported" /\ "human_review" # "self_reported"
    OBVIOUS
  <2> QED BY <2>1, <2>2, Zenon
<1>6. Runs(w)["green"].tree = TreeOf[c]
  <2>1. Runs(w)["green"].tree = Trees(w).cand
    <3>1. TddSnapshotsHold(Bundle(w))
      BY Zenon DEF AttestationsHold, ExpectationsHold
    <3>2. Bundle(w).runs = Runs(w) /\ Bundle(w).tree = Trees(w).cand
      BY DEF Bundle
    <3> QED BY <3>1, <3>2 DEF TddSnapshotsHold
  <2>2. Trees(w).cand = TreeOf[c]
    BY <1>1, Zenon DEF BundleSound, StoreSound, Verified
  <2> QED BY <2>1, <2>2
<1>7. \A r \in RoleSet : AnswerOf(rs[5].evidence[3], r) = "accept"
  <2>1. PICK outer, batch : outer = rs[5].evidence[3] /\ batch = rs[5].evidence[2]
    OBVIOUS
  <2>2. /\ FinalizeEvidence(outer, batch)
        /\ \A i \in DOMAIN batch[4] : ReviewUsable(outer.runs[i], batch[4][i])
    BY <1>3, <2>1, Zenon DEF BundleSound, BrokerSound
  <2>3. \A r \in RoleSet : AnswerOf(outer, r) \in Decisions[r]
    BY <2>2, AnswersDecided
  <2> SUFFICES ASSUME NEW r \in RoleSet PROVE AnswerOf(outer, r) = "accept"
    BY <2>1
  <2>4. AnswerOf(outer, r) \in {"accept", "medium", "reject"}
    BY <2>3, DecisionsAssumption
  <2>5. answers[r] = AnswerOf(outer, r)
    BY <1>4, <2>1
  <2> QED BY <1>5, <2>4, <2>5
<1>8. clock - rs[6].artifact[3].issued <= MaxAge
  BY <1>3, Zenon DEF AttestationsHold, SignedAttestations
<1>9. \A r \in RoleSet : \E x \in Range(calls[w]) : x.packet = c /\ x.role = r
  <2>1. Len(wf[w].results) >= 5
    <3>1. Len(rs) \in Nat
      BY <1>1, AppendIs DEF ChainInv, DriversInv, ReviewInv, DriverInv
    <3> QED BY <1>1, <3>1
  <2> QED BY <1>1, <2>1, RolesCalled
<1> QED BY <1>1, <1>2, <1>3, <1>5, <1>6, <1>7, <1>8, <1>9, Zenon DEF Earned

\* A verdict that was given stays earned, whatever step follows.
LEMMA VerdictStays ==
    ASSUME ChainInv, EarnedInv, AllKept, NEW i \in DOMAIN verdicts
    PROVE  /\ verdicts[i] \in Verdicts
           /\ verdicts[i].status # "fail" => Len(wf'[verdicts[i].wf].results) >= 6
           /\ verdicts[i].status = "pass" =>
                Earned(wf'[verdicts[i].wf].results, calls'[verdicts[i].wf],
                       verdicts[i].at)
<1>1. PICK v : v = verdicts[i]
  OBVIOUS
<1>2. v \in Verdicts /\ v.wf \in Workflows
  <2>1. verdicts \in Seq(Verdicts)
    BY DEF EarnedInv
  <2>2. v \in Verdicts
    BY <1>1, <2>1
  <2> QED BY <2>2 DEF Verdicts
<1>3. PICK rs, rs2 : rs = wf[v.wf].results /\ rs2 = wf'[v.wf].results
  OBVIOUS
<1>4. IsSequence(rs)
  BY <1>2, <1>3 DEF ChainInv, DriversInv, ReviewInv, DriverInv
<1>5. rs2 = rs \/ \E x : rs2 = Append(rs, x)
  BY <1>2, <1>3 DEF AllKept, Kept
<1>6. Range(calls[v.wf]) \subseteq Range(calls'[v.wf])
  BY <1>2 DEF AllKept, Kept
<1>7. v.status # "fail" => Len(rs) >= 6
  BY <1>1, <1>3 DEF EarnedInv
<1>8. v.status # "fail" => Len(rs2) >= 6
  <2>1. ASSUME Len(rs) >= 6, NEW x, rs2 = Append(rs, x) PROVE Len(rs2) >= 6
    BY <1>4, <2>1, AppendIs
  <2> QED BY <1>5, <1>7, <2>1
<1>9. ASSUME v.status = "pass" PROVE Earned(rs2, calls'[v.wf], v.at)
  <2>1. v.status # "fail"
    BY <1>9
  <2>2. Earned(rs, calls[v.wf], v.at) /\ Len(rs) >= 6
    BY <1>1, <1>3, <1>7, <1>9, <2>1 DEF EarnedInv
  <2> QED BY <1>4, <1>5, <1>6, <2>2, EarnedGrows
<1> QED BY <1>1, <1>2, <1>3, <1>8, <1>9

\* A step that gives no verdict.
LEMMA NoVerdict ==
    ASSUME ChainInv, EarnedInv, AllKept, UNCHANGED <<verdicts, nonces>>
    PROVE  EarnedInv'
<1>1. verdicts' = verdicts /\ nonces' = nonces
  OBVIOUS
<1>2. verdicts' \in Seq(Verdicts)
  BY <1>1 DEF EarnedInv
<1>3. ASSUME NEW i \in DOMAIN verdicts', verdicts'[i].status # "fail"
      PROVE  /\ verdicts'[i].wf \in nonces'
             /\ Len(wf'[verdicts'[i].wf].results) >= 6
             /\ \A j \in DOMAIN verdicts' \ {i} :
                  verdicts'[j].wf = verdicts'[i].wf => verdicts'[j].status = "fail"
  BY <1>1, <1>3, VerdictStays DEF EarnedInv
<1>4. ASSUME NEW i \in DOMAIN verdicts', verdicts'[i].status = "pass"
      PROVE  Earned(wf'[verdicts'[i].wf].results, calls'[verdicts'[i].wf],
                    verdicts'[i].at)
  BY <1>1, <1>4, VerdictStays
<1> QED BY <1>2, <1>3, <1>4, Zenon DEF EarnedInv

\* A verdict is no failure only if the attestations hold and their nonces were
\* not spent, and a pass only if nothing but the provenance was missing.
LEMMA JudgeIs ==
    ASSUME NEW w, NEW attested \in BOOLEAN
    PROVE  /\ JudgeAttested(w, attested) \in {"pass", "fail", "human_review"}
           /\ JudgeAttested(w, attested) # "fail" => attested /\ w \notin nonces
           /\ JudgeAttested(w, attested) = "pass" =>
                OrdinaryVerdict(w) = "self_reported"
<1>1. PICK ordinary : ordinary = OrdinaryVerdict(w)
  OBVIOUS
<1>2. ordinary \in {"fail", "human_review", "self_reported"}
  BY <1>1, Zenon DEF OrdinaryVerdict
<1>3. JudgeAttested(w, attested) =
        IF ~attested \/ w \in nonces THEN "fail"
        ELSE IF ordinary = "self_reported" THEN "pass" ELSE ordinary
  BY <1>1, Zenon DEF JudgeAttested, ReserveMany
<1> QED BY <1>1, <1>2, <1>3

\* A step that judges a review.
LEMMA JudgedKeeps ==
    ASSUME ChainInv, EarnedInv, AllKept, NEW w \in Workflows,
           Len(wf[w].results) >= 6, BundleSound(w),
           NEW attested, attested = AttestationsHold(w),
           Judged(w, attested, JudgeAttested(w, attested))
    PROVE  EarnedInv'
<1>0. attested \in BOOLEAN
  BY DEF AttestationsHold
<1>1. PICK status : status = JudgeAttested(w, attested)
  OBVIOUS
<1>2. PICK v : v = [wf |-> w, status |-> status, at |-> clock]
  OBVIOUS
<1>3. /\ status \in {"pass", "fail", "human_review"}
      /\ status # "fail" => attested /\ w \notin nonces
      /\ status = "pass" => OrdinaryVerdict(w) = "self_reported"
  BY <1>0, <1>1, JudgeIs
<1>4. /\ verdicts' = Append(verdicts, v)
      /\ nonces' = IF attested THEN nonces \cup {w} ELSE nonces
  BY <1>1, <1>2, Zenon DEF Judged
<1>5. v \in Verdicts /\ v.wf = w /\ v.status = status /\ v.at = clock
  BY <1>2, <1>3 DEF Verdicts, ChainInv, DriversInv, ReviewType
<1>6. PICK n : n = Len(verdicts)
  OBVIOUS
<1>7. verdicts \in Seq(Verdicts)
  BY DEF EarnedInv
<1>8. /\ n \in Nat /\ DOMAIN verdicts = 1..n /\ DOMAIN verdicts' = 1..(n + 1)
      /\ verdicts' \in Seq(Verdicts)
      /\ verdicts'[n + 1] = v
      /\ \A i \in 1..n : verdicts'[i] = verdicts[i]
  BY <1>4, <1>5, <1>6, <1>7
<1>9. nonces \subseteq nonces' /\ (status # "fail" => w \in nonces')
  BY <1>3, <1>4
<1>10. status # "fail" => Len(wf'[w].results) >= 6
  <2>1. IsSequence(wf[w].results)
    BY DEF ChainInv, DriversInv, ReviewInv, DriverInv
  <2>2. \/ wf'[w].results = wf[w].results
        \/ \E x : wf'[w].results = Append(wf[w].results, x)
    BY DEF AllKept, Kept
  <2> QED BY <2>1, <2>2, AppendIs
<1>11. ASSUME status = "pass" PROVE Earned(wf'[w].results, calls'[w], clock)
  <2>1. status # "fail"
    BY <1>11
  <2>2. AttestationsHold(w) /\ OrdinaryVerdict(w) = "self_reported"
    BY <1>3, <1>11, <2>1
  <2>3. Earned(wf[w].results, calls[w], clock)
    BY <2>2, PassEarned
  <2>4. IsSequence(wf[w].results)
    BY DEF ChainInv, DriversInv, ReviewInv, DriverInv
  <2>5. /\ \/ wf'[w].results = wf[w].results
           \/ \E x : wf'[w].results = Append(wf[w].results, x)
        /\ Range(calls[w]) \subseteq Range(calls'[w])
    BY DEF AllKept, Kept
  <2> QED BY <2>3, <2>4, <2>5, EarnedGrows
<1>12. ASSUME NEW i \in DOMAIN verdicts', verdicts'[i].status # "fail"
       PROVE  /\ verdicts'[i].wf \in nonces'
              /\ Len(wf'[verdicts'[i].wf].results) >= 6
              /\ \A j \in DOMAIN verdicts' \ {i} :
                   verdicts'[j].wf = verdicts'[i].wf => verdicts'[j].status = "fail"
  <2>1. CASE i = n + 1
    <3>1. verdicts'[i] = v /\ status # "fail" /\ w \notin nonces
      BY <1>3, <1>5, <1>8, <1>12, <2>1
    <3>2. ASSUME NEW j \in 1..n, verdicts[j].wf = w PROVE verdicts[j].status = "fail"
      BY <1>8, <3>1, <3>2 DEF EarnedInv
    <3>3. ASSUME NEW j \in DOMAIN verdicts' \ {i}, verdicts'[j].wf = verdicts'[i].wf
          PROVE  verdicts'[j].status = "fail"
      <4>1. j \in 1..n
        BY <1>8, <2>1, <3>3
      <4>2. verdicts'[j] = verdicts[j]
        BY <1>8, <4>1
      <4> QED BY <1>5, <3>1, <3>2, <3>3, <4>1, <4>2
    <3> QED BY <1>5, <1>9, <1>10, <3>1, <3>3
  <2>2. CASE i # n + 1
    <3>1. i \in 1..n
      BY <1>8, <2>2
    <3>2. verdicts'[i] = verdicts[i]
      BY <1>8, <3>1
    <3>3. /\ verdicts[i].wf \in nonces
          /\ Len(wf'[verdicts[i].wf].results) >= 6
          /\ \A j \in 1..n \ {i} :
               verdicts[j].wf = verdicts[i].wf => verdicts[j].status = "fail"
      BY <1>8, <1>12, <3>1, <3>2, VerdictStays DEF EarnedInv
    <3>4. ASSUME NEW j \in DOMAIN verdicts' \ {i}, verdicts'[j].wf = verdicts'[i].wf
          PROVE  verdicts'[j].status = "fail"
      <4>1. CASE j = n + 1
        <5>1. verdicts'[j] = v
          BY <1>8, <4>1
        <5>2. w \in nonces
          BY <1>5, <3>2, <3>3, <3>4, <5>1
        <5> QED BY <1>3, <1>5, <5>1, <5>2
      <4>2. CASE j # n + 1
        <5>1. j \in 1..n \ {i}
          BY <1>8, <4>2
        <5>2. verdicts'[j] = verdicts[j]
          BY <1>8, <5>1
        <5> QED BY <3>2, <3>3, <3>4, <5>1, <5>2
      <4> QED BY <4>1, <4>2
    <3> QED BY <1>9, <3>2, <3>3, <3>4
  <2> QED BY <2>1, <2>2
<1>13. ASSUME NEW i \in DOMAIN verdicts', verdicts'[i].status = "pass"
       PROVE  Earned(wf'[verdicts'[i].wf].results, calls'[verdicts'[i].wf],
                     verdicts'[i].at)
  <2>1. CASE i = n + 1
    <3>1. verdicts'[i] = v
      BY <1>8, <2>1
    <3> QED BY <1>5, <1>11, <1>13, <3>1
  <2>2. CASE i # n + 1
    <3>1. i \in 1..n
      BY <1>8, <2>2
    <3>2. verdicts'[i] = verdicts[i]
      BY <1>8, <3>1
    <3> QED BY <1>8, <1>13, <3>1, <3>2, VerdictStays
  <2> QED BY <2>1, <2>2
<1> QED BY <1>8, <1>12, <1>13, Zenon DEF EarnedInv

\* Every step keeps what was earned.
LEMMA NextKeepsEarned == ChainInv /\ EarnedInv /\ [Next]_vars => EarnedInv'
<1> SUFFICES ASSUME ChainInv, EarnedInv, [Next]_vars PROVE EarnedInv'
  OBVIOUS
<1>1. AllKept
  BY NextKeepsAll
<1>2. ASSUME UNCHANGED <<verdicts, nonces>> PROVE EarnedInv'
  BY <1>1, <1>2, NoVerdict
<1>3. ASSUME NEW w \in Workflows, PrepareJudge(w) PROVE EarnedInv'
  <2>1. CASE BundleSound(w)
    <3>1. PICK attested : attested = AttestationsHold(w)
      OBVIOUS
    <3>2. Judged(w, attested, JudgeAttested(w, attested))
      BY <1>3, <2>1, <3>1, Zenon DEF PrepareJudge
    <3>3. Len(wf[w].results) >= 6
      <4>1. AtPrepare(w, "attested-judge")
        BY <1>3, Zenon DEF PrepareJudge
      <4>2. DriverInv(wf[w], w)
        BY DEF ChainInv, DriversInv, ReviewInv
      <4>3. wf[w].pc = "prepare" /\ PhaseOrder[wf[w].request.seq] = "attested-judge"
        BY <4>1 DEF AtPrepare, Phase
      <4>4. wf[w].request.seq \in 1..7 /\ Len(wf[w].results) = wf[w].request.seq - 1
        BY <4>2, <4>3 DEF DriverInv
      <4>5. wf[w].request.seq = 7
        <5>1. PICK q \in 1..7 : q = wf[w].request.seq
          BY <4>4
        <5>2. PhaseOrder[q] = "attested-judge"
          BY <4>3, <5>1
        <5>3. q = 7
          BY <5>2 DEF PhaseOrder
        <5> QED BY <5>1, <5>3
      <4> QED BY <4>4, <4>5
    <3> QED BY <1>1, <2>1, <3>1, <3>2, <3>3, JudgedKeeps
  <2>2. CASE ~BundleSound(w)
    <3>1. UNCHANGED <<verdicts, nonces>>
      BY <1>3, <2>2, Zenon DEF PrepareJudge
    <3> QED BY <1>2, <3>1
  <2> QED BY <2>1, <2>2
<1>4. ASSUME NEW w \in Workflows, Rejudge(w) PROVE EarnedInv'
  <2>1. PICK attested : attested = AttestationsHold(w)
    OBVIOUS
  <2>2. /\ Len(wf[w].results) >= 6 /\ BundleSound(w)
        /\ Judged(w, attested, JudgeAttested(w, attested))
    BY <1>4, <2>1, Zenon DEF Rejudge
  <2> QED BY <1>1, <2>1, <2>2, JudgedKeeps
<1>5. ASSUME NEW w \in Workflows,
             PrepareSnapshot(w) \/ Materialise(w) \/ RecheckSnapshot(w)
             \/ PrepareFrozen(w) \/ ExecuteOffline(w) \/ EndBroker(w)
             \/ FinalizeOutside(w) \/ FinalizeInside(w)
      PROVE  EarnedInv'
  <2>1. UNCHANGED <<verdicts, nonces>>
    BY <1>5, Zenon DEF PrepareSnapshot, Materialise, RecheckSnapshot, PrepareFrozen,
       ExecuteOffline, EndBroker, FinalizeOutside, FinalizeInside
  <2> QED BY <1>2, <2>1
<1>6. ASSUME NEW w \in Workflows,
             Start(w) \/ BeginBroker(w) \/ Broker(w) \/ CopyFails(w) \/ Kill(w)
      PROVE  EarnedInv'
  <2>1. UNCHANGED <<verdicts, nonces>>
    BY <1>6, Zenon DEF Start, BeginBroker, Broker, CopyFails, Kill, reviewVars
  <2> QED BY <1>2, <2>1
<1>7. ASSUME Edit \/ Tick \/ UNCHANGED vars PROVE EarnedInv'
  <2>1. UNCHANGED <<verdicts, nonces>>
    BY <1>7, Zenon DEF Edit, Tick, vars, reviewVars
  <2> QED BY <1>2, <2>1
<1>8. ASSUME NEW w \in Workflows, Step(w) PROVE EarnedInv'
  BY <1>3, <1>5, <1>6, <1>8, Zenon DEF Step
<1> QED BY <1>4, <1>6, <1>7, <1>8, Zenon DEF Next

\* A review passes only if the candidate named at its start satisfied the
\* policy, its runs were as they should be, each role was called for it and
\* accepted, and its attestations were fresh; and one set of attestations
\* passes once (BundleSound, AttestationsHold, JudgeAttested, ReserveMany).
THEOREM EarnedTheorem == Spec => []PassIsEarned
<1>1. Init => EarnedInv
  <2> SUFFICES ASSUME Init PROVE EarnedInv
    OBVIOUS
  <2>1. verdicts = <<>>
    BY DEF Init
  <2>2. verdicts \in Seq(Verdicts) /\ DOMAIN verdicts = {}
    BY <2>1
  <2> QED BY <2>2 DEF EarnedInv
<1>2. Spec => []EarnedInv
  BY <1>1, NextKeepsEarned, ChainInvariance, PTL DEF Spec
<1> QED BY <1>2, InvEarned, PTL

=============================================================================

----------------------- MODULE SearchOrchestratorProofs -----------------------
(***************************************************************************)
(* Proofs about SearchOrchestrator for every set of threads, every number  *)
(* of attempts, approvals and reservations.                                *)
(***************************************************************************)
EXTENDS SearchOrchestrator, SequenceTheorems, FiniteSetTheorems, TLAPS

-----------------------------------------------------------------------------
(* The inductive invariant *)

\* The threads that have locked the registry for themselves and will write
\* it again, and those that hold a started reservation.
Writing == {"generate_reserve", "generate_call", "generate_publish",
            "derive_reserve", "derive_call", "derive_publish"}
Holding == {"generate_call", "derive_call", "run_claim", "run_call"}
Running == {"run_validate", "run_reserve", "run_claim", "run_call"}

\* The statuses from which a call may go on.
Open == {"absent", "pending", "consumed", "retry_ready"}

Pc(t) == threads[t].pc

\* What was paid for and returned so far belongs to attempts up to a number.
ReferencesUpTo(n) ==
    \A i \in DOMAIN usage :
        usage[i].operation = "reference_image" => usage[i].binding \in 1..n
DerivedUpTo(n) ==
    \A i \in DOMAIN usage :
        usage[i].operation = "counterfactual_images" => usage[i].binding <= n
ImagesUpTo(n) == \A im \in images : im.review.attempt <= n

UpTo(references, derived, made) ==
    ReferencesUpTo(references) /\ DerivedUpTo(derived) /\ ImagesUpTo(made)

\* The variables keep their types.
Marks == [charge : Charges, status : {"started", "succeeded", "failed"}]
ThreadStates ==
    [pc : {"idle", "generate_lock", "skip_discard"} \cup Writing \cup Running,
     review : Reviews, found : SUBSET Marks, charge : Charges \cup {0},
     token : Tokens \cup {0}]

TypeInv ==
    /\ registry \in Registries
    /\ usage \in Seq(Reservations) /\ Len(usage) <= MaxCharges
    /\ consumed \subseteq Tokens
    /\ threads \in [Threads -> ThreadStates]
    /\ reviews \subseteq Reviews /\ images \subseteq Images
    /\ searches \subseteq Images /\ grants \in Seq(Images)
    /\ calls \in [Tokens -> Nat]

\* A thread's reservation exists; tokens come from issued approvals.
HoldInv ==
    /\ Len(grants) <= MaxGrants
    /\ \A t \in Threads :
          /\ Pc(t) \in Holding => threads[t].charge \in DOMAIN usage
          /\ Pc(t) \in Running => threads[t].token \in DOMAIN grants
          /\ Pc(t) \in {"generate_reserve", "generate_call"}
                => threads[t].review.attempt < MaxAttempts

\* A started reservation is some thread's.
StartedInv ==
    \A i \in DOMAIN usage : usage[i].status = "started" =>
        \E t \in Threads : Pc(t) \in Holding /\ threads[t].charge = i

\* The registry is a lock: one thread writes it, and while one does no other
\* call gets in, even after a discard has overwritten its mark.
LockInv ==
    /\ \A t, u \in Threads : Pc(t) \in Writing /\ Pc(u) \in Writing => t = u
    /\ registry.status \in Open => \A t \in Threads : Pc(t) \notin Writing

\* Nothing is paid for beyond the current reference, seen from the registry
\* when it is open and from the thread that holds it otherwise.
RegistryBounds ==
    LET a == registry.review.attempt
    IN  /\ registry.status \in Open => UpTo(a, a, a)
        /\ registry.status = "pending" => UpTo(a, a - 1, a - 1)

ThreadBounds(t) ==
    LET a == threads[t].review.attempt
    IN  /\ Pc(t) = "generate_reserve" => UpTo(a, a, a)
        /\ Pc(t) = "generate_call"    => UpTo(a + 1, a, a)
        /\ Pc(t) = "generate_publish" => UpTo(a, a - 1, a - 1)
        /\ Pc(t) = "derive_reserve"   => UpTo(a, a - 1, a - 1)
        /\ Pc(t) \in {"derive_call", "derive_publish"} => UpTo(a, a, a - 1)

AttemptInv == RegistryBounds /\ \A t \in Threads : ThreadBounds(t)

\* One reference per attempt, and none beyond the last.
ReferenceOnce ==
    \A i, j \in DOMAIN usage :
        /\ usage[i].operation = "reference_image"
        /\ usage[j].operation = "reference_image"
        /\ usage[i].binding = usage[j].binding
        => i = j

PaidInv == ReferencesUpTo(MaxAttempts) /\ ReferenceOnce /\ DerivedOnce

\* A token is in one thread's call, or its call was made, only after it was
\* claimed.
TokenInv ==
    /\ \A t \in Threads : Pc(t) = "run_call" =>
          threads[t].token \in consumed /\ calls[threads[t].token] = 0
    /\ \A t, u \in Threads :
          Pc(t) = "run_call" /\ Pc(u) = "run_call"
             /\ threads[t].token = threads[u].token => t = u
    /\ \A k \in Tokens : calls[k] # 0 => calls[k] = 1 /\ k \in consumed

IInv == /\ TypeInv /\ HoldInv /\ StartedInv /\ LockInv
        /\ AttemptInv /\ PaidInv /\ TokenInv

-----------------------------------------------------------------------------
(* Facts about the values *)

\* TypeInv names the sets that TypeOK writes out.
LEMMA TypeParts == TypeInv => TypeOK
BY DEF TypeInv, TypeOK, ThreadStates, Writing, Running, Marks

\* A review's attempt is a number up to the bound.
LEMMA ReviewFacts ==
    /\ NoReview \in Reviews /\ NoReview.attempt = 0
    /\ \A r \in Reviews : r.attempt \in 0..MaxAttempts
    /\ NoImages \in Images
    /\ \A im \in Images : im.review \in Reviews /\ im.charge \in Charges \cup {0}
BY SearchOrchestratorAssumption DEF Reviews, NoReview, Images, NoImages

\* A registry entry.
LEMMA EntryFacts ==
    ASSUME NEW r \in Reviews,
           NEW s \in {"absent", "generating", "pending", "deriving",
                      "consumed", "retry_ready", "discarded"}
    PROVE  /\ Entry(r, s) \in Registries
           /\ Entry(r, s).review = r /\ Entry(r, s).status = s
BY DEF Entry, Registries

\* What a thread holds.
LEMMA ThreadFacts ==
    ASSUME NEW pc \in {"idle", "generate_lock", "skip_discard"} \cup Writing
                         \cup Running,
           NEW r \in Reviews, NEW found \in SUBSET Marks,
           NEW charge \in Charges \cup {0}, NEW token \in Tokens \cup {0}
    PROVE  LET th == ThreadAt(pc, r, found, charge, token)
           IN  /\ th \in ThreadStates /\ th.pc = pc /\ th.review = r
               /\ th.charge = charge /\ th.token = token
BY DEF ThreadAt, ThreadStates

\* A thread that is at rest.
LEMMA IdleFacts == Idle \in ThreadStates /\ Idle.pc = "idle"
BY ThreadFacts, ReviewFacts DEF Idle

\* A thread that goes on keeps what it holds.
LEMMA NextPc ==
    ASSUME NEW th \in ThreadStates,
           NEW pc \in {"idle", "generate_lock", "skip_discard"} \cup Writing
                         \cup Running
    PROVE  LET n == [th EXCEPT !.pc = pc]
           IN  /\ n \in ThreadStates /\ n.pc = pc /\ n.review = th.review
               /\ n.charge = th.charge /\ n.token = th.token
BY DEF ThreadStates

\* One thread moves, the others stay.
LEMMA GoFacts ==
    ASSUME threads \in [Threads -> ThreadStates], NEW t \in Threads,
           NEW state \in ThreadStates, Go(t, state)
    PROVE  /\ threads' \in [Threads -> ThreadStates]
           /\ threads'[t] = state
           /\ \A u \in Threads : u # t => threads'[u] = threads[u]
BY DEF Go

\* A reservation is appended, started.
LEMMA ReserveFacts ==
    ASSUME TypeInv, NEW binding \in Nat,
           NEW operation \in {"reference_image", "counterfactual_images",
                              "product_search"},
           ReserveUsage(operation, binding)
    PROVE  LET n == Len(usage) + 1
           IN  /\ n \in Charges /\ usage' \in Seq(Reservations)
               /\ Len(usage') <= MaxCharges
               /\ n \notin DOMAIN usage
               /\ DOMAIN usage' = DOMAIN usage \cup {n}
               /\ \A i \in DOMAIN usage : usage'[i] = usage[i]
               /\ usage'[n].operation = operation
               /\ usage'[n].binding = binding /\ usage'[n].status = "started"
<1> DEFINE e == [operation |-> operation, binding |-> binding,
                 status |-> "started"]
<1>1. e \in Reservations
  BY DEF Reservations
<1>2. /\ usage \in Seq(Reservations) /\ Len(usage) \in Nat
      /\ usage' = Append(usage, e) /\ Len(usage) < MaxCharges
  BY DEF ReserveUsage, TypeInv
<1>3. /\ usage' \in Seq(Reservations) /\ Len(usage') = Len(usage) + 1
      /\ \A i \in 1..Len(usage) : usage'[i] = usage[i]
      /\ usage'[Len(usage) + 1] = e
  BY <1>1, <1>2, AppendProperties
<1>4. DOMAIN usage = 1..Len(usage) /\ DOMAIN usage' = 1..(Len(usage) + 1)
  BY <1>2, <1>3
<1>5. QED
  BY <1>2, <1>3, <1>4, SearchOrchestratorAssumption DEF Charges

\* A reservation is finished; the others are left alone.
LEMMA FinishFacts ==
    ASSUME TypeInv, NEW c \in DOMAIN usage, NEW success \in BOOLEAN,
           FinishUsage(c, success)
    PROVE  /\ usage' \in Seq(Reservations) /\ Len(usage') = Len(usage)
           /\ DOMAIN usage' = DOMAIN usage
           /\ usage'[c].status \in Finished
           /\ \A i \in DOMAIN usage :
                /\ usage'[i].operation = usage[i].operation
                /\ usage'[i].binding = usage[i].binding
                /\ i # c => usage'[i] = usage[i]
<1>1. Outcome(success) \in Finished
  BY DEF Outcome, Finished
<1>2. /\ usage \in Seq(Reservations)
      /\ usage' = [usage EXCEPT ![c].status = Outcome(success)]
  BY DEF FinishUsage, TypeInv
<1>3. /\ usage[c] \in Reservations
      /\ [usage[c] EXCEPT !.status = Outcome(success)] \in Reservations
  <2>1. usage[c] \in Reservations
    BY <1>2
  <2>2. QED
    BY <1>1, <2>1 DEF Reservations, Finished
<1>4. usage' =
        [usage EXCEPT ![c] = [usage[c] EXCEPT !.status = Outcome(success)]]
  BY <1>2
<1>5. usage' \in Seq(Reservations) /\ Len(usage') = Len(usage)
  BY <1>2, <1>3, <1>4
<1>6. QED
  BY <1>1, <1>2, <1>3, <1>4, <1>5 DEF Reservations

\* The bounds can be raised.
LEMMA BoundsGrow ==
    ASSUME TypeInv, NEW a \in Int, NEW b \in Int, a <= b
    PROVE  /\ ReferencesUpTo(a) => ReferencesUpTo(b)
           /\ DerivedUpTo(a) => DerivedUpTo(b)
           /\ ImagesUpTo(a) => ImagesUpTo(b)
<1>1. \A i \in DOMAIN usage : usage[i].binding \in Nat
  <2>1. \A i \in DOMAIN usage : usage[i] \in Reservations
    BY DEF TypeInv
  <2>2. QED
    BY <2>1 DEF Reservations
<1>2. \A im \in images : im.review.attempt \in Int
  BY ReviewFacts DEF TypeInv
<1>3. QED
  BY <1>1, <1>2 DEF ReferencesUpTo, DerivedUpTo, ImagesUpTo

\* Reservations that are only finished change no bound.
LEMMA SameBounds ==
    ASSUME DOMAIN usage' = DOMAIN usage,
           \A i \in DOMAIN usage :
              /\ usage'[i].operation = usage[i].operation
              /\ usage'[i].binding = usage[i].binding
    PROVE  /\ \A n : ReferencesUpTo(n)' <=> ReferencesUpTo(n)
           /\ \A n : DerivedUpTo(n)' <=> DerivedUpTo(n)
BY DEF ReferencesUpTo, DerivedUpTo

\* The same images, the same bound.
LEMMA SameImages ==
    ASSUME images' = images
    PROVE  \A n : ImagesUpTo(n)' <=> ImagesUpTo(n)
BY DEF ImagesUpTo

\* The bounds of the thread that writes the registry are all there are while
\* it is closed ...
LEMMA ClosedBounds ==
    ASSUME NEW t \in Threads, registry'.status \notin Open, ThreadBounds(t)',
           \A u \in Threads : u # t => Pc(u)' \notin Writing
    PROVE  AttemptInv'
BY DEF AttemptInv, RegistryBounds, ThreadBounds, Writing, Open

\* ... and those of the registry when no thread writes it.
LEMMA OpenBounds ==
    ASSUME RegistryBounds', \A u \in Threads : Pc(u)' \notin Writing
    PROVE  AttemptInv'
BY DEF AttemptInv, ThreadBounds, Writing

-----------------------------------------------------------------------------
(* Calls that move one thread and nothing else *)

\* What a step that moves only one thread, and into no writing, holding or
\* calling position it was not in, leaves alone.
LEMMA MoveKeeps ==
    ASSUME IInv, NEW t \in Threads,
           UNCHANGED <<registry, usage, consumed, results, calls>>,
           threads' \in [Threads -> ThreadStates],
           \A u \in Threads : u # t => threads'[u] = threads[u],
           Pc(t) \notin Holding, Pc(t)' \notin Writing \cup Holding,
           Pc(t)' \in Running => threads'[t].token \in DOMAIN grants
    PROVE  IInv'
<1> USE DEF IInv
<1>1. TypeInv'
  BY DEF TypeInv, results
<1>2. HoldInv'
  BY DEF HoldInv, Pc, results, Writing, Holding
<1>3. StartedInv'
  BY DEF StartedInv, Pc
<1>4. LockInv'
  BY DEF LockInv, Pc
<1>5. AttemptInv'
  <2>1. \A a, b, c : UpTo(a, b, c)' <=> UpTo(a, b, c)
    BY DEF UpTo, ReferencesUpTo, DerivedUpTo, ImagesUpTo, results
  <2>2. \A n : /\ DerivedUpTo(n)' <=> DerivedUpTo(n)
               /\ ImagesUpTo(n)' <=> ImagesUpTo(n)
    BY DEF DerivedUpTo, ImagesUpTo, results
  <2>3. QED
    BY <2>1, <2>2
       DEF AttemptInv, RegistryBounds, ThreadBounds, Pc, Writing
<1>6. PaidInv'
  BY DEF PaidInv, ReferencesUpTo, ReferenceOnce, DerivedOnce
<1>7. TokenInv'
  BY DEF TokenInv, Pc, Holding
<1>8. QED
  BY <1>1, <1>2, <1>3, <1>4, <1>5, <1>6, <1>7

\* A generation begins with what the ledger says of the review to replace.
LEMMA GenerateBeginKeeps ==
    ASSUME IInv, NEW t \in Threads, NEW prev \in reviews \cup {NoReview},
           GenerateBegin(t, prev)
    PROVE  IInv'
<1>1. prev \in Reviews /\ Found(prev) \in SUBSET Marks
  <2>1. prev \in Reviews
    BY ReviewFacts DEF IInv, TypeInv
  <2>2. DOMAIN usage \subseteq Charges
    BY SearchOrchestratorAssumption DEF IInv, TypeInv, Charges
  <2>3. \A i \in DOMAIN usage : usage[i] \in Reservations
    BY DEF IInv, TypeInv
  <2>4. \A i \in DOMAIN usage :
           usage[i].status \in {"started", "succeeded", "failed"}
    BY <2>3 DEF Reservations
  <2>5. QED
    BY <2>1, <2>2, <2>4 DEF Found, Marks
<1>2. /\ threads' \in [Threads -> ThreadStates]
      /\ threads'[t].pc = "generate_lock"
      /\ \A u \in Threads : u # t => threads'[u] = threads[u]
  BY <1>1, ThreadFacts, GoFacts DEF GenerateBegin, IInv, TypeInv
<1>3. QED
  BY <1>2, MoveKeeps
     DEF GenerateBegin, At, Pc, Writing, Holding, Running

\* A discard begins with images that are current.
LEMMA SkipImagesBeginKeeps ==
    ASSUME IInv, NEW t \in Threads, NEW im \in images, SkipImagesBegin(t, im)
    PROVE  IInv'
<1>1. im.review \in Reviews
  BY ReviewFacts DEF IInv, TypeInv
<1>2. /\ threads' \in [Threads -> ThreadStates]
      /\ threads'[t].pc = "skip_discard"
      /\ \A u \in Threads : u # t => threads'[u] = threads[u]
  BY <1>1, ThreadFacts, GoFacts DEF SkipImagesBegin, IInv, TypeInv
<1>3. QED
  BY <1>2, MoveKeeps
     DEF SkipImagesBegin, At, Pc, Writing, Holding, Running

\* Approvals are issued up to MaxGrants, so that each is a token.
LEMMA GrantFacts ==
    ASSUME IInv, NEW token \in DOMAIN grants
    PROVE  token \in Tokens
BY SearchOrchestratorAssumption DEF IInv, TypeInv, HoldInv, Tokens

\* A run begins with a token that was issued.
LEMMA RunBeginKeeps ==
    ASSUME IInv, NEW t \in Threads, NEW token \in DOMAIN grants,
           RunBegin(t, token)
    PROVE  IInv'
<1>1. /\ threads' \in [Threads -> ThreadStates]
      /\ threads'[t].pc = "run_validate" /\ threads'[t].token = token
      /\ \A u \in Threads : u # t => threads'[u] = threads[u]
  BY GrantFacts, ReviewFacts, ThreadFacts, GoFacts
     DEF RunBegin, IInv, TypeInv, Running
<1>2. QED
  BY <1>1, MoveKeeps DEF RunBegin, At, Pc, Writing, Holding

\* The images of the approved search are current, or the run ends.
LEMMA RunValidateKeeps ==
    ASSUME IInv, NEW t \in Threads, RunValidate(t)
    PROVE  IInv'
<1>1. /\ threads' \in [Threads -> ThreadStates]
      /\ \/ threads'[t].pc = "idle"
         \/ threads'[t].pc = "run_reserve" /\ threads'[t].token = threads[t].token
      /\ \A u \in Threads : u # t => threads'[u] = threads[u]
  <2> DEFINE next == [threads[t] EXCEPT !.pc = "run_reserve"]
  <2>1. threads \in [Threads -> ThreadStates] /\ threads[t] \in ThreadStates
    BY DEF IInv, TypeInv
  <2>2. /\ next \in ThreadStates /\ next.pc = "run_reserve"
        /\ next.token = threads[t].token
    BY <2>1, NextPc DEF Running
  <2> HIDE DEF next
  <2>3. Go(t, next) \/ Go(t, Idle)
    BY DEF RunValidate, next
  <2>4. QED
    BY <2>1, <2>2, <2>3, IdleFacts, GoFacts
<1>2. threads[t].token \in DOMAIN grants
  BY DEF RunValidate, At, Pc, IInv, HoldInv, Running
<1>3. QED
  BY <1>1, <1>2, MoveKeeps DEF RunValidate, At, Pc, Writing, Holding, Running

\* A reservation that is refused ends the run.
LEMMA RunRefusedKeeps ==
    ASSUME IInv, NEW t \in Threads, RunRefused(t)
    PROVE  IInv'
<1>1. /\ threads' \in [Threads -> ThreadStates]
      /\ threads'[t].pc = "idle"
      /\ \A u \in Threads : u # t => threads'[u] = threads[u]
  BY IdleFacts, GoFacts DEF RunRefused, IInv, TypeInv
<1>2. QED
  BY <1>1, MoveKeeps DEF RunRefused, At, Pc, Writing, Holding, Running

-----------------------------------------------------------------------------
(* Calls that return a value and move no thread *)

\* Searches and approvals are only added, and the registry is only discarded
\* while no thread writes it.
LEMMA AtomicKeeps ==
    ASSUME IInv, AtomicCall
    PROVE  IInv'
<1> USE DEF IInv
<1>1. /\ UNCHANGED <<usage, consumed, threads, reviews, images, calls>>
      /\ searches' \subseteq Images
      /\ \/ registry' = registry
         \/ registry' \in Registries /\ registry'.status = "discarded"
  <2>1. images \subseteq Images /\ searches \subseteq Images
    BY DEF TypeInv
  <2>2. \A r \in reviews : /\ Entry(r, "discarded") \in Registries
                           /\ Entry(r, "discarded").status = "discarded"
    BY EntryFacts DEF TypeInv
  <2>3. ASSUME NEW r \in reviews, NEW valid \in BOOLEAN,
               SkipReference(r, valid)
        PROVE  <1>1!:
    <3>1. searches' \subseteq searches \cup {NoImages}
      BY <2>3 DEF SkipReference, Reviewed
    <3>2. QED
      BY <2>2, <2>3, <3>1, ReviewFacts DEF SkipReference, TypeInv
  <2>4. CASE SkipIntent
    BY <2>1, <2>4, ReviewFacts DEF SkipIntent
  <2>5. ASSUME NEW im \in images, AcceptImages(im) PROVE <1>1!:
    BY <2>1, <2>5 DEF AcceptImages
  <2>6. ASSUME NEW im \in searches, ApproveSearch(im) PROVE <1>1!:
    BY <2>1, <2>6 DEF ApproveSearch
  <2>7. QED
    BY <2>3, <2>4, <2>5, <2>6 DEF AtomicCall
<1>2. /\ grants' \in Seq(Images) /\ Len(grants') <= MaxGrants
      /\ DOMAIN grants \subseteq DOMAIN grants'
  <2>1. CASE grants' = grants
    BY <2>1 DEF TypeInv, HoldInv
  <2>2. ASSUME NEW im \in searches, ApproveSearch(im) PROVE <1>2!:
    <3>1. /\ grants \in Seq(Images) /\ im \in Images /\ Len(grants) < MaxGrants
          /\ grants' = Append(grants, im)
      BY <2>2 DEF ApproveSearch, TypeInv
    <3>2. QED
      BY <3>1, SearchOrchestratorAssumption
  <2>3. QED
    BY <2>1, <2>2
       DEF AtomicCall, SkipIntent, SkipReference, AcceptImages
<1>3. TypeInv' /\ HoldInv'
  BY <1>1, <1>2 DEF TypeInv, HoldInv, Pc
<1>4. StartedInv' /\ PaidInv' /\ TokenInv'
  BY <1>1
     DEF StartedInv, PaidInv, ReferencesUpTo, ReferenceOnce, DerivedOnce,
         TokenInv, Pc
<1>5. LockInv'
  BY <1>1 DEF LockInv, Pc, Open
<1>6. AttemptInv'
  BY <1>1
     DEF AttemptInv, RegistryBounds, ThreadBounds, Open, Pc, UpTo,
         ReferencesUpTo, DerivedUpTo, ImagesUpTo
<1>7. QED
  BY <1>3, <1>4, <1>5, <1>6

-----------------------------------------------------------------------------
(* Calls that write the registry *)

\* A thread that writes is alone, and the registry is closed.
LEMMA WriterAlone ==
    ASSUME IInv, NEW t \in Threads, Pc(t) \in Writing
    PROVE  /\ registry.status \notin Open
           /\ \A u \in Threads : u # t => Pc(u) \notin Writing
BY DEF IInv, LockInv

\* A step that touches neither reservations nor approvals keeps what is known
\* of them.
LEMMA LedgerFrame ==
    ASSUME IInv, NEW t \in Threads,
           UNCHANGED <<usage, consumed, grants, calls>>,
           \A u \in Threads : u # t => threads'[u] = threads[u],
           Pc(t) \notin Holding, Pc(t)' \notin Holding \cup Running,
           Pc(t)' = "generate_reserve" =>
              threads'[t].review.attempt < MaxAttempts
    PROVE  HoldInv' /\ StartedInv' /\ PaidInv' /\ TokenInv'
<1> USE DEF IInv
<1>1. HoldInv' /\ StartedInv'
  BY DEF HoldInv, StartedInv, Pc, Holding
<1>2. PaidInv' /\ TokenInv'
  BY DEF PaidInv, ReferencesUpTo, ReferenceOnce, DerivedOnce, TokenInv, Pc,
         Running
<1>3. QED
  BY <1>1, <1>2

\* The registry is locked for a generation if the review may be replaced.
LEMMA GenerateLockKeeps ==
    ASSUME IInv, NEW t \in Threads, GenerateLock(t)
    PROVE  IInv'
<1> DEFINE prev == threads[t].review
           next == [threads[t] EXCEPT !.pc = "generate_reserve"]
<1>1. /\ threads \in [Threads -> ThreadStates] /\ threads[t] \in ThreadStates
      /\ prev \in Reviews /\ Pc(t) = "generate_lock"
  BY DEF IInv, TypeInv, ThreadStates, GenerateLock, At, Pc
<1>2. CASE Go(t, Idle) /\ UNCHANGED registry
  <2>1. /\ threads' \in [Threads -> ThreadStates] /\ threads'[t].pc = "idle"
        /\ \A u \in Threads : u # t => threads'[u] = threads[u]
    BY <1>1, <1>2, IdleFacts, GoFacts
  <2>2. QED
    BY <1>1, <1>2, <2>1, MoveKeeps
       DEF GenerateLock, Pc, Writing, Holding, Running
<1>3. CASE Replaceable(prev) /\ registry' = Entry(prev, "generating") /\ Go(t, next)
  <2>1. next \in ThreadStates /\ next.pc = "generate_reserve" /\ next.review = prev
    BY <1>1, NextPc DEF Writing
  <2> HIDE DEF next
  <2>2. /\ threads' \in [Threads -> ThreadStates]
        /\ threads'[t].pc = "generate_reserve" /\ threads'[t].review = prev
        /\ \A u \in Threads : u # t => threads'[u] = threads[u]
    BY <1>1, <1>3, <2>1, GoFacts
  <2>3. /\ registry' \in Registries /\ registry'.status = "generating"
        /\ registry.status \in Open /\ registry.review = prev
    BY <1>1, <1>3, EntryFacts, ReviewFacts DEF Replaceable, Open
  <2>4. prev.attempt \in 0..MaxAttempts /\ prev.attempt < MaxAttempts
    BY <1>1, <1>3, ReviewFacts, SearchOrchestratorAssumption DEF Replaceable
  <2> HIDE DEF prev
  <2>5. UNCHANGED <<usage, consumed, results, calls>>
    BY DEF GenerateLock
  <2>6. TypeInv'
    BY <2>2, <2>3, <2>5 DEF IInv, TypeInv, results
  <2>7. LockInv'
    BY <2>2, <2>3 DEF IInv, LockInv, Pc, Open
  <2>8. AttemptInv'
    <3>1. ThreadBounds(t)'
      BY <2>2, <2>3, <2>5
         DEF IInv, AttemptInv, RegistryBounds, ThreadBounds, UpTo, Pc, Open,
             ReferencesUpTo, DerivedUpTo, ImagesUpTo, results
    <3>2. QED
      BY <2>2, <2>3, <3>1, ClosedBounds DEF IInv, LockInv, Pc, Open
  <2>9. HoldInv' /\ StartedInv' /\ PaidInv' /\ TokenInv'
    BY <1>1, <2>2, <2>4, <2>5, LedgerFrame DEF results, Pc, Holding, Running
  <2>10. QED
    BY <2>6, <2>7, <2>8, <2>9 DEF IInv
<1>4. QED
  BY <1>2, <1>3 DEF GenerateLock

\* A refused reservation gives the registry back as retry_ready.
LEMMA GenerateRefusedKeeps ==
    ASSUME IInv, NEW t \in Threads, GenerateRefused(t)
    PROVE  IInv'
<1> DEFINE r == threads[t].review
<1>1. /\ threads \in [Threads -> ThreadStates] /\ r \in Reviews
      /\ Pc(t) = "generate_reserve"
  BY DEF IInv, TypeInv, ThreadStates, GenerateRefused, At, Pc
<1>2. /\ threads' \in [Threads -> ThreadStates] /\ threads'[t].pc = "idle"
      /\ \A u \in Threads : u # t => threads'[u] = threads[u]
  BY <1>1, IdleFacts, GoFacts DEF GenerateRefused
<1>3. /\ registry' \in Registries
      /\ registry'.status = "retry_ready" /\ registry'.review = r
  BY <1>1, EntryFacts DEF GenerateRefused
<1>4. UNCHANGED <<usage, consumed, results, calls>>
  BY DEF GenerateRefused
<1>5. \A u \in Threads : Pc(u)' \notin Writing
  BY <1>1, <1>2, WriterAlone DEF Pc, Writing
<1>6. TypeInv'
  BY <1>2, <1>3, <1>4 DEF IInv, TypeInv, results
<1>7. LockInv'
  BY <1>5 DEF LockInv
<1>8. AttemptInv'
  <2>1. RegistryBounds'
    BY <1>1, <1>3, <1>4
       DEF IInv, AttemptInv, RegistryBounds, ThreadBounds, UpTo,
           ReferencesUpTo, DerivedUpTo, ImagesUpTo, results
  <2>2. QED
    BY <1>5, <2>1, OpenBounds
<1>9. HoldInv' /\ StartedInv' /\ PaidInv' /\ TokenInv'
  BY <1>1, <1>2, <1>4, LedgerFrame DEF results, Pc, Holding, Running
<1>10. QED
  BY <1>6, <1>7, <1>8, <1>9 DEF IInv

\* The new reference becomes current.
LEMMA GeneratePublishKeeps ==
    ASSUME IInv, NEW t \in Threads, GeneratePublish(t)
    PROVE  IInv'
<1> DEFINE r == threads[t].review
<1>1. /\ threads \in [Threads -> ThreadStates] /\ r \in Reviews
      /\ Pc(t) = "generate_publish"
  BY DEF IInv, TypeInv, ThreadStates, GeneratePublish, At, Pc
<1>2. /\ threads' \in [Threads -> ThreadStates] /\ threads'[t].pc = "idle"
      /\ \A u \in Threads : u # t => threads'[u] = threads[u]
  BY <1>1, IdleFacts, GoFacts DEF GeneratePublish
<1>3. /\ registry' \in Registries
      /\ registry'.status = "pending" /\ registry'.review = r
  BY <1>1, EntryFacts DEF GeneratePublish
<1>4. /\ UNCHANGED <<usage, consumed, images, searches, grants, calls>>
      /\ reviews' = reviews \cup {r}
  BY DEF GeneratePublish
<1>5. \A u \in Threads : Pc(u)' \notin Writing
  BY <1>1, <1>2, WriterAlone DEF Pc, Writing
<1>6. TypeInv'
  BY <1>1, <1>2, <1>3, <1>4 DEF IInv, TypeInv
<1>7. LockInv'
  BY <1>5 DEF LockInv
<1>8. AttemptInv'
  <2>1. UpTo(r.attempt, r.attempt - 1, r.attempt - 1)
    BY <1>1 DEF IInv, AttemptInv, ThreadBounds
  <2>2. UpTo(r.attempt, r.attempt, r.attempt)
    BY <1>1, <2>1, BoundsGrow, ReviewFacts DEF IInv, UpTo
  <2>3. RegistryBounds'
    BY <1>3, <1>4, <2>1, <2>2
       DEF RegistryBounds, UpTo, ReferencesUpTo, DerivedUpTo, ImagesUpTo
  <2>4. QED
    BY <1>5, <2>3, OpenBounds
<1>9. HoldInv' /\ StartedInv' /\ PaidInv' /\ TokenInv'
  BY <1>1, <1>2, <1>4, LedgerFrame DEF Pc, Holding, Running
<1>10. QED
  BY <1>6, <1>7, <1>8, <1>9 DEF IInv

\* The current reference is approved once: the registry is closed behind it.
LEMMA ApproveReferenceKeeps ==
    ASSUME IInv, NEW t \in Threads, NEW r \in reviews, ApproveReference(t, r)
    PROVE  IInv'
<1>1. /\ threads \in [Threads -> ThreadStates] /\ r \in Reviews
      /\ Pc(t) = "idle"
  BY DEF IInv, TypeInv, ApproveReference, At, Pc
<1>2. /\ threads' \in [Threads -> ThreadStates]
      /\ threads'[t].pc = "derive_reserve" /\ threads'[t].review = r
      /\ \A u \in Threads : u # t => threads'[u] = threads[u]
  BY <1>1, ThreadFacts, GoFacts DEF ApproveReference, Writing
<1>3. /\ registry.status = "pending" /\ registry.review = r
      /\ registry' \in Registries /\ registry'.status = "deriving"
  BY <1>1, EntryFacts DEF ApproveReference, Approvable
<1>4. UNCHANGED <<usage, consumed, results, calls>>
  BY DEF ApproveReference
<1>5. TypeInv'
  BY <1>2, <1>3, <1>4 DEF IInv, TypeInv, results
<1>6. LockInv'
  BY <1>2, <1>3 DEF IInv, LockInv, Pc, Open
<1>7. AttemptInv'
  <2>1. ThreadBounds(t)'
    BY <1>2, <1>3, <1>4
       DEF IInv, AttemptInv, RegistryBounds, ThreadBounds, UpTo, Pc,
           ReferencesUpTo, DerivedUpTo, ImagesUpTo, results
  <2>2. QED
    BY <1>2, <1>3, <2>1, ClosedBounds DEF IInv, LockInv, Pc, Open
<1>8. HoldInv' /\ StartedInv' /\ PaidInv' /\ TokenInv'
  BY <1>1, <1>2, <1>4, LedgerFrame DEF results, Pc, Holding, Running
<1>9. QED
  BY <1>5, <1>6, <1>7, <1>8 DEF IInv

\* A refused reservation ends the approval without images.
LEMMA DeriveRefusedKeeps ==
    ASSUME IInv, NEW t \in Threads, DeriveRefused(t)
    PROVE  IInv'
<1> DEFINE a == threads[t].review.attempt
<1>1. /\ threads \in [Threads -> ThreadStates] /\ threads[t] \in ThreadStates
      /\ threads[t].review \in Reviews /\ Pc(t) = "derive_reserve"
  BY DEF IInv, TypeInv, ThreadStates, DeriveRefused, At, Pc
<1>2. /\ threads' \in [Threads -> ThreadStates]
      /\ threads'[t].pc = "derive_publish"
      /\ threads'[t].review = threads[t].review
      /\ \A u \in Threads : u # t => threads'[u] = threads[u]
  <2> DEFINE next == [threads[t] EXCEPT !.pc = "derive_publish"]
  <2>1. /\ next \in ThreadStates /\ next.pc = "derive_publish"
        /\ next.review = threads[t].review
    BY <1>1, NextPc DEF Writing
  <2>2. Go(t, next)
    BY DEF DeriveRefused
  <2> HIDE DEF next
  <2>3. QED
    BY <1>1, <2>1, <2>2, GoFacts
<1>3. UNCHANGED <<registry, usage, consumed, results, calls>>
  BY DEF DeriveRefused
<1>4. /\ registry.status \notin Open
      /\ \A u \in Threads : u # t => Pc(u)' \notin Writing
  BY <1>1, <1>2, WriterAlone DEF Pc, Writing
<1>5. TypeInv'
  BY <1>2, <1>3 DEF IInv, TypeInv, results
<1>6. LockInv'
  BY <1>3, <1>4 DEF LockInv
<1>7. AttemptInv'
  <2>1. UpTo(a, a - 1, a - 1)
    BY <1>1 DEF IInv, AttemptInv, ThreadBounds
  <2>2. UpTo(a, a, a - 1)
    BY <1>1, <2>1, BoundsGrow, ReviewFacts DEF IInv, UpTo
  <2>3. ThreadBounds(t)'
    BY <1>2, <1>3, <2>2
       DEF ThreadBounds, UpTo, ReferencesUpTo, DerivedUpTo, ImagesUpTo, Pc,
           results
  <2>4. QED
    BY <1>3, <1>4, <2>3, ClosedBounds
<1>8. HoldInv' /\ StartedInv' /\ PaidInv' /\ TokenInv'
  BY <1>1, <1>2, <1>3, LedgerFrame DEF results, Pc, Holding, Running
<1>9. QED
  BY <1>5, <1>6, <1>7, <1>8 DEF IInv

\* The reference is consumed, with images or without.
LEMMA DerivePublishKeeps ==
    ASSUME IInv, NEW t \in Threads, DerivePublish(t)
    PROVE  IInv'
<1> DEFINE r == threads[t].review
<1>1. /\ threads \in [Threads -> ThreadStates] /\ r \in Reviews
      /\ threads[t].charge \in Charges \cup {0} /\ Pc(t) = "derive_publish"
  BY DEF IInv, TypeInv, ThreadStates, DerivePublish, At, Pc
<1>2. /\ threads' \in [Threads -> ThreadStates] /\ threads'[t].pc = "idle"
      /\ \A u \in Threads : u # t => threads'[u] = threads[u]
  BY <1>1, IdleFacts, GoFacts DEF DerivePublish
<1>3. /\ registry' \in Registries
      /\ registry'.status = "consumed" /\ registry'.review = r
  BY <1>1, EntryFacts DEF DerivePublish, Derived
<1>4. /\ UNCHANGED <<usage, consumed, reviews, searches, grants, calls>>
      /\ \A im \in images' : im \in images \/ (im \in Images /\ im.review = r)
  <2> DEFINE new == [review |-> r, charge |-> threads[t].charge]
  <2>1. new \in Images /\ new.review = r
    BY <1>1 DEF Images
  <2>2. images' \subseteq images \cup {new}
    BY DEF DerivePublish
  <2> HIDE DEF new
  <2>3. QED
    BY <2>1, <2>2 DEF DerivePublish
<1>5. \A u \in Threads : Pc(u)' \notin Writing
  BY <1>1, <1>2, WriterAlone DEF Pc, Writing
<1>6. TypeInv'
  BY <1>1, <1>2, <1>3, <1>4 DEF IInv, TypeInv
<1>7. LockInv'
  BY <1>5 DEF LockInv
<1>8. AttemptInv'
  <2>1. UpTo(r.attempt, r.attempt, r.attempt - 1)
    BY <1>1 DEF IInv, AttemptInv, ThreadBounds
  <2>2. UpTo(r.attempt, r.attempt, r.attempt)
    BY <1>1, <2>1, BoundsGrow, ReviewFacts DEF IInv, UpTo
  <2>3. \A im \in images' : im.review.attempt <= r.attempt
    <3>1. r.attempt \in 0..MaxAttempts
      BY <1>1, ReviewFacts
    <3>2. \A im \in images : im.review.attempt <= r.attempt
      BY <2>2 DEF UpTo, ImagesUpTo
    <3>3. QED
      BY <1>4, <3>1, <3>2, SearchOrchestratorAssumption
  <2>4. RegistryBounds'
    <3>1. /\ registry'.status = "consumed"
          /\ registry'.review.attempt = r.attempt
      BY <1>3
    <3>2. UNCHANGED usage
      BY <1>4
    <3>3. /\ ReferencesUpTo(r.attempt) /\ DerivedUpTo(r.attempt)
      BY <2>2 DEF UpTo
    <3> DEFINE a == r.attempt
    <3> HIDE DEF a
    <3>4. QED
      BY <2>3, <3>1, <3>2, <3>3
         DEF RegistryBounds, UpTo, ReferencesUpTo, DerivedUpTo, ImagesUpTo
  <2>5. QED
    BY <1>5, <2>4, OpenBounds
<1>9. HoldInv' /\ StartedInv' /\ PaidInv' /\ TokenInv'
  BY <1>1, <1>2, <1>4, LedgerFrame DEF Pc, Holding, Running
<1>10. QED
  BY <1>6, <1>7, <1>8, <1>9 DEF IInv

\* A discard closes the registry for good, whatever another thread had
\* written there: while a thread still holds it, it stays the only one.
LEMMA SkipImagesDiscardKeeps ==
    ASSUME IInv, NEW t \in Threads, NEW valid \in BOOLEAN,
           SkipImagesDiscard(t, valid)
    PROVE  IInv'
<1> DEFINE r == threads[t].review
<1>1. /\ threads \in [Threads -> ThreadStates] /\ r \in Reviews
      /\ Pc(t) = "skip_discard"
  BY DEF IInv, TypeInv, ThreadStates, SkipImagesDiscard, At, Pc
<1>2. /\ threads' \in [Threads -> ThreadStates] /\ threads'[t].pc = "idle"
      /\ \A u \in Threads : u # t => threads'[u] = threads[u]
  BY <1>1, IdleFacts, GoFacts DEF SkipImagesDiscard
<1>3. registry' \in Registries /\ registry'.status = "discarded"
  BY <1>1, EntryFacts DEF SkipImagesDiscard
<1>4. /\ UNCHANGED <<usage, consumed, reviews, images, grants, calls>>
      /\ searches' \subseteq searches \cup {NoImages}
  BY DEF SkipImagesDiscard, Reviewed
<1>5. TypeInv'
  BY <1>2, <1>3, <1>4, ReviewFacts DEF IInv, TypeInv
<1>6. LockInv'
  BY <1>1, <1>2, <1>3 DEF IInv, LockInv, Pc, Open, Writing
<1>7. AttemptInv'
  BY <1>1, <1>2, <1>3, <1>4
     DEF IInv, AttemptInv, RegistryBounds, ThreadBounds, UpTo, Pc, Open,
         ReferencesUpTo, DerivedUpTo, ImagesUpTo
<1>8. HoldInv' /\ StartedInv' /\ PaidInv' /\ TokenInv'
  BY <1>1, <1>2, <1>4, LedgerFrame DEF Pc, Holding, Running
<1>9. QED
  BY <1>5, <1>6, <1>7, <1>8 DEF IInv

-----------------------------------------------------------------------------
(* Calls that reserve *)

\* A reservation belongs to the thread that made it.
LEMMA ReserveHeld ==
    ASSUME IInv, NEW t \in Threads, NEW binding \in Nat,
           NEW operation \in {"reference_image", "counterfactual_images",
                              "product_search"},
           ReserveUsage(operation, binding),
           UNCHANGED <<consumed, grants, calls>>,
           \A u \in Threads : u # t => threads'[u] = threads[u],
           Pc(t) \notin Holding, Pc(t)' \in Holding \ {"run_call"},
           threads'[t].charge = Len(usage) + 1,
           Pc(t)' \in Running => threads'[t].token \in DOMAIN grants,
           Pc(t)' = "generate_call" => threads'[t].review.attempt < MaxAttempts
    PROVE  HoldInv' /\ StartedInv' /\ TokenInv'
<1> USE DEF IInv
<1>1. /\ Len(usage) + 1 \notin DOMAIN usage
      /\ DOMAIN usage' = DOMAIN usage \cup {Len(usage) + 1}
      /\ \A i \in DOMAIN usage : usage'[i] = usage[i]
  BY ReserveFacts
<1>2. HoldInv'
  BY <1>1 DEF HoldInv, Pc, Holding
<1>3. StartedInv'
  BY <1>1 DEF StartedInv, Pc, Holding
<1>4. TokenInv'
  BY DEF TokenInv, Pc
<1>5. QED
  BY <1>2, <1>3, <1>4

\* What is paid for once stays so if the reservation is the first of its
\* attempt.
LEMMA ReservePaid ==
    ASSUME TypeInv, PaidInv, NEW binding \in Nat,
           NEW operation \in {"reference_image", "counterfactual_images",
                              "product_search"},
           ReserveUsage(operation, binding),
           operation = "reference_image" => binding \in 1..MaxAttempts,
           operation \in {"reference_image", "counterfactual_images"} =>
              \A i \in DOMAIN usage : usage[i].operation = operation =>
                 usage[i].binding # binding
    PROVE  PaidInv'
<1> DEFINE n == Len(usage) + 1
<1>1. /\ n \notin DOMAIN usage
      /\ DOMAIN usage' = DOMAIN usage \cup {n}
      /\ \A i \in DOMAIN usage : usage'[i] = usage[i]
      /\ usage'[n].operation = operation /\ usage'[n].binding = binding
  BY ReserveFacts
<1> HIDE DEF n
<1>2. ReferencesUpTo(MaxAttempts)'
  BY <1>1 DEF PaidInv, ReferencesUpTo
<1>3. ReferenceOnce'
  BY <1>1 DEF PaidInv, ReferenceOnce
<1>4. DerivedOnce'
  BY <1>1 DEF PaidInv, DerivedOnce
<1>5. QED
  BY <1>2, <1>3, <1>4 DEF PaidInv

\* A generation pays for the attempt after the one it replaces, which nobody
\* has paid for.
LEMMA GenerateReserveKeeps ==
    ASSUME IInv, NEW t \in Threads, GenerateReserve(t)
    PROVE  IInv'
<1> DEFINE a == threads[t].review.attempt
           n == Len(usage) + 1
           next == [threads[t] EXCEPT !.pc = "generate_call", !.charge = n]
<1>1. /\ threads \in [Threads -> ThreadStates] /\ threads[t] \in ThreadStates
      /\ threads[t].review \in Reviews /\ Pc(t) = "generate_reserve"
  BY DEF IInv, TypeInv, ThreadStates, GenerateReserve, At, Pc
<1>2. a \in Nat /\ a + 1 \in Nat /\ a + 1 \in 1..MaxAttempts
  BY <1>1, ReviewFacts, SearchOrchestratorAssumption DEF IInv, HoldInv
<1>3. /\ ReserveUsage("reference_image", a + 1) /\ Go(t, next)
      /\ UNCHANGED <<registry, consumed, results, calls>>
  BY DEF GenerateReserve
<1>4. /\ n \in Charges /\ usage' \in Seq(Reservations)
      /\ Len(usage') <= MaxCharges /\ n \notin DOMAIN usage
      /\ DOMAIN usage' = DOMAIN usage \cup {n}
      /\ \A i \in DOMAIN usage : usage'[i] = usage[i]
      /\ usage'[n].operation = "reference_image" /\ usage'[n].binding = a + 1
  BY <1>2, <1>3, ReserveFacts DEF IInv
<1> HIDE DEF n
<1>5. /\ next \in ThreadStates /\ next.pc = "generate_call"
      /\ next.review = threads[t].review /\ next.charge = n
  BY <1>1, <1>4 DEF ThreadStates, Writing
<1> HIDE DEF next
<1>6. /\ threads' \in [Threads -> ThreadStates]
      /\ threads'[t].pc = "generate_call" /\ threads'[t].charge = n
      /\ threads'[t].review = threads[t].review
      /\ \A u \in Threads : u # t => threads'[u] = threads[u]
  BY <1>1, <1>3, <1>5, GoFacts
<1>7. /\ registry.status \notin Open
      /\ \A u \in Threads : u # t => Pc(u)' \notin Writing
  BY <1>1, <1>6, WriterAlone DEF Pc, Writing
<1>8. TypeInv'
  BY <1>3, <1>4, <1>6 DEF IInv, TypeInv, results
<1>9. LockInv'
  BY <1>3, <1>7 DEF LockInv
<1>10. UpTo(a, a, a)
  BY <1>1 DEF IInv, AttemptInv, ThreadBounds
<1>11. AttemptInv'
  <2>1. ReferencesUpTo(a + 1)
    BY <1>2, <1>10, BoundsGrow DEF IInv, UpTo
  <2>2. ThreadBounds(t)'
    <3>1. threads'[t].review.attempt = a /\ UNCHANGED images
      BY <1>3, <1>6 DEF results
    <3>2. /\ \A i \in DOMAIN usage' :
                usage'[i].operation = "reference_image" =>
                   usage'[i].binding \in 1..(a + 1)
          /\ \A i \in DOMAIN usage' :
                usage'[i].operation = "counterfactual_images" =>
                   usage'[i].binding <= a
      BY <1>2, <1>4, <1>10, <2>1 DEF UpTo, ReferencesUpTo, DerivedUpTo
    <3>3. \A im \in images : im.review.attempt <= a
      BY <1>10 DEF UpTo, ImagesUpTo
    <3> HIDE DEF a
    <3>4. QED
      BY <1>6, <3>1, <3>2, <3>3
         DEF ThreadBounds, UpTo, ReferencesUpTo, DerivedUpTo, ImagesUpTo, Pc
  <2>3. QED
    BY <1>3, <1>7, <2>2, ClosedBounds
<1>12. HoldInv' /\ StartedInv' /\ TokenInv'
  <2>1. a < MaxAttempts
    BY <1>1 DEF IInv, HoldInv
  <2>2. Pc(t) \notin Holding /\ Pc(t)' \in Holding \ {"run_call"}
        /\ Pc(t)' \notin Running
    BY <1>1, <1>6 DEF Pc, Holding, Running
  <2>3. UNCHANGED <<consumed, grants, calls>>
    BY <1>3 DEF results
  <2>4. QED
    BY <1>2, <1>3, <1>6, <2>1, <2>2, <2>3, ReserveHeld DEF n
<1>13. PaidInv'
  <2>1. \A i \in DOMAIN usage : usage[i].operation = "reference_image" =>
           usage[i].binding # a + 1
    BY <1>2, <1>10 DEF UpTo, ReferencesUpTo
  <2>2. QED
    BY <1>2, <1>3, <2>1, ReservePaid DEF IInv
<1>14. QED
  BY <1>8, <1>9, <1>11, <1>12, <1>13 DEF IInv

\* An approval pays for the comparisons of its reference, which nobody has
\* paid for.
LEMMA DeriveReserveKeeps ==
    ASSUME IInv, NEW t \in Threads, DeriveReserve(t)
    PROVE  IInv'
<1> DEFINE a == threads[t].review.attempt
           n == Len(usage) + 1
           next == [threads[t] EXCEPT !.pc = "derive_call", !.charge = n]
<1>1. /\ threads \in [Threads -> ThreadStates] /\ threads[t] \in ThreadStates
      /\ threads[t].review \in Reviews /\ Pc(t) = "derive_reserve"
  BY DEF IInv, TypeInv, ThreadStates, DeriveReserve, At, Pc
<1>2. a \in Nat
  BY <1>1, ReviewFacts, SearchOrchestratorAssumption
<1>3. /\ ReserveUsage("counterfactual_images", a) /\ Go(t, next)
      /\ UNCHANGED <<registry, consumed, results, calls>>
  BY DEF DeriveReserve
<1>4. /\ n \in Charges /\ usage' \in Seq(Reservations)
      /\ Len(usage') <= MaxCharges /\ n \notin DOMAIN usage
      /\ DOMAIN usage' = DOMAIN usage \cup {n}
      /\ \A i \in DOMAIN usage : usage'[i] = usage[i]
      /\ usage'[n].operation = "counterfactual_images"
      /\ usage'[n].binding = a
  BY <1>2, <1>3, ReserveFacts DEF IInv
<1> HIDE DEF n
<1>5. /\ next \in ThreadStates /\ next.pc = "derive_call"
      /\ next.review = threads[t].review /\ next.charge = n
  BY <1>1, <1>4 DEF ThreadStates, Writing
<1> HIDE DEF next
<1>6. /\ threads' \in [Threads -> ThreadStates]
      /\ threads'[t].pc = "derive_call" /\ threads'[t].charge = n
      /\ threads'[t].review = threads[t].review
      /\ \A u \in Threads : u # t => threads'[u] = threads[u]
  BY <1>1, <1>3, <1>5, GoFacts
<1>7. /\ registry.status \notin Open
      /\ \A u \in Threads : u # t => Pc(u)' \notin Writing
  BY <1>1, <1>6, WriterAlone DEF Pc, Writing
<1>8. TypeInv'
  BY <1>3, <1>4, <1>6 DEF IInv, TypeInv, results
<1>9. LockInv'
  BY <1>3, <1>7 DEF LockInv
<1>10. UpTo(a, a - 1, a - 1)
  BY <1>1 DEF IInv, AttemptInv, ThreadBounds
<1>11. AttemptInv'
  <2>1. DerivedUpTo(a)
    BY <1>2, <1>10, BoundsGrow DEF IInv, UpTo
  <2>2. ThreadBounds(t)'
    <3>1. threads'[t].review.attempt = a /\ UNCHANGED images
      BY <1>3, <1>6 DEF results
    <3>2. /\ \A i \in DOMAIN usage' :
                usage'[i].operation = "reference_image" =>
                   usage'[i].binding \in 1..a
          /\ \A i \in DOMAIN usage' :
                usage'[i].operation = "counterfactual_images" =>
                   usage'[i].binding <= a
      BY <1>2, <1>4, <1>10, <2>1 DEF UpTo, ReferencesUpTo, DerivedUpTo
    <3>3. \A im \in images : im.review.attempt <= a - 1
      BY <1>10 DEF UpTo, ImagesUpTo
    <3> HIDE DEF a
    <3>4. QED
      BY <1>6, <3>1, <3>2, <3>3
         DEF ThreadBounds, UpTo, ReferencesUpTo, DerivedUpTo, ImagesUpTo, Pc
  <2>3. QED
    BY <1>3, <1>7, <2>2, ClosedBounds
<1>12. HoldInv' /\ StartedInv' /\ TokenInv'
  <2>1. Pc(t) \notin Holding /\ Pc(t)' \in Holding \ {"run_call"}
        /\ Pc(t)' \notin Running /\ Pc(t)' # "generate_call"
    BY <1>1, <1>6 DEF Pc, Holding, Running
  <2>2. UNCHANGED <<consumed, grants, calls>>
    BY <1>3 DEF results
  <2>3. QED
    BY <1>2, <1>3, <1>6, <2>1, <2>2, ReserveHeld DEF n
<1>13. PaidInv'
  <2>1. \A i \in DOMAIN usage : usage[i].operation = "counterfactual_images" =>
           usage[i].binding # a
    <3>1. \A i \in DOMAIN usage : usage[i] \in Reservations
      BY DEF IInv, TypeInv
    <3>2. \A i \in DOMAIN usage : usage[i].binding \in Nat
      BY <3>1 DEF Reservations
    <3>3. QED
      BY <1>2, <1>10, <3>2 DEF UpTo, DerivedUpTo
  <2>2. QED
    BY <1>2, <1>3, <2>1, ReservePaid DEF IInv
<1>14. QED
  BY <1>8, <1>9, <1>11, <1>12, <1>13 DEF IInv

\* What a thread that does not write the registry leaves as it is.
LEMMA RunBounds ==
    ASSUME IInv, NEW t \in Threads, UNCHANGED <<registry, images>>,
           \A u \in Threads : u # t => threads'[u] = threads[u],
           Pc(t) \notin Writing, Pc(t)' \notin Writing,
           \A n : ReferencesUpTo(n)' <=> ReferencesUpTo(n),
           \A n : DerivedUpTo(n)' <=> DerivedUpTo(n)
    PROVE  LockInv' /\ AttemptInv'
<1>1. LockInv'
  BY DEF IInv, LockInv, Pc
<1>2. \A n : ImagesUpTo(n)' <=> ImagesUpTo(n)
  BY SameImages
<1>3. AttemptInv'
  BY <1>2 DEF IInv, AttemptInv, RegistryBounds, ThreadBounds, UpTo, Pc, Writing
<1>4. QED
  BY <1>1, <1>3

\* A run reserves its charge before it claims the token.
LEMMA RunReserveKeeps ==
    ASSUME IInv, NEW t \in Threads, RunReserve(t)
    PROVE  IInv'
<1> DEFINE k == threads[t].token
           n == Len(usage) + 1
           next == [threads[t] EXCEPT !.pc = "run_claim", !.charge = n]
<1>1. /\ threads \in [Threads -> ThreadStates] /\ threads[t] \in ThreadStates
      /\ k \in Tokens \cup {0} /\ k \in Nat /\ Pc(t) = "run_reserve"
  BY SearchOrchestratorAssumption
     DEF IInv, TypeInv, ThreadStates, RunReserve, At, Pc, Tokens
<1>2. k \in DOMAIN grants
  BY <1>1 DEF IInv, HoldInv, Running
<1>3. /\ ReserveUsage("product_search", k) /\ Go(t, next)
      /\ UNCHANGED <<registry, consumed, results, calls>>
  BY DEF RunReserve
<1>4. /\ n \in Charges /\ usage' \in Seq(Reservations)
      /\ Len(usage') <= MaxCharges /\ n \notin DOMAIN usage
      /\ DOMAIN usage' = DOMAIN usage \cup {n}
      /\ \A i \in DOMAIN usage : usage'[i] = usage[i]
      /\ usage'[n].operation = "product_search"
  BY <1>1, <1>3, ReserveFacts DEF IInv
<1> HIDE DEF n
<1>5. /\ next \in ThreadStates /\ next.pc = "run_claim"
      /\ next.token = k /\ next.charge = n
  BY <1>1, <1>4 DEF ThreadStates, Running
<1> HIDE DEF next
<1>6. /\ threads' \in [Threads -> ThreadStates]
      /\ threads'[t].pc = "run_claim" /\ threads'[t].charge = n
      /\ threads'[t].token = k
      /\ \A u \in Threads : u # t => threads'[u] = threads[u]
  BY <1>1, <1>3, <1>5, GoFacts
<1>7. TypeInv'
  BY <1>3, <1>4, <1>6 DEF IInv, TypeInv, results
<1>8. LockInv' /\ AttemptInv'
  <2>1. /\ \A m : ReferencesUpTo(m)' <=> ReferencesUpTo(m)
        /\ \A m : DerivedUpTo(m)' <=> DerivedUpTo(m)
    BY <1>4 DEF ReferencesUpTo, DerivedUpTo
  <2>2. /\ Pc(t) \notin Writing /\ Pc(t)' \notin Writing
        /\ UNCHANGED <<registry, images>>
    BY <1>1, <1>3, <1>6 DEF Pc, Writing, results
  <2>3. QED
    BY <1>6, <2>1, <2>2, RunBounds
<1>9. HoldInv' /\ StartedInv' /\ TokenInv'
  <2>1. Pc(t) \notin Holding /\ Pc(t)' \in Holding \ {"run_call"}
        /\ Pc(t)' # "generate_call" /\ UNCHANGED <<consumed, grants, calls>>
    BY <1>1, <1>3, <1>6 DEF Pc, Holding, results
  <2>2. QED
    BY <1>1, <1>2, <1>3, <1>6, <2>1, ReserveHeld DEF n
<1>10. PaidInv'
  BY <1>1, <1>3, ReservePaid DEF IInv
<1>11. QED
  BY <1>7, <1>8, <1>9, <1>10 DEF IInv

-----------------------------------------------------------------------------
(* Calls that finish a reservation, and the claim of a token *)

\* A finished reservation belongs to nobody any more.
LEMMA FinishKeeps ==
    ASSUME IInv, NEW t \in Threads, NEW success \in BOOLEAN,
           FinishUsage(threads[t].charge, success), UNCHANGED grants,
           \A u \in Threads : u # t => threads'[u] = threads[u],
           Pc(t) \in Holding,
           Pc(t)' \notin Holding \cup Running \cup {"generate_reserve"}
    PROVE  /\ HoldInv' /\ StartedInv' /\ PaidInv'
           /\ usage' \in Seq(Reservations) /\ Len(usage') = Len(usage)
           /\ \A n : ReferencesUpTo(n)' <=> ReferencesUpTo(n)
           /\ \A n : DerivedUpTo(n)' <=> DerivedUpTo(n)
<1> DEFINE c == threads[t].charge
<1> USE DEF IInv
<1>1. c \in DOMAIN usage
  BY DEF HoldInv
<1>2. /\ usage' \in Seq(Reservations) /\ Len(usage') = Len(usage)
      /\ DOMAIN usage' = DOMAIN usage
      /\ usage'[c].status \in Finished
      /\ \A i \in DOMAIN usage :
           /\ usage'[i].operation = usage[i].operation
           /\ usage'[i].binding = usage[i].binding
           /\ i # c => usage'[i] = usage[i]
  BY <1>1, FinishFacts
<1>3. HoldInv'
  BY <1>2 DEF HoldInv, Pc, Holding
<1>4. StartedInv'
  BY <1>2 DEF StartedInv, Pc, Finished
<1>5. PaidInv'
  BY <1>2 DEF PaidInv, ReferencesUpTo, ReferenceOnce, DerivedOnce
<1>6. /\ \A n : ReferencesUpTo(n)' <=> ReferencesUpTo(n)
      /\ \A n : DerivedUpTo(n)' <=> DerivedUpTo(n)
  BY <1>2, SameBounds
<1>7. QED
  BY <1>2, <1>3, <1>4, <1>5, <1>6

\* An image was made or not: the review of the next attempt is published, or
\* cannot be built, and then the registry stays closed for good.
LEMMA GenerateCallKeeps ==
    ASSUME IInv, NEW t \in Threads, NEW made \in BOOLEAN,
           GenerateCall(t, made)
    PROVE  IInv'
<1> DEFINE a == threads[t].review.attempt
           prior == {f.charge : f \in threads[t].found}
           result == [attempt |-> a + 1, charge |-> threads[t].charge,
                      made |-> made, prior |-> prior]
<1>1. /\ threads \in [Threads -> ThreadStates] /\ threads[t] \in ThreadStates
      /\ threads[t].review \in Reviews /\ threads[t].found \in SUBSET Marks
      /\ threads[t].charge \in Charges \cup {0} /\ Pc(t) = "generate_call"
  BY DEF IInv, TypeInv, ThreadStates, GenerateCall, At, Pc
<1>2. a \in Nat /\ a + 1 \in 0..MaxAttempts
  BY <1>1, ReviewFacts, SearchOrchestratorAssumption DEF IInv, HoldInv
<1>3. prior \in SUBSET Charges
  BY <1>1 DEF Marks
<1> HIDE DEF prior
<1>4. result \in Reviews /\ result.attempt = a + 1
  BY <1>1, <1>2, <1>3 DEF Reviews
<1>5. /\ FinishUsage(threads[t].charge, made)
      /\ UNCHANGED <<registry, consumed, results, calls>>
      /\ \/ Go(t, ThreadAt("generate_publish", result, {}, 0, 0))
         \/ Go(t, Idle)
  BY DEF GenerateCall, prior
<1> HIDE DEF result
<1>6. /\ threads' \in [Threads -> ThreadStates]
      /\ \/ threads'[t].pc = "generate_publish" /\ threads'[t].review = result
         \/ threads'[t].pc = "idle"
      /\ \A u \in Threads : u # t => threads'[u] = threads[u]
  <2>1. ThreadAt("generate_publish", result, {}, 0, 0) \in ThreadStates
        /\ ThreadAt("generate_publish", result, {}, 0, 0).pc = "generate_publish"
        /\ ThreadAt("generate_publish", result, {}, 0, 0).review = result
    BY <1>4, ThreadFacts DEF Writing
  <2>2. QED
    BY <1>1, <1>5, <2>1, IdleFacts, GoFacts
<1>7. /\ registry.status \notin Open
      /\ \A u \in Threads : u # t => Pc(u)' \notin Writing
  BY <1>1, <1>6, WriterAlone DEF Pc, Writing
<1>8. /\ HoldInv' /\ StartedInv' /\ PaidInv'
      /\ usage' \in Seq(Reservations) /\ Len(usage') = Len(usage)
      /\ \A n : ReferencesUpTo(n)' <=> ReferencesUpTo(n)
      /\ \A n : DerivedUpTo(n)' <=> DerivedUpTo(n)
  <2>1. /\ Pc(t) \in Holding
        /\ Pc(t)' \notin Holding \cup Running \cup {"generate_reserve"}
        /\ UNCHANGED grants
    BY <1>1, <1>5, <1>6 DEF Pc, Holding, Running, results
  <2>2. QED
    BY <1>5, <1>6, <2>1, FinishKeeps
<1>9. TypeInv'
  BY <1>5, <1>6, <1>8 DEF IInv, TypeInv, results
<1>10. LockInv'
  BY <1>5, <1>7 DEF LockInv
<1>11. AttemptInv'
  <2>1. UpTo(a + 1, a, a)
    BY <1>1 DEF IInv, AttemptInv, ThreadBounds
  <2>2. \A n : ImagesUpTo(n)' <=> ImagesUpTo(n)
    BY <1>5, SameImages DEF results
  <2>3. ThreadBounds(t)'
    <3>1. CASE threads'[t].pc = "idle"
      BY <3>1 DEF ThreadBounds, Pc
    <3>2. CASE threads'[t].pc = "generate_publish" /\ threads'[t].review = result
      <4>1. PICK m : m = a
        OBVIOUS
      <4>2. threads'[t].review.attempt = m + 1 /\ (m + 1) - 1 = m
        BY <1>2, <1>4, <3>2, <4>1
      <4>3. UpTo(m + 1, m, m)
        BY <2>1, <4>1
      <4>4. UpTo(m + 1, m, m)'
        BY <1>8, <2>2, <4>3 DEF UpTo
      <4>5. QED
        BY <3>2, <4>2, <4>4 DEF ThreadBounds, Pc
    <3>3. QED
      BY <1>6, <3>1, <3>2
  <2>4. QED
    BY <1>5, <1>7, <2>3, ClosedBounds
<1>12. TokenInv'
  BY <1>5, <1>6 DEF IInv, TokenInv, Pc
<1>13. QED
  BY <1>8, <1>9, <1>10, <1>11, <1>12 DEF IInv

\* The comparisons were made or not; the registry is still the thread's.
LEMMA DeriveCallKeeps ==
    ASSUME IInv, NEW t \in Threads, NEW success \in BOOLEAN,
           DeriveCall(t, success)
    PROVE  IInv'
<1> DEFINE a == threads[t].review.attempt
           next == [threads[t] EXCEPT !.pc = "derive_publish"]
<1>1. /\ threads \in [Threads -> ThreadStates] /\ threads[t] \in ThreadStates
      /\ Pc(t) = "derive_call"
  BY DEF IInv, TypeInv, DeriveCall, At, Pc
<1>2. /\ FinishUsage(threads[t].charge, success) /\ Go(t, next)
      /\ UNCHANGED <<registry, consumed, results, calls>>
  BY DEF DeriveCall
<1>3. /\ next \in ThreadStates /\ next.pc = "derive_publish"
      /\ next.review = threads[t].review
  BY <1>1, NextPc DEF Writing
<1> HIDE DEF next
<1>4. /\ threads' \in [Threads -> ThreadStates]
      /\ threads'[t].pc = "derive_publish"
      /\ threads'[t].review = threads[t].review
      /\ \A u \in Threads : u # t => threads'[u] = threads[u]
  BY <1>1, <1>2, <1>3, GoFacts
<1>5. /\ registry.status \notin Open
      /\ \A u \in Threads : u # t => Pc(u)' \notin Writing
  BY <1>1, <1>4, WriterAlone DEF Pc, Writing
<1>6. /\ HoldInv' /\ StartedInv' /\ PaidInv'
      /\ usage' \in Seq(Reservations) /\ Len(usage') = Len(usage)
      /\ \A n : ReferencesUpTo(n)' <=> ReferencesUpTo(n)
      /\ \A n : DerivedUpTo(n)' <=> DerivedUpTo(n)
  <2>1. /\ Pc(t) \in Holding
        /\ Pc(t)' \notin Holding \cup Running \cup {"generate_reserve"}
        /\ UNCHANGED grants
    BY <1>1, <1>2, <1>4 DEF Pc, Holding, Running, results
  <2>2. QED
    BY <1>2, <1>4, <2>1, FinishKeeps
<1>7. TypeInv'
  BY <1>2, <1>4, <1>6 DEF IInv, TypeInv, results
<1>8. LockInv'
  BY <1>2, <1>5 DEF LockInv
<1>9. AttemptInv'
  <2>1. UpTo(a, a, a - 1)
    BY <1>1 DEF IInv, AttemptInv, ThreadBounds
  <2>2. \A n : ImagesUpTo(n)' <=> ImagesUpTo(n)
    BY <1>2, SameImages DEF results
  <2>3. ThreadBounds(t)'
    <3>1. PICK m : m = a
      OBVIOUS
    <3>2. threads'[t].review.attempt = m
      BY <1>4, <3>1
    <3>3. UpTo(m, m, m - 1)
      BY <2>1, <3>1
    <3>4. UpTo(m, m, m - 1)'
      BY <1>6, <2>2, <3>3 DEF UpTo
    <3>5. QED
      BY <1>4, <3>2, <3>4 DEF ThreadBounds, Pc
  <2>4. QED
    BY <1>2, <1>5, <2>3, ClosedBounds
<1>10. TokenInv'
  BY <1>2, <1>4 DEF IInv, TokenInv, Pc
<1>11. QED
  BY <1>6, <1>7, <1>8, <1>9, <1>10 DEF IInv

\* A run that may not claim its token closes its charge.
LEMMA RunClaimFailsKeeps ==
    ASSUME IInv, NEW t \in Threads, RunClaimFails(t)
    PROVE  IInv'
<1>1. /\ threads \in [Threads -> ThreadStates] /\ Pc(t) = "run_claim"
  BY DEF IInv, TypeInv, RunClaimFails, At, Pc
<1>2. /\ FinishUsage(threads[t].charge, FALSE) /\ Go(t, Idle)
      /\ UNCHANGED <<registry, consumed, results, calls>>
  BY DEF RunClaimFails, Closed
<1>3. /\ threads' \in [Threads -> ThreadStates] /\ threads'[t].pc = "idle"
      /\ \A u \in Threads : u # t => threads'[u] = threads[u]
  BY <1>1, <1>2, IdleFacts, GoFacts
<1>4. /\ Pc(t) \in Holding /\ Pc(t) \notin Writing /\ Pc(t)' \notin Writing
      /\ Pc(t)' \notin Holding \cup Running \cup {"generate_reserve"}
      /\ UNCHANGED <<registry, images, grants>>
  BY <1>1, <1>2, <1>3 DEF Pc, Holding, Running, Writing, results
<1>5. /\ HoldInv' /\ StartedInv' /\ PaidInv'
      /\ usage' \in Seq(Reservations) /\ Len(usage') = Len(usage)
      /\ \A n : ReferencesUpTo(n)' <=> ReferencesUpTo(n)
      /\ \A n : DerivedUpTo(n)' <=> DerivedUpTo(n)
  BY <1>2, <1>3, <1>4, FinishKeeps
<1>6. TypeInv'
  BY <1>2, <1>3, <1>5 DEF IInv, TypeInv, results
<1>7. LockInv' /\ AttemptInv'
  BY <1>3, <1>4, <1>5, RunBounds
<1>8. TokenInv'
  BY <1>2, <1>3 DEF IInv, TokenInv, Pc
<1>9. QED
  BY <1>5, <1>6, <1>7, <1>8 DEF IInv

\* A token is claimed by one run, before any call was made for it.
LEMMA RunClaimKeeps ==
    ASSUME IInv, NEW t \in Threads, RunClaim(t)
    PROVE  IInv'
<1> DEFINE k == threads[t].token
           next == [threads[t] EXCEPT !.pc = "run_call"]
<1> USE DEF IInv
<1>1. /\ threads \in [Threads -> ThreadStates] /\ threads[t] \in ThreadStates
      /\ Pc(t) = "run_claim"
  BY DEF TypeInv, RunClaim, At, Pc
<1>2. k \in Tokens /\ k \in DOMAIN grants /\ threads[t].charge \in DOMAIN usage
  BY <1>1, GrantFacts DEF HoldInv, Running, Holding
<1>3. /\ k \notin consumed /\ consumed' = consumed \cup {k} /\ Go(t, next)
      /\ UNCHANGED <<registry, usage, results, calls>>
  BY DEF RunClaim, Claimable
<1>4. /\ next \in ThreadStates /\ next.pc = "run_call"
      /\ next.token = k /\ next.charge = threads[t].charge
  BY <1>1, NextPc DEF Running
<1> HIDE DEF next
<1>5. /\ threads' \in [Threads -> ThreadStates]
      /\ threads'[t].pc = "run_call" /\ threads'[t].token = k
      /\ threads'[t].charge = threads[t].charge
      /\ \A u \in Threads : u # t => threads'[u] = threads[u]
  BY <1>1, <1>3, <1>4, GoFacts
<1>6. TypeInv'
  BY <1>2, <1>3, <1>5 DEF TypeInv, results
<1>7. LockInv' /\ AttemptInv'
  <2>1. /\ \A n : ReferencesUpTo(n)' <=> ReferencesUpTo(n)
        /\ \A n : DerivedUpTo(n)' <=> DerivedUpTo(n)
    BY <1>3 DEF ReferencesUpTo, DerivedUpTo
  <2>2. /\ Pc(t) \notin Writing /\ Pc(t)' \notin Writing
        /\ UNCHANGED <<registry, images>>
    BY <1>1, <1>3, <1>5 DEF Pc, Writing, results
  <2>3. QED
    BY <1>5, <2>1, <2>2, RunBounds
<1>8. HoldInv'
  BY <1>2, <1>3, <1>5 DEF HoldInv, Pc, results
<1>9. StartedInv'
  BY <1>1, <1>3, <1>5 DEF StartedInv, Pc, Holding
<1>10. PaidInv'
  BY <1>3 DEF PaidInv, ReferencesUpTo, ReferenceOnce, DerivedOnce
<1>11. TokenInv'
  <2>1. calls[k] = 0
    BY <1>2, <1>3 DEF TokenInv
  <2>2. \A u \in Threads : Pc(u) = "run_call" => threads[u].token # k
    BY <1>3 DEF TokenInv
  <2>3. QED
    BY <1>3, <1>5, <2>1, <2>2 DEF TokenInv, Pc
<1>12. QED
  BY <1>6, <1>7, <1>8, <1>9, <1>10, <1>11

\* The one run that claimed the token calls the provider.
LEMMA RunCallKeeps ==
    ASSUME IInv, NEW t \in Threads, NEW success \in BOOLEAN,
           RunCall(t, success)
    PROVE  IInv'
<1> DEFINE k == threads[t].token
<1>1. /\ threads \in [Threads -> ThreadStates] /\ Pc(t) = "run_call"
      /\ calls \in [Tokens -> Nat]
  BY DEF IInv, TypeInv, RunCall, At, Pc
<1>2. k \in Tokens /\ calls[k] = 0 /\ k \in consumed
  BY <1>1, GrantFacts DEF IInv, HoldInv, TokenInv, Running
<1>3. /\ FinishUsage(threads[t].charge, success) /\ Go(t, Idle)
      /\ UNCHANGED <<registry, consumed, results>>
      /\ calls' = [calls EXCEPT ![k] = @ + 1]
  BY DEF RunCall
<1>4. /\ threads' \in [Threads -> ThreadStates] /\ threads'[t].pc = "idle"
      /\ \A u \in Threads : u # t => threads'[u] = threads[u]
  BY <1>1, <1>3, IdleFacts, GoFacts
<1>5. /\ Pc(t) \in Holding /\ Pc(t) \notin Writing /\ Pc(t)' \notin Writing
      /\ Pc(t)' \notin Holding \cup Running \cup {"generate_reserve"}
      /\ UNCHANGED <<registry, images, grants>>
  BY <1>1, <1>3, <1>4 DEF Pc, Holding, Running, Writing, results
<1>6. /\ HoldInv' /\ StartedInv' /\ PaidInv'
      /\ usage' \in Seq(Reservations) /\ Len(usage') = Len(usage)
      /\ \A n : ReferencesUpTo(n)' <=> ReferencesUpTo(n)
      /\ \A n : DerivedUpTo(n)' <=> DerivedUpTo(n)
  BY <1>3, <1>4, <1>5, FinishKeeps
<1>7. /\ calls' \in [Tokens -> Nat] /\ calls'[k] = 1
      /\ \A j \in Tokens : j # k => calls'[j] = calls[j]
  BY <1>1, <1>2, <1>3
<1>8. TypeInv'
  BY <1>3, <1>4, <1>6, <1>7 DEF IInv, TypeInv, results
<1>9. LockInv' /\ AttemptInv'
  BY <1>4, <1>5, <1>6, RunBounds
<1>10. TokenInv'
  <2>1. \A u \in Threads : Pc(u)' = "run_call" =>
           /\ u # t /\ Pc(u) = "run_call" /\ threads'[u] = threads[u]
           /\ threads[u].token # k /\ threads[u].token \in Tokens
    BY <1>1, <1>4, GrantFacts DEF IInv, HoldInv, TokenInv, Running, Pc
  <2>2. QED
    BY <1>2, <1>3, <1>7, <2>1 DEF IInv, TokenInv
<1>11. QED
  BY <1>6, <1>8, <1>9, <1>10 DEF IInv

-----------------------------------------------------------------------------
(* Every step keeps the invariant *)

\* A step in which the orchestrator does nothing keeps the invariant.
LEMMA StutterKeeps ==
    ASSUME IInv, UNCHANGED vars
    PROVE  IInv'
<1> USE DEF IInv, vars, results
<1>1. TypeInv' /\ HoldInv' /\ StartedInv' /\ LockInv'
  BY DEF TypeInv, HoldInv, StartedInv, LockInv, Pc
<1>2. AttemptInv'
  BY DEF AttemptInv, RegistryBounds, ThreadBounds, UpTo, ReferencesUpTo,
         DerivedUpTo, ImagesUpTo, Pc
<1>3. PaidInv' /\ TokenInv'
  BY DEF PaidInv, ReferencesUpTo, ReferenceOnce, DerivedOnce, TokenInv, Pc
<1>4. QED
  BY <1>1, <1>2, <1>3

\* The orchestrator starts with no reference review, no charge and no thread at work.
LEMMA InitIInv == Init => IInv
<1> SUFFICES ASSUME Init PROVE IInv
  OBVIOUS
<1>1. /\ registry \in Registries /\ registry.review = NoReview
      /\ registry.review.attempt = 0 /\ registry.status = "absent"
  BY EntryFacts, ReviewFacts DEF Init
<1>2. /\ usage = <<>> /\ Len(usage) = 0 /\ DOMAIN usage = {}
      /\ grants = <<>> /\ Len(grants) = 0 /\ images = {}
  BY DEF Init
<1>3. \A t \in Threads : threads[t] \in ThreadStates /\ Pc(t) = "idle"
  BY IdleFacts DEF Init, Pc
<1>4. TypeInv
  BY <1>1, <1>2, <1>3, SearchOrchestratorAssumption DEF Init, TypeInv
<1>5. HoldInv /\ StartedInv
  BY <1>2, <1>3, SearchOrchestratorAssumption
     DEF HoldInv, StartedInv, Holding, Running
<1>6. LockInv
  BY <1>3 DEF LockInv, Writing
<1>7. AttemptInv
  BY <1>1, <1>2, <1>3
     DEF AttemptInv, RegistryBounds, ThreadBounds, UpTo, ReferencesUpTo,
         DerivedUpTo, ImagesUpTo
<1>8. PaidInv
  BY <1>2 DEF PaidInv, ReferencesUpTo, ReferenceOnce, DerivedOnce
<1>9. TokenInv
  BY <1>3 DEF Init, TokenInv
<1>10. QED
  BY <1>4, <1>5, <1>6, <1>7, <1>8, <1>9 DEF IInv

\* Every step of a thread, and every method called in one step, keeps the invariant.
LEMMA StepIInv == IInv /\ [Next]_vars => IInv'
<1> SUFFICES ASSUME IInv, [Next]_vars PROVE IInv'
  OBVIOUS
<1>1. CASE UNCHANGED vars
  BY <1>1, StutterKeeps
<1>2. CASE AtomicCall
  BY <1>2, AtomicKeeps
<1>3. ASSUME NEW t \in Threads, Call(t) PROVE IInv'
  BY <1>3, GenerateBeginKeeps, ApproveReferenceKeeps, SkipImagesBeginKeeps,
     RunBeginKeeps
     DEF Call
<1>4. ASSUME NEW t \in Threads, ThreadStep(t) PROVE IInv'
  BY <1>4, GenerateLockKeeps, GenerateReserveKeeps, GenerateRefusedKeeps,
     GenerateCallKeeps, GeneratePublishKeeps, DeriveReserveKeeps,
     DeriveRefusedKeeps, DeriveCallKeeps, DerivePublishKeeps,
     SkipImagesDiscardKeeps, RunValidateKeeps, RunReserveKeeps,
     RunRefusedKeeps, RunClaimKeeps, RunClaimFailsKeeps, RunCallKeeps
     DEF ThreadStep
<1>5. QED
  BY <1>1, <1>2, <1>3, <1>4 DEF Next

\* The inductive invariant holds, whatever the threads of a session pass in.
THEOREM Invariance == Spec => []IInv
<1>1. QED
  BY InitIInv, StepIInv, PTL DEF Spec

-----------------------------------------------------------------------------
(* What is paid for *)

\* The reference attempts that were paid for are different numbers up to
\* MAX_IMAGE_SET_ATTEMPTS, so there are not more of them.
LEMMA AttemptsAreFew == IInv => AttemptsBounded
<1> SUFFICES ASSUME IInv PROVE AttemptsBounded
  OBVIOUS
<1> DEFINE S == {i \in DOMAIN usage : usage[i].operation = "reference_image"}
           f == [i \in S |-> usage[i].binding]
<1>1. \A i \in S : f[i] \in 1..MaxAttempts
  BY DEF IInv, PaidInv, ReferencesUpTo
<1>2. \A i, j \in S : f[i] = f[j] => i = j
  BY DEF IInv, PaidInv, ReferenceOnce
<1>3. f \in Injection(S, 1..MaxAttempts)
  BY <1>1, <1>2 DEF Injection, IsInjective
<1>4. /\ IsFiniteSet(1..MaxAttempts)
      /\ Cardinality(1..MaxAttempts) = MaxAttempts
  BY SearchOrchestratorAssumption, FS_Interval
<1> HIDE DEF f, S
<1>5. Cardinality(S) <= Cardinality(1..MaxAttempts)
  BY <1>3, <1>4, FS_Injection
<1>6. QED
  BY <1>4, <1>5 DEF AttemptsBounded, S

\* The paid image calls are made by a thread that writes the registry, and
\* there is one.
LEMMA ImageCallsAreFew == IInv => OneImageCall
<1> SUFFICES ASSUME IInv PROVE OneImageCall
  OBVIOUS
<1> DEFINE P == {"generate_reserve", "generate_call", "derive_reserve",
                 "derive_call"}
           S == {t \in Threads : threads[t].pc \in P}
<1>1. \A t, u \in S : t = u
  BY DEF IInv, LockInv, Pc, Writing
<1>2. CASE S = {}
  BY <1>2, FS_EmptySet DEF OneImageCall
<1>3. CASE \E t : S = {t}
  <2>1. Cardinality(S) = 1
    BY <1>3, FS_Singleton
  <2>2. QED
    BY <2>1 DEF OneImageCall
<1>4. QED
  BY <1>1, <1>2, <1>3

\* One provider call for an approval, a bounded number of references, one job
\* of comparisons for each and one image call at a time, for any number of
\* threads and any arguments they kept: _reserve_usage, _REFERENCE_LOCK and
\* InMemoryApprovalLedger together (orchestrator.py).
THEOREM PaidCallsTheorem == Spec => []PaidCallsBounded
<1>1. IInv => TokenCallsOnce
  <2> SUFFICES ASSUME IInv, NEW k \in Tokens PROVE calls[k] <= 1
    BY DEF TokenCallsOnce
  <2>1. calls[k] \in Nat /\ (calls[k] # 0 => calls[k] = 1)
    BY DEF IInv, TypeInv, TokenInv
  <2>2. QED
    BY <2>1
<1>2. IInv => PaidCallsBounded
  BY <1>1, TypeParts, AttemptsAreFew, ImageCallsAreFew
     DEF IInv, PaidInv, PaidCallsBounded
<1>3. QED
  BY <1>2, Invariance, PTL

\* Every function finishes the reservation it started, on each way out, the
\* one of a run that lost the claim of its token included.
THEOREM ChargesTheorem == Spec => []ChargesClosed
<1>1. IInv => ChargesClosed
  <2> SUFFICES ASSUME IInv, AllIdle, NEW i \in DOMAIN usage
               PROVE  usage[i].status \in Finished
    BY DEF ChargesClosed
  <2>1. usage[i] \in Reservations
    BY DEF IInv, TypeInv
  <2>2. usage[i].status # "started"
    BY DEF IInv, StartedInv, AllIdle, At, Pc, Holding
  <2>3. QED
    BY <2>1, <2>2 DEF Reservations, Finished
<1>2. QED
  BY <1>1, Invariance, PTL

-----------------------------------------------------------------------------
(* What was replaced *)

\* Only the end of an approval makes images current.
LEMMA RegistryStep ==
    ASSUME IInv, [Next]_vars
    PROVE  \/ registry' = registry \/ registry'.status # "consumed"
           \/ \E t \in Threads : DerivePublish(t)
<1> DEFINE Goal == \/ registry' = registry \/ registry'.status # "consumed"
                   \/ \E t \in Threads : DerivePublish(t)
<1>1. /\ reviews \subseteq Reviews
      /\ \A t \in Threads : threads[t].review \in Reviews
  BY DEF IInv, TypeInv, ThreadStates
<1>2. \A r \in Reviews : /\ Entry(r, "generating").status = "generating"
                         /\ Entry(r, "retry_ready").status = "retry_ready"
                         /\ Entry(r, "pending").status = "pending"
                         /\ Entry(r, "deriving").status = "deriving"
                         /\ Entry(r, "discarded").status = "discarded"
  BY DEF Entry
<1>3. CASE UNCHANGED vars
  BY <1>3 DEF vars
<1>4. CASE AtomicCall
  BY <1>1, <1>2, <1>4
     DEF AtomicCall, SkipIntent, SkipReference, AcceptImages, ApproveSearch
<1>5. ASSUME NEW t \in Threads, Call(t) PROVE Goal
  BY <1>1, <1>2, <1>5
     DEF Call, GenerateBegin, ApproveReference, SkipImagesBegin, RunBegin
<1>6. ASSUME NEW t \in Threads, ThreadStep(t) PROVE Goal
  <2>1. CASE GenerateLock(t) \/ GenerateReserve(t) \/ GenerateRefused(t)
             \/ GeneratePublish(t)
    BY <1>1, <1>2, <2>1
       DEF GenerateLock, GenerateReserve, GenerateRefused, GeneratePublish
  <2>2. CASE DeriveReserve(t) \/ DeriveRefused(t) \/ DerivePublish(t)
    BY <2>2 DEF DeriveReserve, DeriveRefused
  <2>3. CASE RunValidate(t) \/ RunReserve(t) \/ RunRefused(t)
             \/ RunClaim(t) \/ RunClaimFails(t)
    BY <2>3 DEF RunValidate, RunReserve, RunRefused, RunClaim, RunClaimFails
  <2>4. ASSUME NEW success \in BOOLEAN,
               \/ GenerateCall(t, success) \/ DeriveCall(t, success)
               \/ SkipImagesDiscard(t, success) \/ RunCall(t, success)
        PROVE  Goal
    BY <1>1, <1>2, <2>4
       DEF GenerateCall, DeriveCall, SkipImagesDiscard, RunCall
  <2>5. QED
    BY <1>6, <2>1, <2>2, <2>3, <2>4 DEF ThreadStep
<1>7. QED
  BY <1>3, <1>4, <1>5, <1>6 DEF Next

\* The reference whose approval ends is newer than every set of images, so no
\* older set becomes current with it.
LEMMA ReplacedStep ==
    ASSUME IInv, [Next]_vars, NEW im \in images, ~CurrentImages(im)
    PROVE  ~CurrentImages(im)'
<1>1. im # NoImages /\ registry # Entry(im.review, "consumed")
  BY DEF CurrentImages
<1>2. CASE registry' = registry \/ registry'.status # "consumed"
  BY <1>1, <1>2 DEF CurrentImages, Entry
<1>3. ASSUME NEW t \in Threads, DerivePublish(t)
      PROVE  registry' # Entry(im.review, "consumed")
  <2> DEFINE r == threads[t].review
  <2>1. registry' = Entry(r, "consumed") /\ Pc(t) = "derive_publish"
    BY <1>3 DEF DerivePublish, Derived, At, Pc
  <2>2. r \in Reviews
    BY DEF IInv, TypeInv, ThreadStates
  <2>3. im.review.attempt <= r.attempt - 1
    BY <2>1 DEF IInv, AttemptInv, ThreadBounds, UpTo, ImagesUpTo
  <2>4. r.attempt \in Int
    BY <2>2, ReviewFacts
  <2>5. im.review # r
    BY <2>3, <2>4
  <2>6. QED
    BY <2>1, <2>5 DEF Entry
<1>4. QED
  BY <1>1, <1>2, <1>3, RegistryStep DEF CurrentImages

\* Images that were replaced or discarded never become current again: no
\* search with them is approved or begun any more (_validate_current_images).
THEOREM ReplacedTheorem == Spec => ReplacedStayReplaced
<1>1. IInv /\ [Next]_vars =>
        [\A im \in images : ~CurrentImages(im) => ~CurrentImages(im)']_vars
  BY ReplacedStep
<1>2. QED
  BY <1>1, Invariance, PTL DEF Spec, ReplacedStayReplaced
=============================================================================

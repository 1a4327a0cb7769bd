----------------------------- MODULE UsageLedger -----------------------------
(***************************************************************************)
(* InMemoryUsageLedger (src/search_v2/usage_ledger.py): every paid attempt *)
(* is reserved before it is sent, started when it is sent and finished as  *)
(* succeeded or failed; a reservation that was not started can be released.*)
(* Each provider has limits per owner and day, per session and per day.    *)
(*                                                                         *)
(* Every method holds the ledger's lock, so a method is one action.  The   *)
(* caller reads the clock before it waits for the lock, and the clock is   *)
(* the wall clock: the times of two calls may arrive in any order, so each *)
(* call takes its own time.  A reservation keeps the time it was reserved  *)
(* at and the time of its last event, the ones that later checks compare.  *)
(* Its id is its position; digests other than the pricing policy always    *)
(* match.                                                                  *)
(***************************************************************************)
EXTENDS Integers, Sequences, FiniteSetsExt

CONSTANTS
    Providers, Owners, Sessions,
    Dimensions,        \* what is counted: calls, tokens, cost
    Amounts,           \* the amounts that are requested, [Dimensions -> Nat]
    Policies,          \* ProviderUsageLimits of each provider
    Times,             \* the readings of the clock
    DayLength,         \* readings of the clock in one UTC day
    MaxReservations    \* MAX_LEDGER_RESERVATIONS

ASSUME UsageLedgerAssumption ==
    /\ Amounts \subseteq [Dimensions -> Nat]
    /\ Policies \in [Providers -> [quota : {"enforced", "disabled"},
                                   per_user_day : [Dimensions -> Nat],
                                   per_session : [Dimensions -> Nat],
                                   global_day : [Dimensions -> Nat]]]
    /\ Times \subseteq Nat /\ DayLength \in Nat \ {0}
    /\ MaxReservations \in Nat
    \* a request reserves at least one dimension
    /\ \A a \in Amounts : \E d \in Dimensions : a[d] > 0

VARIABLE ledger        \* _reservations, in the order they were made

Requests == [provider : Providers, owner : Owners, session : Sessions,
             amount : Amounts]

Statuses == {"reserved", "started", "succeeded", "failed", "released"}

Reservations == [request : Requests, status : Statuses, reserved_at : Times,
                 last : Times]

Day(t) == t \div DayLength

-----------------------------------------------------------------------------
(* Totals and limits *)

\* _CHARGED_STATUSES
ChargedSucceeded == {"reserved", "started", "succeeded"}     \* mutant
Charged == {"reserved", "started", "succeeded", "failed"}

\* _charged_reservations
ChargedTo(l, p) == {i \in DOMAIN l : l[i].request.provider = p /\
                                     l[i].status \in Charged}

\* _scope_total
Total(l, scope, d) == MapThenSumSet(LAMBDA i : l[i].request.amount[d], scope)

\* _within_limit, after the amount of a request is added
Within(l, scope, amount, limit) ==
    \A d \in Dimensions : Total(l, scope, d) + amount[d] <= limit[d]

\* The three scopes that a charge to an owner, in a session, on a day is in
UserDay(l, p, o, day) ==
    {i \in ChargedTo(l, p) : l[i].request.owner = o /\
                             Day(l[i].reserved_at) = day}
OfSession(l, p, o, s) ==
    {i \in ChargedTo(l, p) : l[i].request.owner = o /\
                             l[i].request.session = s}
OnDay(l, p, day) == {i \in ChargedTo(l, p) : Day(l[i].reserved_at) = day}

\* _would_exceed
WouldExceed(l, r, now) ==
    LET policy == Policies[r.provider] IN
    /\ policy.quota = "enforced"
    /\ \/ ~Within(l, UserDay(l, r.provider, r.owner, Day(now)), r.amount,
                  policy.per_user_day)
       \/ ~Within(l, OfSession(l, r.provider, r.owner, r.session), r.amount,
                  policy.per_session)
       \/ ~Within(l, OnDay(l, r.provider, Day(now)), r.amount,
                  policy.global_day)

ValidSnapshotBySession(l) ==                                 \* mutant
    LET none == [d \in Dimensions |-> 0] IN
    \A p \in Providers : Policies[p].quota = "enforced" =>
        \A i \in ChargedTo(l, p) :
            LET r == l[i].request
                day == Day(l[i].reserved_at) IN
            /\ Within(l, UserDay(l, p, r.owner, day), none,
                      Policies[p].per_user_day)
            /\ Within(l, {j \in ChargedTo(l, p) :
                             l[j].request.session = r.session},
                      none, Policies[p].per_session)
            /\ Within(l, OnDay(l, p, day), none, Policies[p].global_day)
\* from_snapshot, which refuses a snapshot that is over a limit: the totals
\* are taken per key of the charged reservations (_validate_current_limits).
ValidSnapshot(l) ==
    LET none == [d \in Dimensions |-> 0] IN
    \A p \in Providers : Policies[p].quota = "enforced" =>
        \A i \in ChargedTo(l, p) :
            LET r == l[i].request
                day == Day(l[i].reserved_at) IN
            /\ Within(l, UserDay(l, p, r.owner, day), none,
                      Policies[p].per_user_day)
            /\ Within(l, OfSession(l, p, r.owner, r.session), none,
                      Policies[p].per_session)
            /\ Within(l, OnDay(l, p, day), none, Policies[p].global_day)

-----------------------------------------------------------------------------
(* The methods, as functions of the ledger: the guard and the new ledger *)

\* reserve: the pricing policy of the request has to be the provider's.
CanReserve(l, r, pricing, now) ==
    /\ pricing = "approved"
    /\ ~WouldExceed(l, r, now)
    /\ Len(l) < MaxReservations

Reserved(l, r, now) ==
    Append(l, [request |-> r, status |-> "reserved", reserved_at |-> now,
               last |-> now])

\* _owned_reservation, the status test of the method and validate_lifecycle
CanUpdate(l, i, o, s, from, now) ==
    /\ i \in DOMAIN l
    /\ l[i].request.owner = o /\ l[i].request.session = s
    /\ l[i].status \in from
    /\ now >= l[i].last

Updated(l, i, status, now) ==
    [l EXCEPT ![i].status = status, ![i].last = now]

-----------------------------------------------------------------------------

LedgerInit == ledger = <<>>

Reserve(r, pricing, now) ==
    /\ CanReserve(ledger, r, pricing, now)
    /\ ledger' = Reserved(ledger, r, now)

Start(i, o, s, now) ==
    /\ CanUpdate(ledger, i, o, s, {"reserved"}, now)
    /\ ledger' = Updated(ledger, i, "started", now)

Finish(i, o, s, success, now) ==
    /\ CanUpdate(ledger, i, o, s, {"started"}, now)
    /\ ledger' = Updated(ledger, i, IF success THEN "succeeded" ELSE "failed",
                         now)

ReleaseUnfinished(i, o, s, now) ==                           \* mutant
    /\ CanUpdate(ledger, i, o, s, {"reserved", "started"}, now)
    /\ ledger' = Updated(ledger, i, "released", now)
Release(i, o, s, now) ==
    /\ CanUpdate(ledger, i, o, s, {"reserved"}, now)
    /\ ledger' = Updated(ledger, i, "released", now)

LedgerNext ==
    \E now \in Times :
        \/ \E r \in Requests, pricing \in {"approved", "other"} :
              Reserve(r, pricing, now)
        \/ \E i \in DOMAIN ledger, o \in Owners, s \in Sessions :
              \/ Start(i, o, s, now)
              \/ \E success \in BOOLEAN : Finish(i, o, s, success, now)
              \/ Release(i, o, s, now)

LedgerSpec == LedgerInit /\ [][LedgerNext]_ledger

-----------------------------------------------------------------------------

\* The ledger keeps its type.
TypeOK == ledger \in Seq(Reservations)

\* What was spent or may still be spent: everything that was not released
\* before its attempt started, whether the attempt succeeded or failed.
Spent(scope(_), d) ==
    Total(ledger, {i \in DOMAIN ledger : ledger[i].status # "released" /\
                                         scope(ledger[i])}, d)

\* The limits hold whatever the order of the calls and of their clock
\* readings: no owner on a day, no session and no day ever exceeds what its
\* provider's policy allows, counting failed attempts.
LimitsHold ==
    \A p \in Providers, d \in Dimensions : Policies[p].quota = "enforced" =>
        /\ \A o \in Owners, day \in {Day(t) : t \in Times} :
              Spent(LAMBDA x : x.request.provider = p /\ x.request.owner = o
                               /\ Day(x.reserved_at) = day, d)
                <= Policies[p].per_user_day[d]
        /\ \A o \in Owners, s \in Sessions :
              Spent(LAMBDA x : x.request.provider = p /\ x.request.owner = o
                               /\ x.request.session = s, d)
                <= Policies[p].per_session[d]
        /\ \A day \in {Day(t) : t \in Times} :
              Spent(LAMBDA x : x.request.provider = p
                               /\ Day(x.reserved_at) = day, d)
                <= Policies[p].global_day[d]

\* Every snapshot of a ledger can be restored: what reserve admits one by one
\* is what from_snapshot accepts as a whole.
Restorable == TypeOK /\ ValidSnapshot(ledger)

\* A started attempt is never refunded: its charge, to the same owner,
\* session and day, stays for ever, and a finished one is final.
StartedStaysCharged ==
    [][\A i \in DOMAIN ledger :
         ledger[i].status \in {"started", "succeeded", "failed"} =>
            /\ ledger'[i].request = ledger[i].request
            /\ ledger'[i].reserved_at = ledger[i].reserved_at
            /\ ledger'[i].status \in
                 IF ledger[i].status = "started"
                 THEN {"started", "succeeded", "failed"}
                 ELSE {ledger[i].status}]_ledger
=============================================================================

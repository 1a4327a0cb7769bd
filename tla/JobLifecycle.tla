---------------------------- MODULE JobLifecycle ----------------------------
(***************************************************************************)
(* What the job queue promises to a caller who sees only job statuses: a   *)
(* job moves along one fixed graph, its callback is entered at most once   *)
(* and only while it is running or being cancelled, and a restart settles  *)
(* every unfinished job in one step.  SearchJob is shown to implement it.  *)
(***************************************************************************)
CONSTANT Jobs

VARIABLES status, entered

Fresh == "fresh"
Gone  == "gone"
Final == {"succeeded", "failed", "cancelled", "timed_out"}

Init == status = [j \in Jobs |-> Fresh] /\ entered = {}

Move(j, from, to) ==
    /\ status[j] \in from
    /\ status' = [status EXCEPT ![j] = to]
    /\ UNCHANGED entered

Accept(j)  == Move(j, {Fresh}, "queued")
Start(j)   == Move(j, {"queued"}, "running")
Expire(j)  == Move(j, {"queued"}, "timed_out")
Cancel(j)  == Move(j, {"queued"}, "cancelled")
Request(j) == Move(j, {"running"}, "cancel_requested")
Settle(j)  == Move(j, {"cancel_requested"}, "cancelled")
Succeed(j) == Move(j, {"running"}, "succeeded")
Fail(j)    == Move(j, {"running"}, "failed")

Enter(j) ==
    /\ status[j] \in {"running", "cancel_requested"} /\ j \notin entered
    /\ entered' = entered \cup {j}
    /\ UNCHANGED status

Recovered(s) == CASE s \in {"queued", "running"} -> "failed"
                  [] s = "cancel_requested" -> "cancelled"
                  [] OTHER -> s

Recover ==
    /\ status' = [j \in Jobs |-> Recovered(status[j])]
    /\ UNCHANGED entered

Forget ==
    /\ \E S \in SUBSET {j \in Jobs : status[j] \in Final} :
          status' = [j \in Jobs |-> IF j \in S THEN Gone ELSE status[j]]
    /\ UNCHANGED entered

Next ==
    \/ \E j \in Jobs :
          \/ Accept(j) \/ Start(j) \/ Expire(j) \/ Cancel(j) \/ Request(j)
          \/ Settle(j) \/ Succeed(j) \/ Fail(j) \/ Enter(j)
    \/ Recover \/ Forget

Spec == Init /\ [][Next]_<<status, entered>>
=============================================================================

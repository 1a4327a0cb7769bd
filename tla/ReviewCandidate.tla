--------------------------- MODULE ReviewCandidate ---------------------------
(* What a review looks at: the candidate change as a tree of files against    *)
(* the task's base, the policy it must satisfy (tools/ai_review/policy.py),   *)
(* the frozen snapshots it is reviewed from (snapshot.py), the runs of the    *)
(* tests (offline_phase_protocol.py, attested_judge.py) and the packet the    *)
(* reviewers are given (review_packet.py).  These are functions of trees: a   *)
(* tree maps every path to the version of the file there, 0 for no file.      *)
EXTENDS Integers, FiniteSets

CONSTANTS
  Contents,       \* the commits the candidate worktree can be at
  Base,           \* the task's base commit
  Paths,          \* the paths of the repository
  TestPaths,      \* test_paths of the task's acceptance test
  AllowedPaths,   \* allowed_paths of the task
  DeniedPaths,    \* denied_paths of the task, and the protected paths
  SensitivePaths, \* the paths that must never cross a review boundary
  Contracted,     \* the commits on Base alone with the task's message and author
  MaxChanged,     \* limits.max_changed_files
  TreeOf          \* TreeOf[c]: the tree of commit c

ASSUME CandidateAssumption ==
  /\ TestPaths \subseteq Paths /\ TestPaths # {}
  /\ AllowedPaths \subseteq Paths /\ DeniedPaths \subseteq Paths
  /\ SensitivePaths \subseteq Paths /\ Contracted \subseteq Contents
  /\ TreeOf \in [Contents \cup {Base} -> [Paths -> Nat]]

NoFile == 0
-------------------------------------------------------------------------------
(* The policy.                                                                *)

(* _diff_metadata: the paths whose blob differs, with added, deleted.         *)
Changed(c) == {p \in Paths : TreeOf[c][p] # TreeOf[Base][p]}
Added(c) == {p \in Changed(c) : TreeOf[Base][p] = NoFile}
Deleted(c) == {p \in Changed(c) : TreeOf[c][p] = NoFile}

(* _is_protected_path, _matches: allowed, and not denied or protected.        *)
InScope(c) == Changed(c) \subseteq AllowedPaths \ DeniedPaths

(* _detected_renames_and_copies: an added file that is a blob of the base.    *)
Copied(c) == {p \in Added(c) : \E q \in Paths \ {p} : TreeOf[Base][q] = TreeOf[c][p]}

(* _inspect_candidate_commit: one squash commit on the base, made as the task *)
(* says.                                                                      *)
CommitAsContracted(c) == c \in Contracted

(* The violations inspect_git_diff finds in the committed change.             *)
PolicyHolds(c) ==
  /\ CommitAsContracted(c)
  /\ Changed(c) # {}
  /\ Cardinality(Changed(c)) <= MaxChanged
  /\ InScope(c)
  /\ Deleted(c) = {}
  /\ Copied(c) = {}

(* _reject_dirty_worktree, _reject_untracked_paths: index, files and HEAD are *)
(* the same; a worktree is [head, dirty].                                     *)
CleanWorktree(work) == ~work.dirty

(* inspect_git_diff: clean, at the expected patch, and within the policy.     *)
InspectGitDiff(work, cand) ==
  CleanWorktree(work) /\ work.head = cand /\ PolicyHolds(work.head)
-------------------------------------------------------------------------------
(* Snapshots.                                                                 *)

(* _verified_commit_tree, _tree_entries: a tree is read object by object, and *)
(* refused with a sensitive path anywhere in it.                              *)
Materialisable(c) == \A p \in SensitivePaths : TreeOf[c][p] = NoFile
(* create_readonly_snapshot: the files of a commit, every object re-hashed,   *)
(* frozen under the digest of its manifest (the tree itself stands for it).   *)
Snapshot(c) == TreeOf[c]
(* verify_readonly_snapshot: the frozen tree is what its manifest says.       *)
Verified(snapshot, c) == snapshot = TreeOf[c]

(* _test_delta: every declared test path is there and is changed.             *)
TestDelta(base, cand) ==
  \A p \in TestPaths : cand[p] # NoFile /\ cand[p] # base[p]

(* create_red_tdd_snapshot: the base with the candidate's tests.              *)
RedTree(base, cand) == [p \in Paths |-> IF p \in TestPaths THEN cand[p] ELSE base[p]]

(* _assert_exact_red_tree, measure_red_tdd_snapshot: exactly the tests differ *)
(* from the base, and they are the candidate's.                               *)
ExactRedTree(base, cand, red) ==
  /\ {p \in Paths : red[p] # base[p]} = TestPaths
  /\ \A p \in TestPaths : red[p] = cand[p]
-------------------------------------------------------------------------------
(* The offline runs: the gate, and the test before and after the change.      *)

RunIds == {"gate", "red", "green"}
(* prepare_offline_batch: the commit a run starts from, the candidate it is   *)
(* for and the frozen tree it mounts.                                         *)
PlannedRun(run, base, cand, red) ==
  [source |-> IF run = "red" THEN base ELSE cand, cand |-> cand,
   tree |-> IF run = "red" THEN red ELSE cand]
(* parse_prepared_offline_batch, _prepared_run_from_dict: each run once.      *)
PlanParses(plan) == DOMAIN plan = RunIds

(* execute_offline: the gate and GREEN run the candidate itself, RED a tree   *)
(* that is neither its source nor the candidate.                              *)
MayRun(run, p) ==
  IF run = "red" THEN p.source # p.cand /\ p.tree \notin {p.source, p.cand}
  ELSE p.tree = p.cand /\ p.source = p.cand
RunEvidence(p, exit) == [source |-> p.source, cand |-> p.cand, tree |-> p.tree, exit |-> exit]
(* validate_offline_run_evidence: the request and the mounted tree are the    *)
(* planned ones, whatever the exit code is.                                   *)
RunEvidenceHolds(run, ev, p) == MayRun(run, ev) /\ ev = RunEvidence(p, ev.exit)

(* derive_offline_artifacts: every planned run is there, on its snapshot.     *)
RunsBound(runs, base, cand, red) ==
  /\ DOMAIN runs = RunIds
  /\ \A r \in RunIds : RunEvidenceHolds(r, runs[r], PlannedRun(r, base, cand, red))

(* _validate_gates: every gate passed.                                        *)
GatesPass(runs) == runs["gate"].exit = "pass"
(* _validate_tdd: the test fails before the change and passes after it.       *)
TddHolds(runs) == runs["red"].exit = "fail" /\ runs["green"].exit = "pass"

(* _validate_base_bindings, _validate_diff_paths: only a passing policy has   *)
(* a packet, and its diff is of exactly the paths of the policy.              *)
PacketBound(c, diff) == PolicyHolds(c) /\ diff # {} /\ diff = Changed(c)
(* _render_snapshot_diff: the diff is rendered from the two snapshots; a file *)
(* that is gone, or a change the policy did not see, has none.                *)
SnapshotDiff(base, cand) == {p \in Paths : base[p] # cand[p]}
DiffPossible(c, base, cand) ==
  \A p \in SnapshotDiff(base, cand) : cand[p] # NoFile /\ p \in Changed(c) /\ p \notin DeniedPaths
(* build_review_packet: the packet exists for a passing policy, gates and     *)
(* TDD evidence; it is a function of the candidate and that evidence.         *)
PacketOf(c, runs) == c
PacketPossible(c, base, cand, runs) ==
  /\ DiffPossible(c, base, cand) /\ PacketBound(c, SnapshotDiff(base, cand))
  /\ GatesPass(runs) /\ TddHolds(runs)
===============================================================================

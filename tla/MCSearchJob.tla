---------------------------- MODULE MCSearchJob ----------------------------
(* Small instances of SearchJob for TLC. *)
EXTENDS SearchJob

CONSTANTS FirstLocator, FirstBinding

\* Locators and bindings are interchangeable, and liveness rules out TLC's
\* symmetry sets: of two behaviours that differ only in their names, keep the
\* one whose first job is FirstLocator with FirstBinding.
NamedInOrder ==
    /\ issued # {} => FirstLocator \in issued
    /\ rows[FirstLocator] # NoRow => rows[FirstLocator].binding = FirstBinding
=============================================================================

---------------------------- MODULE MCInvariants ----------------------------
(***************************************************************************)
(* The hypotheses and the inductive invariants of Refinement_proofs and    *)
(* Fetch_proofs, for TLC on the programs of MCCore.                        *)
(***************************************************************************)
EXTENDS Fetch_proofs, MCCore

(* What the theorems assume of a program and of its execution. *)
Hypotheses == Safe(imem) /\ Implemented(imem) /\ JumpsForward

(* What the proofs carry from step to step. *)
Inductive == PathInv /\ DataInv /\ FetchInv
=============================================================================

----------------------------- MODULE Algorithms -----------------------------
(***************************************************************************)
(* The pure algorithms of the service, each run over every input up to a   *)
(* bound: an input is a sequence that grows by one element of the          *)
(* vocabulary of its kind at a time, so that a counterexample is a         *)
(* shortest one.  An input of any length may be the one the algorithm is   *)
(* run on; the modules that extend this one state what must hold of the    *)
(* results of such a run: TextLaws, MaskLaws and the others that end in    *)
(* Laws.                                                                   *)
(***************************************************************************)
EXTENDS Integers, Sequences, SequencesExt, FiniteSets, FiniteSetsExt

CONSTANTS
  Vocabulary,  \* Vocabulary[kind]: what an input of a kind is made of
  Bound        \* Bound[kind]: the longest input

VARIABLES kind, input

vars == <<kind, input>>

Init ==
  /\ kind \in DOMAIN Vocabulary
  /\ input = <<>>

Grow ==
  /\ kind # "done"
  /\ Len(input) < Bound[kind]
  /\ \E x \in Vocabulary[kind] : input' = Append(input, x)
  /\ UNCHANGED kind

\* The algorithm of this kind is run on the input, and that is all.
Run ==
  /\ kind # "done"
  /\ kind' = "done" /\ input' = <<>>

Next == Grow \/ Run

Spec == Init /\ [][Next]_vars
=============================================================================

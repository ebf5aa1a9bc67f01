------------------------------- MODULE Lists -------------------------------
(***************************************************************************)
(* Lists, and list comprehensions with a condition.  A condition is the    *)
(* set of the positions it holds at, so that one lemma about Picked serves *)
(* them all: the proof system takes SelectSeq for an unknown operator.     *)
(***************************************************************************)
EXTENDS Integers, SequencesExt

\* For the assumptions on constants; TLC can evaluate it.
IsSequence(s) == s \in Seq(ToSet(s))

\* The elements of s at the positions, in their order.
Picked(s, positions) ==
  FlattenSeq([i \in DOMAIN s |-> IF i \in positions THEN <<s[i]>> ELSE <<>>])
=============================================================================

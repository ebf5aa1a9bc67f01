----------------------------- MODULE AccountsMC -----------------------------
(***************************************************************************)
(* Accounts for TLC: "Ann" and "ann" are one email, which is also the      *)
(* configured one, or is not.                                              *)
(***************************************************************************)
EXTENDS Accounts, TLC

MCEmails == {"Ann", "ann", "bob"}
MCNormal == [e \in MCEmails |-> IF e = "bob" THEN "bob" ELSE "ann"]
MCRoles == {"admin", "owner"}

Symmetry == Permutations(Clients)
=============================================================================

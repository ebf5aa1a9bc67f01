---------------------------- MODULE WorkerPoolMC ----------------------------
(***************************************************************************)
(* WorkerPool for TLC: pools that start empty, with some engines, with all *)
(* they may have, and with a minimum above the maximum.                    *)
(***************************************************************************)
EXTENDS WorkerPool

MCLimits == {[min |-> 0, max |-> 2], [min |-> 1, max |-> 3],
             [min |-> 2, max |-> 2], [min |-> 3, max |-> 2]}
MCDepths == {0, 3, 10000}
=============================================================================

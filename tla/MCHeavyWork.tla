----------------------------- MODULE MCHeavyWork -----------------------------
(***************************************************************************)
(* An instance of HeavyWork for TLC.  Of every kind there is one work, of  *)
(* details there are two, of one bundle, which meet in their catalog; the  *)
(* caches keep one answer, so that a detail evicts the other.  General     *)
(* Manager Insights are left out: their guard is Trade Timing's, and they  *)
(* take the same steps.                                                    *)
(***************************************************************************)
EXTENDS HeavyWork, TLC

CONSTANTS whole, p1, p2, b1

Work(kind, bundle, part) == [kind |-> kind, bundle |-> bundle, part |-> part]

MCWorks ==
  {Work(k, b1, whole) : k \in Kinds \ {"detail", "gm"}} \cup {Work("detail", b1, p) : p \in {p1, p2}}

MCCapacity == [k \in Joined |-> 1]

Symmetry == Permutations(Threads)
=============================================================================

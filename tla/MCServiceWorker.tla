-------------------------- MODULE MCServiceWorker --------------------------
(***************************************************************************)
(* Instances of ServiceWorker for TLC.                                     *)
(***************************************************************************)
EXTENDS ServiceWorker, TLC

\* Codes, tokens, bridge threads, tabs, and commands of one sort are
\* interchangeable.
Symmetry ==
  Permutations(Secrets) \cup Permutations(Polls) \cup Permutations(Tabs)
    \cup Permutations(Opens \ Cancellable)

\* Where liveness is checked there is no symmetry; instead fresh codes and tokens,
\* which are alike, are taken in order.  No fair action takes one.
FreshInOrder == \A s \in minted', r \in Secrets : r < s => r \in minted'
=============================================================================

---------------------------- MODULE MCTradeSearch ----------------------------
(***************************************************************************)
(* Instances of TradeSearch for TLC: a league search over two pairs and a  *)
(* three-team search.  The batch limit is met before the interval in d1,   *)
(* the interval before the batch limit in t1; d1 ends off an interval.     *)
(***************************************************************************)
EXTENDS TradeSearch, TLC

CONSTANTS d1, d2, t1

TwoTeam == <<d1, d2>>
ThreeTeam == <<t1>>
MCRequests == {TwoTeam, ThreeTeam}
MCTotal == d1 :> 4 @@ d2 :> 2 @@ t1 :> 3
MCQualified == d1 :> {0, 1, 3} @@ d2 :> {0} @@ t1 :> {1}
MCGains == d1 :> {1} @@ d2 :> {0} @@ t1 :> {}

Symmetry == Permutations(Processes)
=============================================================================

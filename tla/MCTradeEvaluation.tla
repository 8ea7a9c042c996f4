--------------------------- MODULE MCTradeEvaluation ---------------------------
(***************************************************************************)
(* A small instance of TradeEvaluation: three families of requests.  The   *)
(* first varies slots, reserve players, room under the cap and sizes for   *)
(* two teams; the second varies the filters and limits on a pair with and  *)
(* without reserve slots; the third has three teams.                       *)
(***************************************************************************)
EXTENDS TradeEvaluation

CONSTANTS a1, a2, a3, b1, b2, b3, c1, f1, f2

MCPositionsOf ==
  [p \in {a1, a2, a3, b1, b2, b3, c1, f1, f2} |->
     CASE p \in {a1, b1, c1} -> {"QB"} [] p \in {a2, b3} -> {"RB", "WR"} [] OTHER -> {"WR"}]

Slots(ir, rookie) == [k \in Kinds |-> IF k = "IR" THEN ir ELSE rookie]

Roster(team, players, kindOf, slots, room) ==
  LET roster == [team |-> team, players |-> players, cap |-> Len(players), kindOf |-> kindOf, slots |-> slots]
  IN [roster EXCEPT !.cap = ActiveSize(roster) + room]

\* At most two reserve players, the first in an IR slot.
KindOfs(players, slots) ==
  {kindOf \in UNION {[P -> Kinds] : P \in {{}, {players[1]}, {players[1], players[2]}}} :
     \A k \in Kinds : Cardinality(OfKind(kindOf, ToSet(players), k)) <= slots[k]}

Rosters(team, players, allSlots, rooms) ==
  {Roster(team, players, k, s, room) : k \in UNION {KindOfs(players, s) : s \in allSlots},
                                       s \in allSlots, room \in rooms}

Legal(rosters) == {r \in rosters : IsRoster(r)}

Basic == [minOutgoing |-> 1, maxOutgoing |-> 2, minIncoming |-> 1, maxIncoming |-> 2,
          maxTotal |-> None, maxImbalance |-> None, balancedOnly |-> FALSE, excluded |-> {},
          locked |-> {}, noDrops |-> FALSE, outgoingFilter |-> <<>>, incomingFilter |-> <<>>]

Request(rosters, rules, pool) == [rosters |-> rosters, rules |-> rules, pool |-> pool]

CapacityRequests ==
  {Request(<<a, b>>, [Basic EXCEPT !.noDrops = no], pool) :
     a \in Legal(Rosters(2, <<a1, a2, a3>>, {Slots(0, 0), Slots(1, 0), Slots(1, 1)}, {0, 1})),
     b \in Legal(Rosters(1, <<b1, b2>>, {Slots(0, 0), Slots(1, 0), Slots(2, 0)}, {0})),
     no \in BOOLEAN, pool \in {{f1}, {f1, f2}}}

Rule(ids, mode, positions, positionMode) ==
  [op |-> "rule", ids |-> ids, mode |-> mode, positions |-> positions, positionMode |-> positionMode]

Node(op, args) == [op |-> op, args |-> args]

OutgoingFilters ==
  LET named == Rule({a1}, "include", {}, "none")
      alone == Rule({a2}, "only", {}, "none")
      never == Rule({a1}, "exclude", {"WR"}, "include")
      wide == Rule({}, "none", {"RB", "WR"}, "include")
      backs == Rule({}, "none", {"WR"}, "only")
      no == Rule({}, "none", {"QB"}, "exclude")
  IN {<<>>, <<named>>, <<alone>>, <<never>>, <<wide>>, <<backs>>, <<no>>,
      <<alone, Node("not", <<1>>)>>,
      <<named, wide, Node("and", <<1, 2>>)>>,
      <<alone, no, Node("xor", <<1, 2>>)>>,
      <<never, backs, Node("or", <<1, 2>>), Node("not", <<3>>)>>}

IncomingFilters ==
  {<<>>, <<Rule({b1}, "exclude", {}, "none")>>,
   <<Rule({b1, b2}, "include", {}, "none")>>,
   <<Rule({b1}, "only", {}, "none"), Rule({}, "none", {"WR"}, "include"), Node("xor", <<1, 2>>)>>}

Limits ==
  {Basic, [Basic EXCEPT !.locked = {a2}], [Basic EXCEPT !.maxTotal = 3, !.balancedOnly = TRUE],
   [Basic EXCEPT !.maxImbalance = 0], [Basic EXCEPT !.excluded = {<<1, 1>>, <<2, 1>>}]}

FilterRequests ==
  {Request(<<a, Roster(2, <<b1, b2>>, << >>, Slots(0, 0), 1)>>,
           [rules EXCEPT !.outgoingFilter = out, !.incomingFilter = in], {f1}) :
     a \in {Roster(1, <<a1, a2, a3>>, << >>, Slots(0, 0), 1),
            Roster(1, <<a1, a2, a3>>, [p \in {a1} |-> "IR"], Slots(1, 0), 1)},
     rules \in Limits, out \in OutgoingFilters, in \in IncomingFilters}

ThreeTeamFilters ==
  {<< <<>>, <<>> >>,
   << <<Rule({a1}, "include", {}, "none")>>,
      <<Rule({b1}, "exclude", {}, "none"), Rule({}, "none", {"WR"}, "include"), Node("or", <<1, 2>>)>> >>,
   << <<Rule({a1}, "only", {}, "none"), Rule({}, "none", {"WR"}, "include"), Node("xor", <<1, 2>>)>>,
      <<Rule({}, "none", {"WR"}, "include")>> >>}

ThreeTeamRequests ==
  {Request(<<a, b, Roster(2, <<c1>>, << >>, Slots(1, 0), 0)>>,
           [Basic EXCEPT !.noDrops = no, !.maxTotal = most,
                         !.outgoingFilter = filters[1], !.incomingFilter = filters[2]],
           {f1, f2}) :
     a \in {Roster(3, <<a1, a2>>, << >>, Slots(1, 0), 0),
            Roster(3, <<a1, a2>>, [p \in {a1} |-> "IR"], Slots(1, 0), 1)},
     b \in {Roster(1, <<b1, b2>>, << >>, Slots(1, 0), 1),
            Roster(1, <<b1, b2>>, [p \in {b1, b2} |-> "IR"], Slots(2, 0), 2)},
     no \in BOOLEAN, most \in {None, 4}, filters \in ThreeTeamFilters}

MCRequests == CapacityRequests \cup FilterRequests \cup ThreeTeamRequests

=============================================================================

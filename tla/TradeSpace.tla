------------------------------ MODULE TradeSpace ------------------------------
(***************************************************************************)
(* The candidates of a trade search, counted and in the order of their     *)
(* indexes, from any index on: TradeSpace of trade_space.py for two teams, *)
(* ThreeWayTradeSpace of three_way_trade.py for three.                     *)
(*                                                                         *)
(* A request is [rosters, rules, pool]: the rosters in the order of the    *)
(* space (the primary team first), the TradeConstraints, and the players   *)
(* nobody owns.  A candidate gives for every route <<from, to>> between two*)
(* positions of request.rosters the players that take it, in order.        *)
(***************************************************************************)
EXTENDS TradePackages

CONSTANTS None   \* a limit that is not set

Teams(request) == DOMAIN request.rosters

Routes(request) == {r \in Teams(request) \X Teams(request) : r[1] # r[2]}

\* outgoing_for and incoming_for
Carried(candidate, route) == IF route \in DOMAIN candidate THEN candidate[route] ELSE <<>>

Sent(candidate, team) ==
  Carried(candidate, <<team, 1>>) \o Carried(candidate, <<team, 2>>) \o Carried(candidate, <<team, 3>>)

Received(candidate, team) ==
  Carried(candidate, <<1, team>>) \o Carried(candidate, <<2, team>>) \o Carried(candidate, <<3, team>>)

Within(n, limit) == limit = None \/ n <= limit

Distance(a, b) == IF a < b THEN b - a ELSE a - b

\* reserve_kinds: without any, neither space looks at reserve slots.
HasReserve(request) ==
  \E t \in Teams(request) : \E k \in Kinds : request.rosters[t].slots[k] > 0

-----------------------------------------------------------------------------
(* Two teams.                                                              *)

Side(request, team, filter) ==
  LET roster == request.rosters[team]
  IN [ids |-> Without(roster.players, request.rules.locked), filter |-> filter,
      kindOf |-> roster.kindOf]

Outgoing(request) == Side(request, 1, request.rules.outgoingFilter)

Incoming(request) == Side(request, 2, request.rules.incomingFilter)

\* _iter_size_pairs
SizePairs(request) ==
  LET rules == request.rules
      outgoing == [i \in 1 .. Len(Outgoing(request).ids) |-> i]
      incoming == [i \in 1 .. Len(Incoming(request).ids) |-> i]
      all == FlattenSeq([o \in DOMAIN outgoing |-> [i \in DOMAIN incoming |-> <<o, i>>]])
  IN Selected(all, {pair \in Range(all) :
       /\ pair[1] \in rules.minOutgoing .. rules.maxOutgoing
       /\ pair[2] \in rules.minIncoming .. rules.maxIncoming
       /\ pair \notin rules.excluded
       /\ rules.balancedOnly => pair[1] = pair[2]
       /\ Within(pair[1] + pair[2], rules.maxTotal)
       /\ Within(Distance(pair[1], pair[2]), rules.maxImbalance)})

\* Mutant: only the primary team must be able to make room.
PrimaryFits(request, pair, outgoing, incoming) ==
  Admits(CapacityPlan(request.rosters[1], pair[1], outgoing, pair[2], incoming), request.rules.noDrops)

\* _signature_pair_is_valid
PairIsValid(request, pair, outgoing, incoming) ==
  /\ Admits(CapacityPlan(request.rosters[1], pair[1], outgoing, pair[2], incoming), request.rules.noDrops)
  /\ Admits(CapacityPlan(request.rosters[2], pair[2], incoming, pair[1], outgoing), request.rules.noDrops)

\* The pairs of packages with room, from how many packages of each side have a signature.
ValidPairs(request, pair, outgoing, incoming) ==
  LET valid == {g \in (DOMAIN outgoing) \X (DOMAIN incoming) : PairIsValid(request, pair, g[1], g[2])}
  IN SumFunction([g \in valid |-> outgoing[g[1]] * incoming[g[2]]])

\* _count_candidates
PairCount(request, pair) ==
  IF ~HasReserve(request)
  THEN IF PairIsValid(request, pair, NoSlots, NoSlots)
       THEN PackageCount(Outgoing(request), pair[1]) * PackageCount(Incoming(request), pair[2])
       ELSE 0
  ELSE ValidPairs(request, pair, CountBySignature(Outgoing(request), pair[1]),
                                 CountBySignature(Incoming(request), pair[2]))

TwoTeamCandidate(outgoing, incoming) ==
  [r \in {<<1, 2>>, <<2, 1>>} |-> IF r = <<1, 2>> THEN outgoing ELSE incoming]

Product(outgoing, incoming) ==
  FlattenSeq([o \in DOMAIN outgoing |->
    [i \in DOMAIN incoming |-> TwoTeamCandidate(outgoing[o], incoming[i])]])

From(s, skip) == SubSeq(s, skip + 1, Len(s))

\* Mutant: what remains to skip of the first outgoing package is forgotten.
SkipWhole(request, pair, skip) ==
  LET outgoing == Packages(Outgoing(request), pair[1])
      incoming == Packages(Incoming(request), pair[2])
      count == PackageCount(Incoming(request), pair[2])
  IN Product(From(outgoing, skip \div count), incoming)

\* The pairs of two lists after the first skip, count of them for each outgoing package:
\* skip is divided, not counted off.
PairsAfter(outgoing, incoming, count, skip) ==
  LET first == From(outgoing, skip \div count)
  IN From(Product(SubSeq(first, 1, 1), incoming), skip % count) \o Product(From(first, 1), incoming)

\* The candidates of one pair of sizes, after the first skip of them.  Without reserve
\* slots every pair of packages is one.
SimplePair(request, pair, skip) ==
  PairsAfter(Packages(Outgoing(request), pair[1]), Packages(Incoming(request), pair[2]),
             PackageCount(Incoming(request), pair[2]), skip)

ReservePair(request, pair, skip) ==
  LET Valid(candidate) ==
        PairIsValid(request, pair,
          Signature(Range(candidate[<<1, 2>>]), request.rosters[1].kindOf),
          Signature(Range(candidate[<<2, 1>>]), request.rosters[2].kindOf))
      pairs == Product(Packages(Outgoing(request), pair[1]), Packages(Incoming(request), pair[2]))
  IN From(Selected(pairs, {candidate \in Range(pairs) : Valid(candidate)}), skip)

\* A pair of sizes whose candidates all lie before the start is counted off; the pair
\* it lies in leaves nothing to skip.
Onward(skip, count, here, next) == IF skip >= count THEN next[skip - count] ELSE here \o next[0]

\* _iterate_from
TwoTeamsFrom(request, start) ==
  LET pairs == SizePairs(request)
      from[i \in 1 .. Len(pairs) + 1] ==
        [skip \in Nat |->
           IF i > Len(pairs) THEN <<>>
           ELSE Onward(skip, PairCount(request, pairs[i]),
                       IF HasReserve(request) THEN ReservePair(request, pairs[i], skip)
                                              ELSE SimplePair(request, pairs[i], skip), from[i + 1])]
  IN from[1][start]

TwoTeamsCount(request) ==
  LET pairs == SizePairs(request)
  IN SumFunction([i \in DOMAIN pairs |-> PairCount(request, pairs[i])])

-----------------------------------------------------------------------------
(* Three teams: one decision per player, where it goes.                    *)

Universe(request, side) ==
  IF side = "outgoing" THEN Owned(request.rosters[1])
                       ELSE Owned(request.rosters[2]) \cup Owned(request.rosters[3])

\* _PackageRule.permits: an expression is judged on the whole package only.
PermitsMove(filter, p, moves) ==
  IsLegacy(filter) => IF moves THEN Permits(filter[1], p) ELSE p \notin Required(filter[1])

\* coverage_by_player of the primary team's outgoing or incoming package
Evidence(request, side, p) ==
  LET filter == IF side = "outgoing" THEN request.rules.outgoingFilter ELSE request.rules.incomingFilter
  IN IF filter = <<>> THEN {}
     ELSE IF IsLegacy(filter) THEN Covers(filter[1], p)
     ELSE EvidenceOf(filter, p, Universe(request, side))

\* _PackageRule.matches
Matches(filter, evidence) ==
  IF filter = <<>> THEN TRUE
  ELSE IF IsLegacy(filter) THEN Target(filter[1]) \subseteq evidence
  ELSE EvidenceMatches(filter, evidence)

\* The teams a player may go to, or stay at.
Destinations(request, t, p) ==
  {to \in 1 .. 3 :
     /\ p \in request.rules.locked => to = t
     /\ t = 1 => PermitsMove(request.rules.outgoingFilter, p, to # t)
     /\ t # 1 => PermitsMove(request.rules.incomingFilter, p, to = 1)}

DecisionsOf(request, t) ==
  LET players == request.rosters[t].players
  IN [i \in DOMAIN players |->
        [player |-> players[i], origin |-> t, destinations |-> Destinations(request, t, players[i])]]

\* _player_decisions: the players of the teams in order.
Decisions(request) == DecisionsOf(request, 1) \o DecisionsOf(request, 2) \o DecisionsOf(request, 3)

\* The order in which a player's destinations are tried, its own team first.
Place == << <<1, 2, 3>>, <<2, 1, 3>>, <<3, 1, 2>> >>

OverTeams(count) == count[1] + count[2] + count[3]

Start == [index |-> 1,
          outgoing |-> [t \in 1 .. 3 |-> 0], incoming |-> [t \in 1 .. 3 |-> 0],
          outReserve |-> [t \in 1 .. 3 |-> NoSlots], inReserve |-> [t \in 1 .. 3 |-> NoSlots],
          outMask |-> {}, inMask |-> {}]

\* The limits on the sizes of a move that _advance looks at.
HasRoom(rules, state, origin, to) ==
  /\ state.outgoing[origin] < rules.maxOutgoing
  /\ state.incoming[to] < rules.maxIncoming
  /\ rules.maxTotal # None => OverTeams(state.outgoing) < rules.maxTotal

\* _advance, for a move the limits allow
Advance(request, state, decision, to) ==
  LET t == decision.origin
      p == decision.player
      mark == Signature({p}, request.rosters[t].kindOf)
      Add(signature) == [k \in Kinds |-> signature[k] + mark[k]]
  IN IF to = t THEN [state EXCEPT !.index = @ + 1]
     ELSE [index |-> state.index + 1,
           outgoing |-> [state.outgoing EXCEPT ![t] = @ + 1],
           incoming |-> [state.incoming EXCEPT ![to] = @ + 1],
           outReserve |-> [state.outReserve EXCEPT ![t] = Add(@)],
           inReserve |-> [state.inReserve EXCEPT ![to] = Add(@)],
           outMask |-> state.outMask \cup (IF t = 1 THEN Evidence(request, "outgoing", p) ELSE {}),
           inMask |-> state.inMask \cup (IF to = 1 THEN Evidence(request, "incoming", p) ELSE {})]

\* The destinations for which _advance makes a child.
IsOpen(request, state, decision, to) ==
  to \in decision.destinations /\ (to = decision.origin \/ HasRoom(request.rules, state, decision.origin, to))

\* Mutant: a team that may not drop is given up when it is full, though it may still send.
ImpossibleEarly(request, decisions, state) ==
  LET rules == request.rules
  IN rules.noDrops /\ \E t \in Teams(request) :
       LET roster == request.rosters[t]
       IN Len(roster.players) - state.outgoing[t] + state.incoming[t] - OverKinds(roster.slots) > roster.cap

\* _impossible: no way to complete the state.
Impossible(request, decisions, state) ==
  LET rules == request.rules
      rest == {i \in DOMAIN decisions : i >= state.index}
      Movers(t) == Cardinality({i \in rest : decisions[i].origin = t
                                              /\ decisions[i].destinations \ {t} # {}})
      Receivers(t) == Cardinality({i \in rest : decisions[i].origin # t
                                                 /\ t \in decisions[i].destinations})
      Missing(moved, least) == OverTeams([t \in 1 .. 3 |-> AtLeastZero(least - moved[t])])
      Larger(a, b) == IF a > b THEN a ELSE b
  IN \/ \E t \in Teams(request) :
          \/ state.outgoing[t] + Movers(t) < rules.minOutgoing
          \/ state.incoming[t] + Receivers(t) < rules.minIncoming
     \/ /\ rules.maxTotal # None
        /\ OverTeams(state.outgoing) + Larger(Missing(state.outgoing, rules.minOutgoing),
                                                Missing(state.incoming, rules.minIncoming)) > rules.maxTotal
     \/ /\ rules.noDrops
        /\ \E t \in Teams(request) :
             LET roster == request.rosters[t]
                 further == Least(Movers(t), rules.maxOutgoing - state.outgoing[t])
             IN Len(roster.players) - state.outgoing[t] - further + state.incoming[t]
                  - OverKinds(roster.slots) > roster.cap

\* _complete
Complete(request, state) ==
  LET rules == request.rules
  IN /\ \A t \in Teams(request) :
          /\ state.outgoing[t] \in rules.minOutgoing .. rules.maxOutgoing
          /\ state.incoming[t] \in rules.minIncoming .. rules.maxIncoming
          /\ rules.balancedOnly => state.outgoing[t] = state.incoming[t]
          /\ Within(Distance(state.outgoing[t], state.incoming[t]), rules.maxImbalance)
          /\ Admits(CapacityPlan(request.rosters[t], state.outgoing[t], state.outReserve[t],
                                 state.incoming[t], state.inReserve[t]), rules.noDrops)
     /\ Within(OverTeams(state.outgoing), rules.maxTotal)
     /\ Matches(rules.outgoingFilter, state.outMask)
     /\ Matches(rules.incomingFilter, state.inMask)

States(request) ==
  LET Marks(side) == UNION {Evidence(request, side, p) : p \in Universe(request, side)}
  IN [index : Nat \ {0}, outgoing : [1 .. 3 -> Nat], incoming : [1 .. 3 -> Nat],
      outReserve : [1 .. 3 -> [Kinds -> Nat]], inReserve : [1 .. 3 -> [Kinds -> Nat]],
      outMask : SUBSET Marks("outgoing"), inMask : SUBSET Marks("incoming")]

\* The child of a state for the k-th destination of its player.
Child(request, decisions, state, k) ==
  LET decision == decisions[state.index]
  IN Advance(request, state, decision, Place[decision.origin][k])

HasChild(request, decisions, state, k) ==
  LET decision == decisions[state.index]
  IN IsOpen(request, state, decision, Place[decision.origin][k])

\* _count: the candidates below a state.
Below(request, decisions, state) ==
  LET count[s \in States(request)] ==
        IF Impossible(request, decisions, s) THEN 0
        ELSE IF s.index > Len(decisions) THEN IF Complete(request, s) THEN 1 ELSE 0
        ELSE OverTeams([k \in 1 .. 3 |-> IF HasChild(request, decisions, s, k)
                                         THEN count[Child(request, decisions, s, k)] ELSE 0])
  IN count[state]

\* Where the iterator is: the state, the place in its player's destinations, what it
\* has still to skip and the destinations chosen so far.
Frames(request) == [state : States(request), place : 1 .. 4, skip : Nat, chosen : Seq(1 .. 3)]

\* _iterate: the destinations chosen for all players.  The subtrees that lie before the
\* start are skipped by their counts.
Paths(request, decisions, start) ==
  LET iterate[f \in Frames(request)] ==
        LET child == Child(request, decisions, f.state, f.place)
            count == Below(request, decisions, child)
            to == Place[decisions[f.state.index].origin][f.place]
            Rest(skip) == iterate[[f EXCEPT !.place = @ + 1, !.skip = skip]]
        IN IF f.state.index > Len(decisions)
           THEN IF Complete(request, f.state) THEN <<f.chosen>> ELSE <<>>
           ELSE IF f.place = 4 THEN <<>>
           ELSE IF ~HasChild(request, decisions, f.state, f.place) THEN Rest(f.skip)
           ELSE IF f.skip >= count THEN Rest(f.skip - count)
           ELSE iterate[[state |-> child, place |-> 1, skip |-> f.skip, chosen |-> Append(f.chosen, to)]]
                  \o Rest(0)
  IN iterate[[state |-> Start, place |-> 1, skip |-> start, chosen |-> <<>>]]

\* _candidate: every player who leaves is appended to its route.
Routed(request, decisions, chosen) ==
  LET routes[i \in 0 .. Len(decisions)] ==
        IF i = 0 THEN [r \in Routes(request) |-> <<>>]
        ELSE [r \in Routes(request) |->
                IF r = <<decisions[i].origin, chosen[i]>> THEN Append(routes[i - 1][r], decisions[i].player)
                ELSE routes[i - 1][r]]
  IN routes[Len(decisions)]

ThreeTeamsFrom(request, start) ==
  LET paths == Paths(request, Decisions(request), start)
  IN [i \in DOMAIN paths |-> Routed(request, Decisions(request), paths[i])]

ThreeTeamsCount(request) == Below(request, Decisions(request), Start)

-----------------------------------------------------------------------------

CandidateCount(request) ==
  IF Len(request.rosters) = 2 THEN TwoTeamsCount(request) ELSE ThreeTeamsCount(request)

\* iter_from
IterFrom(request, start) ==
  IF Len(request.rosters) = 2 THEN TwoTeamsFrom(request, start) ELSE ThreeTeamsFrom(request, start)
=============================================================================

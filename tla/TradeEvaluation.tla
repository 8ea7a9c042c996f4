--------------------------- MODULE TradeEvaluation ---------------------------
(***************************************************************************)
(* A search's walk over its candidates (search_runner.py, search.py,       *)
(* three_way_search.py): the space is counted, the iterator is opened at   *)
(* the stored checkpoint, and every candidate is tried by adjusting the    *)
(* rosters of its teams one after another, which may refuse it.  The search*)
(* may be stopped and resumed from a checkpoint at or before the candidate *)
(* it had reached.  TradeSearch models the stores and jobs around it.      *)
(***************************************************************************)
EXTENDS TradeSpace

CONSTANTS
  Requests,  \* the requests to search, each [rosters, rules, pool]
  CheckpointInterval,  \* settings.checkpoint_interval
  MaxStops   \* bound on how often a search is stopped

ASSUME BoundAssumption == CheckpointInterval \in Nat \ {0} /\ MaxStops \in Nat

ASSUME RequestAssumption ==
  \A q \in Requests :
    /\ q.rosters \in Seq(Range(q.rosters)) /\ Len(q.rosters) \in {2, 3}
    /\ \A t \in DOMAIN q.rosters : IsRoster(q.rosters[t]) /\ q.rosters[t].team \in Nat
    /\ \A t, u \in DOMAIN q.rosters :
         t # u => /\ q.rosters[t].team # q.rosters[u].team
                  /\ Owned(q.rosters[t]) \cap Owned(q.rosters[u]) = {}
    /\ IsFiniteSet(q.pool) /\ q.rules.noDrops \in BOOLEAN
    /\ \A t \in DOMAIN q.rosters : q.pool \cap Owned(q.rosters[t]) = {}

IsLimit(n) == n = None \/ n \in Nat

\* An operator has operands, and they are before it (TradeFilterExpression).
IsFilter(filter) ==
  /\ filter \in Seq(Range(filter))
  /\ \A i \in DOMAIN filter : filter[i].op = "rule" \/ filter[i].args \in Seq(1 .. i - 1) \ {<<>>}

\* What the constructor of TradeConstraints accepts.
ASSUME RulesAssumption ==
  \A q \in Requests :
    /\ {q.rules.minOutgoing, q.rules.minIncoming} \subseteq Nat \ {0}
    /\ {q.rules.maxOutgoing, q.rules.maxIncoming} \subseteq Nat
    /\ IsLimit(q.rules.maxTotal) /\ IsLimit(q.rules.maxImbalance)
    /\ IsFilter(q.rules.outgoingFilter) /\ IsFilter(q.rules.incomingFilter)

\* What ThreeWayTradeSpace and _compile_rule accept.
ASSUME ThreeTeamAssumption ==
  \A q \in Requests : Len(q.rosters) = 3 =>
    /\ q.rules.excluded = {}
    /\ \A i \in Rules(q.rules.outgoingFilter) : q.rules.outgoingFilter[i].ids \subseteq Universe(q, "outgoing")
    /\ \A i \in Rules(q.rules.incomingFilter) : q.rules.incomingFilter[i].ids \subseteq Universe(q, "incoming")

\* No candidate is taken for "no candidate".
ASSUME NoneAssumption ==
  \A q \in Requests : None \notin [Routes(q) -> Seq(UNION {Owned(q.rosters[t]) : t \in Teams(q)})]

VARIABLES
  request,   \* what is searched; it never changes
  phase,     \* of the search: "new", "ready", "running", "complete" or "failed"
  total,     \* candidate_count
  todo,      \* what the open iterator has still to yield
  next,      \* next_index
  trial,     \* the candidate being evaluated and the teams adjusted so far
  verdict,   \* how the last candidate ended
  examined,  \* every <<index, move>> ever evaluated (history)
  stops

vars == <<request, phase, total, todo, next, trial, verdict, examined, stops>>

NoTrial == [candidate |-> None, done |-> <<>>]

Refusals == {"forbidden", "protected", "waivers"}   \* InfeasibleRosterAdjustment

Init ==
  /\ request \in Requests
  /\ phase = "new"
  /\ total = 0
  /\ todo = <<>>
  /\ next = 0
  /\ trial = NoTrial
  /\ verdict = "none"
  /\ examined = {}
  /\ stops = 0

\* The space is built and its candidates are counted.
Count ==
  /\ phase = "new"
  /\ phase' = "ready"
  /\ total' = CandidateCount(request)
  /\ UNCHANGED <<request, todo, next, trial, verdict, examined, stops>>

\* run() opens the iterator at the checkpoint.
Open ==
  /\ phase = "ready"
  /\ phase' = "running"
  /\ todo' = IterFrom(request, next)
  /\ UNCHANGED <<request, total, next, trial, verdict, examined, stops>>

\* The move a candidate makes.
MoveOf(candidate) ==
  LET players == UNION {Owned(request.rosters[t]) : t \in Teams(request)}
  IN [p \in players |->
        IF \E t \in Teams(request) : p \in Range(Received(candidate, t))
        THEN CHOOSE t \in Teams(request) : p \in Range(Received(candidate, t))
        ELSE CHOOSE t \in Teams(request) : p \in Owned(request.rosters[t])]

\* What adjust_trade, adjust_teams and the prepared pair check of the packages.
IsTransfer(candidate) ==
  LET out == [t \in Teams(request) |-> Sent(candidate, t)]
      in == [t \in Teams(request) |-> Received(candidate, t)]
  IN \A t \in Teams(request) :
       /\ IsInjective(out[t]) /\ IsInjective(in[t])
       /\ Len(request.rosters) = 2 => out[t] # <<>>
       /\ out[t] \in Seq(Owned(request.rosters[t]))
       /\ in[t] \in Seq(UNION {Range(out[u]) : u \in Teams(request)})
       /\ Range(in[t]) \cap Owned(request.rosters[t]) = {}
       /\ \A u \in Teams(request) : u # t => Range(in[t]) \cap Range(in[u]) = {}
       /\ Range(out[t]) \subseteq UNION {Range(in[u]) : u \in Teams(request)}

Take ==
  /\ phase = "running"
  /\ trial = NoTrial
  /\ todo # <<>>
  /\ trial' = [candidate |-> Head(todo), done |-> <<>>]
  /\ todo' = Tail(todo)
  /\ examined' = examined \cup {<<next, MoveOf(Head(todo))>>}
  /\ phase' = IF IsTransfer(Head(todo)) THEN "running" ELSE "failed"
  /\ UNCHANGED <<request, total, next, verdict, stops>>

\* The order the teams are adjusted in: as given for two, by team id for three.
Turn(i) ==
  IF Len(request.rosters) = 2 THEN i
  ELSE CHOOSE t \in Teams(request) :
         Cardinality({u \in Teams(request) : request.rosters[u].team < request.rosters[t].team}) = i - 1

\* Every reserve placement among the teams: of a team's raw roster, those its
\* _transferred_reserve_candidates names.
Placements ==
  LET players == UNION {Reserved(request.rosters[t]) : t \in Teams(request)}
  IN [p \in players |->
        LET t == CHOOSE t \in Teams(request) : p \in Reserved(request.rosters[t])
        IN request.rosters[t].kindOf[p]]

\* Two teams choose from the whole pool; of three, each reserves what it takes.
Available(done) ==
  IF Len(request.rosters) = 2 THEN request.pool
  ELSE request.pool \ UNION {done[i].added : i \in DOMAIN done}

LineOf(t) == Line(request.rosters[t], Received(trial.candidate, t))

RawOf(t) ==
  Raw(request.rosters[t], Sent(trial.candidate, t), Received(trial.candidate, t))

\* The next team's roster is balanced.
Adjust ==
  /\ phase = "running"
  /\ trial # NoTrial
  /\ Len(trial.done) < Len(request.rosters)
  /\ LET t == Turn(Len(trial.done) + 1)
     IN \E outcome \in Balance(request.rosters[t], Placements, LineOf(t), RawOf(t),
                               Range(Received(trial.candidate, t)),
                               Available(trial.done), request.rules.noDrops) :
          /\ trial' = IF outcome.how = "adjusted" THEN [trial EXCEPT !.done = Append(@, outcome)]
                                                  ELSE NoTrial
          /\ verdict' = IF outcome.how = "adjusted" THEN verdict ELSE outcome.how
          /\ next' = IF outcome.how \in Refusals THEN next + 1 ELSE next
          /\ phase' = IF outcome.how = "overfull" THEN "failed" ELSE "running"
  /\ UNCHANGED <<request, total, todo, examined, stops>>

Disjoint(done) ==
  \A i, j \in DOMAIN done : i # j => done[i].players \cap done[j].players = {}

\* All teams are adjusted; no player may be on two of the rosters.
Conclude ==
  /\ phase = "running"
  /\ Len(trial.done) = Len(request.rosters)
  /\ trial' = NoTrial
  /\ next' = next + 1
  /\ verdict' = IF Disjoint(trial.done) THEN "adjusted" ELSE "shared"
  /\ phase' = IF Disjoint(trial.done) THEN "running" ELSE "failed"
  /\ UNCHANGED <<request, total, todo, examined, stops>>

\* The search is cancelled, which stores where it is, or dies, which loses what it
\* examined since the last interval, or since a full batch of results was stored.
\* A death in the middle of a candidate leaves nothing that a death before it does not.
Stop ==
  /\ phase = "running"
  /\ trial = NoTrial
  /\ stops < MaxStops
  /\ stops' = stops + 1
  /\ phase' = "ready"
  /\ todo' = <<>>
  /\ next' \in (next - (next % CheckpointInterval)) .. next
  /\ UNCHANGED <<request, total, trial, verdict, examined>>

\* The loop ends: next_index is set to candidate_count.
Finish ==
  /\ phase = "running"
  /\ trial = NoTrial
  /\ todo = <<>>
  /\ phase' = "complete"
  /\ next' = total
  /\ UNCHANGED <<request, total, todo, trial, verdict, examined, stops>>

Next == Count \/ Open \/ Take \/ Adjust \/ Conclude \/ Stop \/ Finish

Spec == Init /\ [][Next]_vars

-----------------------------------------------------------------------------
(* What a trade is: the reference, by every way to move the players.       *)

\* The documentation of TradePackageFilter.
RuleHolds(rule, package) ==
  /\ rule.mode = "include" => rule.ids \subseteq package
  /\ rule.mode = "only" => package = rule.ids
  /\ rule.mode = "exclude" => package \cap rule.ids = {}
  /\ rule.positionMode = "include" => \A q \in rule.positions : \E p \in package : q \in PositionsOf[p]
  /\ rule.positionMode = "only" => \A p \in package : PositionsOf[p] \cap rule.positions # {}
  /\ rule.positionMode = "exclude" => \A p \in package : PositionsOf[p] \cap rule.positions = {}

FilterHolds(filter, package) ==
  filter = <<>> \/ Formula(filter, {i \in Rules(filter) : RuleHolds(filter[i], package)})

\* Some cut of players the team already had, and some seating of reserve players
\* in slots of their own kind, leaves no more active players than the cap.
CanMakeRoom(roster, kept, received, noDrops) ==
  \E cut \in IF noDrops THEN {{}} ELSE SUBSET kept :
    LET players == (kept \ cut) \cup received
    IN \E seated \in SUBSET (players \cap DOMAIN Placements) :
         /\ \A k \in Kinds : Cardinality(OfKind(Placements, seated, k)) <= roster.slots[k]
         /\ Cardinality(players \ seated) <= roster.cap

Trades ==
  LET rules == request.rules
      players == UNION {Owned(request.rosters[t]) : t \in Teams(request)}
      Out(m, t) == {p \in Owned(request.rosters[t]) : m[p] # t}
      In(m, t) == {p \in players \ Owned(request.rosters[t]) : m[p] = t}
      \* two teams: the sizes are the primary team's
      judged == IF Len(request.rosters) = 2 THEN {1} ELSE Teams(request)
  IN {m \in [players -> Teams(request)] :
        /\ \A p \in players \cap rules.locked : \A t \in Teams(request) :
             p \in Owned(request.rosters[t]) => m[p] = t
        /\ \A t \in judged :
             LET out == Cardinality(Out(m, t))
                 in == Cardinality(In(m, t))
             IN /\ out \in rules.minOutgoing .. rules.maxOutgoing
                /\ in \in rules.minIncoming .. rules.maxIncoming
                /\ <<out, in>> \notin rules.excluded
                /\ rules.balancedOnly => out = in
                /\ Within(Distance(out, in), rules.maxImbalance)
        /\ Within(Cardinality(UNION {Out(m, t) : t \in Teams(request)}), rules.maxTotal)
        /\ FilterHolds(rules.outgoingFilter, Out(m, 1))
        /\ FilterHolds(rules.incomingFilter, In(m, 1))
        /\ \A t \in Teams(request) :
             CanMakeRoom(request.rosters[t], Owned(request.rosters[t]) \ Out(m, t), In(m, t), rules.noDrops)}

-----------------------------------------------------------------------------
(* Properties.                                                             *)

\* What counting is told of a team of a candidate, and what it makes of it.
PlanOf(candidate, t) ==
  LET sent == Sent(candidate, t)
      received == Received(candidate, t)
  IN CapacityPlan(request.rosters[t], Len(sent), Signature(Range(sent), Placements),
                  Len(received), Signature(Range(received), Placements))

IsAdmitted(candidate, t) == Admits(PlanOf(candidate, t), request.rules.noDrops)

\* What a search needs of its iterator: from every index on it yields what it yields
\* from the first on, and that is every trade once, each a transfer whose teams
\* counting admits, and as many as were counted.
IteratesTrades ==
  \E count \in {CandidateCount(request)} : \E from \in {[n \in 0 .. count |-> IterFrom(request, n)]} :
    LET all == from[0]
    IN /\ all \in Seq(Range(all)) /\ None \notin Range(all)
       /\ Len(all) = count
       /\ \A n \in DOMAIN from : from[n] = From(all, n)
       /\ {MoveOf(all[i]) : i \in DOMAIN all} = Trades
       /\ \A i, j \in DOMAIN all : MoveOf(all[i]) = MoveOf(all[j]) => i = j
       /\ \A i \in DOMAIN all :
            IsTransfer(all[i]) /\ \A t \in Teams(request) : IsAdmitted(all[i], t)

\* The space of a search is exactly its trades, although it is counted by sizes,
\* slots and evidence and never by building a package, and although iterating from
\* an index skips by those counts (trade_space.py; three_way_trade.py).
SpaceIsExact == phase = "ready" /\ stops = 0 => IteratesTrades

\* The count shown before a search is the number of its trades.
CountIsExact == phase = "ready" => total = Cardinality(Trades)

\* Whatever checkpoint a search resumes from, the candidate at an index is always
\* the same one, and no two indexes have the same one: the rows stored before a
\* restart and after it never count a trade twice (iter_from).
IndexesAreStable ==
  /\ Cardinality({x[1] : x \in examined}) = Cardinality(examined)
  /\ Cardinality({x[2] : x \in examined}) = Cardinality(examined)

\* A search that ends has examined every trade, and no candidate that is not one:
\* finishing sets next_index to the count without looking at what was iterated.
CompleteIsEveryTrade ==
  phase = "complete" => {x[2] : x \in examined} = Trades

\* Counting admits a candidate only if its teams can make room, so the adjustment
\* of a candidate never finds that it must drop a protected or any player, and
\* never raises an error that ends the search: only an empty waiver pool refuses.
OnlyWaiversRefuse ==
  /\ verdict \in {"none", "adjusted", "waivers"}
  /\ phase # "failed"

\* Every way to send players between the teams of the request, whether counting
\* admits it or not.
Transfers ==
  LET players == UNION {Owned(request.rosters[t]) : t \in Teams(request)}
  IN {candidate \in [Routes(request) -> Seq(players)] : IsTransfer(candidate)}

\* Sizes and counts are enough: of all transfers, those the space leaves out because
\* of them included, a team is admitted exactly if some cut of its former players and
\* some seating of its reserve players make room for those it receives
\* (solve_post_trade_capacity).
PlansAreExact ==
  \A candidate \in Transfers : \A t \in Teams(request) :
    IsAdmitted(candidate, t) <=>
      CanMakeRoom(request.rosters[t], Owned(request.rosters[t]) \ Range(Sent(candidate, t)),
                  Range(Received(candidate, t)), request.rules.noDrops)

\* The adjustment of an admitted team succeeds, unless the waiver pool is too small:
\* it is never refused for drops and never ends the search with an error (_balance).
AdmittedNeedOnlyWaivers ==
  [][Adjust /\ IsAdmitted(trial.candidate, Turn(Len(trial.done) + 1))
       => phase' = "running" /\ verdict' \in {verdict, "waivers"}]_vars

\* No player ends up on two rosters, though the two teams of a trade both take from
\* the whole waiver pool: they never both need somebody (adjust_trade), and three
\* teams reserve what they take (adjust_teams).
NobodyIsTakenTwice == Disjoint(trial.done)

\* An adjusted roster is legal, is no smaller than before and within its cap, keeps
\* every player it received, and is never both cut and filled (_balance).
AdjustedRostersAreLegal ==
  \A i \in DOMAIN trial.done :
    LET outcome == trial.done[i]
        before == request.rosters[Turn(i)]
        active == Cardinality(outcome.players \ outcome.seated)
    IN /\ outcome.seated \subseteq outcome.players
       /\ \A k \in Kinds : Cardinality(OfKind(Placements, outcome.seated, k)) <= before.slots[k]
       /\ ActiveSize(before) <= active /\ active <= before.cap
       /\ Range(Received(trial.candidate, Turn(i))) \subseteq outcome.players
       /\ outcome.added = {} \/ outcome.dropped = {}
       /\ request.rules.noDrops => outcome.dropped = {}

\* After every adjustment the league is one the host would accept: each roster of
\* the trade is legal, and nobody is on two of them.
AdjustmentsAreLegal == AdjustedRostersAreLegal /\ NobodyIsTakenTwice
=============================================================================

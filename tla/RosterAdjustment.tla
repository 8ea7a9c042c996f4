--------------------------- MODULE RosterAdjustment ---------------------------
(***************************************************************************)
(* What a trade does to the rosters of its teams (roster_adjustment.py) and*)
(* the counting rule that predicts it without looking at players           *)
(* (roster_capacity.py).  A player who sits in a reserve slot (IR or rookie*)
(* reserve) before the trade may sit in a slot of the same kind after it,  *)
(* as far as there are slots; everybody else counts against the cap of     *)
(* active players.  A team over its cap drops players it already had; a    *)
(* team under its former size takes players from the waiver pool.          *)
(*                                                                         *)
(* Which legal drops or additions are best is a matter of the strength     *)
(* model's scores: every legal choice is an outcome here.                  *)
(***************************************************************************)
EXTENDS Integers, Sequences, FiniteSets, Functions

Kinds == {"IR", "ROOKIE_RESERVE"}   \* SUPPORTED_RESERVE_SLOTS

AtLeastZero(n) == IF n < 0 THEN 0 ELSE n

\* A roster is [team, players, cap, kindOf, slots]: its players in order, the
\* reserve slot each reserve player sits in, and the slots there are of each kind.
Owned(roster) == Range(roster.players)

Reserved(roster) == DOMAIN roster.kindOf

ActiveSize(roster) == Cardinality(Owned(roster)) - Cardinality(Reserved(roster))

OfKind(kindOf, players, kind) == {p \in players \cap DOMAIN kindOf : kindOf[p] = kind}

\* The state TeamRoster's constructor accepts, for a complete list of players.
IsRoster(roster) ==
  /\ roster.players \in Seq(Owned(roster)) /\ IsInjective(roster.players)
  /\ roster.slots \in [Kinds -> Nat] /\ roster.cap \in Nat
  /\ roster.kindOf \in [Reserved(roster) -> Kinds]
  /\ Reserved(roster) \subseteq Owned(roster)
  /\ \A kind \in Kinds :
       Cardinality(OfKind(roster.kindOf, Owned(roster), kind)) <= roster.slots[kind]
  /\ ActiveSize(roster) <= roster.cap

-----------------------------------------------------------------------------
(* The counting rule.                                                      *)

\* The sum over the reserve kinds.
OverKinds(count) == count["IR"] + count["ROOKIE_RESERVE"]

Least(a, b) == IF a < b THEN a ELSE b

\* The reserve players of a kind who are not sent away.
Retained(roster, sentReserve, kind) ==
  AtLeastZero(Cardinality(OfKind(roster.kindOf, Owned(roster), kind)) - sentReserve[kind])

\* solve_post_trade_capacity: sizes and counts per reserve kind, no players.
CapacityPlan(roster, sentSize, sentReserve, receivedSize, receivedReserve) ==
  LET current == [k \in Kinds |-> Cardinality(OfKind(roster.kindOf, Owned(roster), k))]
      retained == [k \in Kinds |-> Retained(roster, sentReserve, k)]
      candidates == [k \in Kinds |-> retained[k] + receivedReserve[k]]
      occupied == [k \in Kinds |-> Least(candidates[k], roster.slots[k])]
      overflow == [k \in Kinds |-> Least(retained[k], AtLeastZero(candidates[k] - roster.slots[k]))]
      active == Len(roster.players) - sentSize + receivedSize - OverKinds(occupied)
      retainedActive == Len(roster.players) - OverKinds(current) - (sentSize - OverKinds(sentReserve))
  IN [required |-> AtLeastZero(active - roster.cap),
      cuttable |-> retainedActive + OverKinds(overflow)]

\* Whether the plan is one the search admits.
Admits(plan, forbidDrops) ==
  IF forbidDrops THEN plan.required = 0 ELSE plan.required <= plan.cuttable

-----------------------------------------------------------------------------
(* The adjustment itself.  The line is the list of the team's players and  *)
(* those it received, in order; the players present are those of them who  *)
(* are on the roster at the moment.                                        *)

\* Mutant: an open slot of any kind takes a reserve player.
AssignCrossKind(kindOf, slots, line, present) ==
  LET Waiting == {i \in DOMAIN line : line[i] \in present \cap DOMAIN kindOf}
      seated == {i \in Waiting : Cardinality({j \in Waiting : j < i}) < OverKinds(slots)}
  IN {line[i] : i \in seated}

\* assign_reserve_slots: in the order of the line, up to the slots of the kind.
AssignReserve(kindOf, slots, line, present) ==
  LET Waiting(kind) == {i \in DOMAIN line : line[i] \in OfKind(kindOf, present, kind)}
      seated == {i \in DOMAIN line :
                   /\ line[i] \in present \cap DOMAIN kindOf
                   /\ Cardinality({j \in Waiting(kindOf[line[i]]) : j < i}) < slots[kindOf[line[i]]]}
  IN {line[i] : i \in seated}

\* len(players) - len(assigned)
ActiveCount(kindOf, slots, line, present) ==
  Cardinality(present) - Cardinality(AssignReserve(kindOf, slots, line, present))

Line(roster, received) == roster.players \o received

\* The players after the transfer, before any drop or addition.
Raw(roster, sent, received) == (Owned(roster) \ Range(sent)) \cup Range(received)

Excess(before, kindOf, line, raw) ==
  AtLeastZero(ActiveCount(kindOf, before.slots, line, raw) - before.cap)

\* The packages _optimal_drops chooses from.
Drops(before, kindOf, line, raw, protected) ==
  LET excess == Excess(before, kindOf, line, raw)
  IN IF excess = 0 THEN {{}}
     ELSE {D \in SUBSET (raw \ protected) :
             /\ Cardinality(D) = excess
             /\ ActiveCount(kindOf, before.slots, line, raw \ D) <= before.cap}

\* The vacancies to fill from the waiver pool.
Needed(before, kindOf, line, kept) ==
  AtLeastZero(ActiveSize(before) - ActiveCount(kindOf, before.slots, line, kept))

\* A team's adjustment: how it ended, its players, those of them who sit in reserve
\* slots, and who was added and dropped.
Refused(how) == [how |-> how, players |-> {}, seated |-> {}, added |-> {}, dropped |-> {}]

Adjusted(before, kindOf, line, kept, added, dropped) ==
  IF ActiveCount(kindOf, before.slots, line, kept \cup added) > before.cap THEN Refused("overfull")
  ELSE [how |-> "adjusted", players |-> kept \cup added,
        seated |-> AssignReserve(kindOf, before.slots, line, kept \cup added),
        added |-> added, dropped |-> dropped]

Filled(before, kindOf, line, kept, dropped, pool) ==
  LET needed == Needed(before, kindOf, line, kept)
      open == pool \ kept
  IN IF needed > Cardinality(open) THEN {Refused("waivers")}
     ELSE {Adjusted(before, kindOf, line, kept, A, dropped) :
             A \in {A \in SUBSET open : Cardinality(A) = needed}}

\* PreparedRosterAdjuster._balance: every outcome the scores may lead to.
Balance(before, kindOf, line, raw, protected, pool, forbidDrops) ==
  LET drops == Drops(before, kindOf, line, raw, protected)
  IN IF forbidDrops /\ Excess(before, kindOf, line, raw) > 0 THEN {Refused("forbidden")}
     ELSE IF drops = {} THEN {Refused("protected")}
     ELSE UNION {Filled(before, kindOf, line, raw \ D, D, pool) : D \in drops}
=============================================================================

---------------------------- MODULE TradePackages ----------------------------
(***************************************************************************)
(* The packages one side of a trade may send (trade_package_enumeration.py,*)
(* trade_filters.py, trade_filter_compiler.py).  A side is                 *)
(* [ids, filter, kindOf]: its unlocked players in roster order, the filter *)
(* on its packages, and the reserve slots of its roster.                   *)
(*                                                                         *)
(* A filter is a sequence of nodes, operands before their operator: empty  *)
(* is no filter, one rule a TradePackageFilter, more a                     *)
(* TradeFilterExpression.  A rule is [op, ids, mode, positions,            *)
(* positionMode], an operator [op, args] with the numbers of its operands. *)
(* The bits of the evidence masks are members of sets here.                *)
(***************************************************************************)
EXTENDS RosterAdjustment, FiniteSetsExt, SequencesExt

CONSTANTS PositionsOf   \* the eligible positions of every player

\* The members of a sequence that are in a set, in their order.
Selected(s, S) == FlattenSeq([i \in DOMAIN s |-> IF s[i] \in S THEN <<s[i]>> ELSE <<>>])

Without(players, gone) == Selected(players, Range(players) \ gone)

IsLegacy(filter) == Len(filter) = 1

Rules(filter) == {i \in DOMAIN filter : filter[i].op = "rule"}

\* _evaluate_formula, for the set of the rules that hold.
Formula(filter, holding) ==
  LET value[i \in DOMAIN filter] ==
        LET node == filter[i]
            True == {j \in DOMAIN node.args : value[node.args[j]]}
        IN CASE node.op = "rule" -> i \in holding
             [] node.op = "and"  -> True = DOMAIN node.args
             [] node.op = "or"   -> True # {}
             [] node.op = "xor"  -> Cardinality(True) = 1
             [] node.op = "not"  -> True = {}
  IN value[Len(filter)]

\* itertools.combinations
Combinations(players, size) ==
  LET from[i \in 1 .. Len(players) + 1] ==
        [n \in 0 .. size |->
           IF n = 0 THEN << <<>> >>
           ELSE IF i > Len(players) THEN <<>>
           ELSE [c \in DOMAIN from[i + 1][n - 1] |-> <<players[i]>> \o from[i + 1][n - 1][c]]
                  \o from[i + 1][n]]
  IN from[1][size]

-----------------------------------------------------------------------------
(* One rule: the players it leaves and the positions it wants covered.     *)

\* _apply_player_rule and _apply_position_rule
Permits(rule, p) ==
  /\ rule.mode = "only" => p \in rule.ids
  /\ rule.mode = "exclude" => p \notin rule.ids
  /\ rule.positionMode = "only" => PositionsOf[p] \cap rule.positions # {}
  /\ rule.positionMode = "exclude" => PositionsOf[p] \cap rule.positions = {}

Required(rule) == IF rule.mode \in {"include", "only"} THEN rule.ids ELSE {}

Target(rule) == IF rule.positionMode = "include" THEN rule.positions ELSE {}

Covers(rule, p) == PositionsOf[p] \cap rule.positions

\* The plan of _LegacyTradePackagePool.
Plan(side) ==
  LET rule == side.filter[1]
      allowed == Selected(side.ids, {p \in Range(side.ids) : Permits(rule, p)})
  IN [allowed |-> allowed,
      possible |-> Required(rule) \subseteq Range(allowed),
      required |-> Selected(allowed, Required(rule)),
      optional |-> Without(allowed, Required(rule))]

\* Whether some optional players complete the required ones to a package.
CanComplete(plan, size) == plan.possible /\ size - Len(plan.required) \in 0 .. Len(plan.optional)

-----------------------------------------------------------------------------
(* An expression: compile_trade_filter.                                    *)

\* The evidence a rule wants in a package, and the evidence it forbids.
RequiredEvidence(filter, i) ==
  LET rule == filter[i]
  IN {<<i, "player", p>> : p \in Required(rule)} \cup {<<i, "position", q>> : q \in Target(rule)}

ForbiddenEvidence(i) == {<<i, "forbidden player">>, <<i, "forbidden position">>}

\* player_forbidden
Excluded(rule, p) ==
  \/ rule.mode = "exclude" /\ p \in rule.ids
  \/ rule.mode = "only" /\ p \notin rule.ids

\* evidence_by_player.  A player the rule forbids by name gives no evidence of a
\* position, and neither does anybody if a required player is not there.
EvidenceOf(filter, p, universe) ==
  UNION {LET rule == filter[i]
             counts == ~Excluded(rule, p) /\ Required(rule) \subseteq universe
             matches == Covers(rule, p) # {}
         IN {<<i, "player", q>> : q \in Required(rule) \cap {p}}
              \cup (IF Excluded(rule, p) THEN {<<i, "forbidden player">>} ELSE {})
              \cup (IF counts THEN {<<i, "position", q>> : q \in Target(rule) \cap PositionsOf[p]} ELSE {})
              \cup (IF counts /\ (\/ rule.positionMode = "only" /\ ~matches
                                  \/ rule.positionMode = "exclude" /\ matches)
                    THEN {<<i, "forbidden position">>} ELSE {})
         : i \in Rules(filter)}

\* CompiledTradeFilter.matches
EvidenceMatches(filter, evidence) ==
  Formula(filter, {i \in Rules(filter) : /\ RequiredEvidence(filter, i) \subseteq evidence
                                        /\ ForbiddenEvidence(i) \cap evidence = {}})

-----------------------------------------------------------------------------
(* Counting without building packages, and iterating over them.            *)

Signature(players, kindOf) ==
  [k \in Kinds |-> Cardinality(OfKind(kindOf, players, k))]

\* Mutant: a state reached twice counts once.
CountsForget(states, p, size, kindOf, evidence) ==
  LET Moved(s) == [chosen |-> s.chosen + 1,
                   signature |-> [k \in Kinds |-> s.signature[k] + Signature({p}, kindOf)[k]],
                   seen |-> s.seen \cup evidence]
      moving == {s \in DOMAIN states : s.chosen < size}
      new == {Moved(s) : s \in moving}
  IN [s \in DOMAIN states \cup new |->
        IF s \in new THEN states[CHOOSE t \in moving : Moved(t) = s] ELSE states[s]]

\* One player of the dynamic program: how many packages so far lead to each state.
Counts(states, p, size, kindOf, evidence) ==
  LET Moved(s) == [chosen |-> s.chosen + 1,
                   signature |-> [k \in Kinds |-> s.signature[k] + Signature({p}, kindOf)[k]],
                   seen |-> s.seen \cup evidence]
      moving == {s \in DOMAIN states : s.chosen < size}
  IN [s \in DOMAIN states \cup {Moved(t) : t \in moving} |->
        (IF s \in DOMAIN states THEN states[s] ELSE 0)
          + SumFunctionOnSet(states, {t \in moving : Moved(t) = s})]

\* How many packages of a size lead to each last state: the players in turn, from a
\* first state and with the evidence of each.
Counted(players, size, kindOf, first, evidence) ==
  LET counts[i \in 0 .. Len(players)] ==
        IF i = 0 THEN [s \in {first} |-> 1]
        ELSE Counts(counts[i - 1], players[i], size, kindOf, evidence[players[i]])
      states == counts[Len(players)]
  IN [s \in {t \in DOMAIN states : t.chosen = size} |-> states[s]]

BySignature(states, kept) ==
  [g \in {s.signature : s \in kept} |-> SumFunctionOnSet(states, {s \in kept : s.signature = g})]

NoSlots == [k \in Kinds |-> 0]

\* count_by_reserve_signature
CountBySignature(side, size) ==
  IF size > Len(side.ids) THEN << >>
  ELSE IF IsLegacy(side.filter)
  THEN LET rule == side.filter[1]
           plan == Plan(side)
           must == Range(plan.required)
           states == Counted(plan.optional, size - Len(plan.required), side.kindOf,
                             [chosen |-> 0, signature |-> Signature(must, side.kindOf),
                              seen |-> UNION {Covers(rule, p) : p \in must}],
                             [p \in Range(plan.optional) |-> Covers(rule, p)])
       IN IF ~CanComplete(plan, size) THEN << >>
          ELSE BySignature(states, {s \in DOMAIN states : Target(rule) \subseteq s.seen})
  ELSE LET states == Counted(side.ids, size, side.kindOf,
                             [chosen |-> 0, signature |-> NoSlots, seen |-> {}],
                             [p \in Range(side.ids) |-> EvidenceOf(side.filter, p, Range(side.ids))])
       IN BySignature(states, {s \in DOMAIN states : \/ side.filter = <<>>
                                                     \/ EvidenceMatches(side.filter, s.seen)})

\* math.comb: the ways to choose k of n.
Comb(n, k) == Cardinality(kSubset(k, 1 .. n))

\* count, of a side without reserve slots: a binomial where nothing needs covering.
\* Otherwise the code counts by coverage or evidence alone (and by active players,
\* of which no caller asks for a minimum).  A side without reserve slots has but one
\* signature, so that counting by signature counts the same.
PackageCount(side, size) ==
  LET plan == Plan(side)
      rule == side.filter[1]
      missing == Target(rule) \ UNION {Covers(rule, p) : p \in Range(plan.required)}
  IN IF size > Len(side.ids) THEN 0
     ELSE IF side.filter = <<>> THEN Comb(Len(side.ids), size)
     ELSE IF IsLegacy(side.filter) /\ missing = {}
     THEN IF CanComplete(plan, size) THEN Comb(Len(plan.optional), size - Len(plan.required)) ELSE 0
     ELSE SumFunction(CountBySignature(side, size))

\* iter_packages
Packages(side, size) ==
  IF size > Len(side.ids) THEN <<>>
  ELSE IF IsLegacy(side.filter)
  THEN LET rule == side.filter[1]
           plan == Plan(side)
           chosen == Combinations(plan.optional, size - Len(plan.required))
           whole == [c \in DOMAIN chosen |-> Selected(plan.allowed, Required(rule) \cup Range(chosen[c]))]
       IN IF ~CanComplete(plan, size) THEN <<>>
          ELSE Selected(whole, {package \in Range(whole) :
                              Target(rule) \subseteq UNION {Covers(rule, p) : p \in Range(package)}})
  ELSE LET all == Combinations(side.ids, size)
           Evidence(package) == UNION {EvidenceOf(side.filter, p, Range(side.ids)) : p \in Range(package)}
       IN Selected(all, {package \in Range(all) :
                       side.filter = <<>> \/ EvidenceMatches(side.filter, Evidence(package))})
=============================================================================

------------------------- MODULE TradeEvaluationProofs -------------------------
(***************************************************************************)
(* For any rosters, slots, caps, pools and candidates: the rosters a trade *)
(* is adjusted to are legal and share nobody.  The argument is about how   *)
(* many players sit in reserve slots: cutting a roster seats no more of    *)
(* them, so a roster that was cut has no vacancy to fill, and the teams of *)
(* a trade cannot both end below their former sizes.                       *)
(*                                                                         *)
(* The same counts give the counting rule: how many players must be cut    *)
(* for a roster to fit is how far its two kinds of players overflow the    *)
(* slots open to them, so the rule that plans by numbers alone agrees with *)
(* the adjustment that looks at the players.                               *)
(*                                                                         *)
(* A space of three teams is counted by a memoized recursion over partial  *)
(* trades and iterated by another that skips by those counts.  Both have a *)
(* solution because they only look at partial trades with more decisions   *)
(* made, and then a partial trade that a limit cuts off has no complete    *)
(* trade below it: so the count is the number of trades, the iterator      *)
(* lists each once, and from an index it yields what it yields from the    *)
(* first on (SpaceIsExact).                                                *)
(***************************************************************************)
EXTENDS TradeEvaluation, FiniteSetTheorems, SequenceTheorems, WellFoundedInduction, TLAPS

-----------------------------------------------------------------------------
(* The first n members of a set of numbers.                                *)

Earlier(W, i) == {j \in W : j < i}

First(W, n) == {i \in W : Cardinality(Earlier(W, i)) < n}

LEMMA UnionOfApart ==
    ASSUME NEW S, NEW T, IsFiniteSet(S), IsFiniteSet(T), S \cap T = {}
    PROVE  /\ IsFiniteSet(S \cup T)
           /\ Cardinality(S \cup T) = Cardinality(S) + Cardinality(T)
<1>1. Cardinality(S \cap T) = 0
  BY FS_EmptySet
<1>2. /\ IsFiniteSet(S \cup T)
      /\ Cardinality(S \cup T) = Cardinality(S) + Cardinality(T) - Cardinality(S \cap T)
  BY FS_Union
<1>3. Cardinality(S) \in Nat /\ Cardinality(T) \in Nat
  BY FS_CardinalityType
<1> QED
  BY <1>1, <1>2, <1>3

LEMMA EarlierGrows ==
    ASSUME NEW W \in SUBSET Nat, IsFiniteSet(W), NEW i \in W, NEW j \in W, i < j
    PROVE  /\ Cardinality(Earlier(W, i)) \in Nat
           /\ Cardinality(Earlier(W, j)) \in Nat
           /\ Cardinality(Earlier(W, i)) # Cardinality(Earlier(W, j))
<1>1. IsFiniteSet(Earlier(W, j)) /\ IsFiniteSet(Earlier(W, i))
  BY FS_Subset DEF Earlier
<1>2. Earlier(W, i) \in SUBSET Earlier(W, j)
  <2>1. \A l \in W : l < i => l < j
    <3>1. \A l \in W : l \in Nat
      OBVIOUS
    <3> QED
      BY <3>1
  <2> QED
    BY <2>1 DEF Earlier
<1>3. i \in Earlier(W, j) /\ i \notin Earlier(W, i)
  BY DEF Earlier
<1> QED
  BY <1>1, <1>2, <1>3, FS_Subset, FS_CardinalityType

LEMMA FirstAtMost ==
    ASSUME NEW W \in SUBSET Nat, IsFiniteSet(W), NEW n \in Nat
    PROVE  /\ IsFiniteSet(First(W, n))
           /\ Cardinality(First(W, n)) \in Nat
           /\ Cardinality(First(W, n)) <= n
<1> DEFINE f == [i \in First(W, n) |-> Cardinality(Earlier(W, i))]
<1>1. \A i \in First(W, n) : Cardinality(Earlier(W, i)) \in 0 .. (n - 1)
  <2> TAKE i \in First(W, n)
  <2>1. IsFiniteSet(Earlier(W, i))
    BY FS_Subset DEF Earlier
  <2> QED
    BY <2>1, FS_CardinalityType DEF First
<1>2. \A i, j \in First(W, n) : i # j => f[i] # f[j]
  <2> SUFFICES ASSUME NEW i \in First(W, n), NEW j \in First(W, n), i < j
               PROVE  f[i] # f[j]
    BY DEF First
  <2> QED
    BY EarlierGrows DEF First
<1>3. f \in Injection(First(W, n), 0 .. (n - 1))
  BY <1>1, <1>2 DEF Injection, IsInjective
<1>4. IsFiniteSet(0 .. (n - 1)) /\ Cardinality(0 .. (n - 1)) = n
  BY FS_Interval
<1> QED
  BY <1>3, <1>4, FS_Injection, FS_CardinalityType

LEMMA FirstAtLeast ==
    ASSUME NEW W \in SUBSET Nat, IsFiniteSet(W), NEW n \in Nat, First(W, n) # W
    PROVE  n <= Cardinality(First(W, n))
<1> DEFINE U == W \ First(W, n)
<1>1. U # {} /\ U \subseteq Nat
  BY DEF First
<1>2. PICK m \in U : \A y \in U : ~ (<<y, m>> \in OpToRel(<, Nat))
  BY <1>1, NatLessThanWellFounded, WFMin
<1>3. \A y \in U : ~ (y < m)
  BY <1>1, <1>2 DEF OpToRel
<1>4. Earlier(W, m) \in SUBSET First(W, n)
  BY <1>3 DEF Earlier
<1>5. IsFiniteSet(First(W, n)) /\ Cardinality(First(W, n)) \in Nat
  BY FirstAtMost
<1>6. IsFiniteSet(Earlier(W, m)) /\ Cardinality(Earlier(W, m)) \in Nat
  BY FS_Subset, FS_CardinalityType DEF Earlier
<1>7. n <= Cardinality(Earlier(W, m))
  BY <1>6 DEF First
<1> QED
  BY <1>4, <1>5, <1>6, <1>7, FS_Subset

LEMMA FirstMonotone ==
    ASSUME NEW X \in SUBSET Nat, IsFiniteSet(X), NEW W \in SUBSET X, NEW n \in Nat
    PROVE  Cardinality(First(W, n)) <= Cardinality(First(X, n))
<1>0. IsFiniteSet(W)
  BY FS_Subset
<1>1. CASE First(X, n) = X
  <2>1. First(W, n) \in SUBSET X
    BY DEF First
  <2> QED
    BY <1>1, <2>1, FS_Subset
<1>2. CASE First(X, n) # X
  BY <1>0, <1>2, FirstAtLeast, FirstAtMost
<1> QED
  BY <1>1, <1>2

-----------------------------------------------------------------------------
(* Who sits in the reserve slots of a line of players.                     *)

\* What assign_reserve_slots is called with.
Seating(kindOf, slots, line) ==
  /\ kindOf \in [DOMAIN kindOf -> Kinds]
  /\ slots \in [Kinds -> Nat]
  /\ line \in Seq(Range(line))
  /\ IsInjective(line)

Waiting(kindOf, line, present, kind) ==
  {i \in DOMAIN line : line[i] \in OfKind(kindOf, present, kind)}

SeatsOf(kindOf, slots, line, present, kind) ==
  First(Waiting(kindOf, line, present, kind), slots[kind])

Seats(kindOf, slots, line, present) ==
  SeatsOf(kindOf, slots, line, present, "IR") \cup SeatsOf(kindOf, slots, line, present, "ROOKIE_RESERVE")

At(line, indexes) == {line[i] : i \in indexes}

LEMMA WaitingType ==
    ASSUME NEW kindOf, NEW slots, NEW line, Seating(kindOf, slots, line), NEW present, NEW kind
    PROVE  /\ Waiting(kindOf, line, present, kind) \in SUBSET Nat
           /\ IsFiniteSet(Waiting(kindOf, line, present, kind))
           /\ Waiting(kindOf, line, present, kind) \subseteq DOMAIN line
<1>1. DOMAIN line = 1 .. Len(line) /\ Len(line) \in Nat
  BY DEF Seating
<1>2. IsFiniteSet(1 .. Len(line))
  BY <1>1, FS_Interval
<1> QED
  BY <1>1, <1>2, FS_Subset DEF Waiting

LEMMA Distinct ==
    ASSUME NEW line, IsInjective(line), NEW indexes \in SUBSET (DOMAIN line), IsFiniteSet(indexes)
    PROVE  /\ IsFiniteSet(At(line, indexes))
           /\ Cardinality(At(line, indexes)) = Cardinality(indexes)
<1> DEFINE f == [i \in indexes |-> line[i]]
<1>1. f \in Surjection(indexes, At(line, indexes))
  BY DEF Surjection, At
<1>2. f \in Injection(indexes, At(line, indexes))
  BY DEF Injection, IsInjective, At
<1> QED
  BY <1>1, <1>2, FS_Surjection

LEMMA AssignedAreSeats ==
    ASSUME NEW kindOf, NEW slots, NEW line, Seating(kindOf, slots, line), NEW present
    PROVE  /\ AssignReserve(kindOf, slots, line, present) = At(line, Seats(kindOf, slots, line, present))
           /\ AssignReserve(kindOf, slots, line, present) \subseteq present \cap DOMAIN kindOf
           /\ \A kind \in Kinds :
                OfKind(kindOf, AssignReserve(kindOf, slots, line, present), kind)
                  = At(line, SeatsOf(kindOf, slots, line, present, kind))
<1> DEFINE seated == {i \in DOMAIN line :
               /\ line[i] \in present \cap DOMAIN kindOf
               /\ Cardinality({j \in Waiting(kindOf, line, present, kindOf[line[i]]) : j < i})
                    < slots[kindOf[line[i]]]}
<1>1. AssignReserve(kindOf, slots, line, present) = At(line, seated)
  BY DEF AssignReserve, Waiting, At
<1>2. \A i \in DOMAIN line : \A kind \in Kinds :
        i \in SeatsOf(kindOf, slots, line, present, kind)
          <=> i \in seated /\ kindOf[line[i]] = kind
  BY DEF SeatsOf, First, Earlier, Waiting, OfKind
<1>3. \A i \in seated : i \in DOMAIN line /\ line[i] \in present \cap DOMAIN kindOf /\ kindOf[line[i]] \in Kinds
  BY DEF Seating
<1>4. \A kind \in Kinds : SeatsOf(kindOf, slots, line, present, kind) \subseteq DOMAIN line
  BY DEF SeatsOf, First, Waiting
<1> HIDE DEF seated
<1>5. seated = Seats(kindOf, slots, line, present)
  BY <1>2, <1>3, <1>4 DEF Seats, Kinds
<1>6. ASSUME NEW kind \in Kinds
      PROVE  OfKind(kindOf, At(line, seated), kind) = At(line, SeatsOf(kindOf, slots, line, present, kind))
  BY <1>2, <1>3, <1>4 DEF OfKind, At
<1> QED
  BY <1>1, <1>3, <1>5, <1>6 DEF At

(* No more players of a kind sit than there are slots. *)
LEMMA SlotsAreEnough ==
    ASSUME NEW kindOf, NEW slots, NEW line, Seating(kindOf, slots, line), NEW present, NEW kind \in Kinds
    PROVE  Cardinality(OfKind(kindOf, AssignReserve(kindOf, slots, line, present), kind)) <= slots[kind]
<1> DEFINE W == Waiting(kindOf, line, present, kind)
<1>1. slots[kind] \in Nat /\ IsInjective(line)
  BY DEF Seating
<1>2. W \in SUBSET Nat /\ IsFiniteSet(W) /\ W \subseteq DOMAIN line
  BY WaitingType
<1> HIDE DEF W
<1>3. /\ IsFiniteSet(First(W, slots[kind]))
      /\ Cardinality(First(W, slots[kind])) <= slots[kind]
      /\ First(W, slots[kind]) \in SUBSET (DOMAIN line)
  BY <1>1, <1>2, FirstAtMost DEF First
<1>4. Cardinality(At(line, First(W, slots[kind]))) <= slots[kind]
  BY <1>1, <1>3, Distinct
<1> QED
  BY <1>4, AssignedAreSeats DEF SeatsOf, W

LEMMA AssignedCount ==
    ASSUME NEW kindOf, NEW slots, NEW line, Seating(kindOf, slots, line), NEW present
    PROVE  /\ IsFiniteSet(AssignReserve(kindOf, slots, line, present))
           /\ \A kind \in Kinds : Cardinality(SeatsOf(kindOf, slots, line, present, kind)) \in Nat
           /\ Cardinality(AssignReserve(kindOf, slots, line, present))
                = Cardinality(SeatsOf(kindOf, slots, line, present, "IR"))
                    + Cardinality(SeatsOf(kindOf, slots, line, present, "ROOKIE_RESERVE"))
<1> DEFINE S1 == SeatsOf(kindOf, slots, line, present, "IR")
           S2 == SeatsOf(kindOf, slots, line, present, "ROOKIE_RESERVE")
<1>1. /\ S1 \subseteq Waiting(kindOf, line, present, "IR")
      /\ S2 \subseteq Waiting(kindOf, line, present, "ROOKIE_RESERVE")
  BY DEF SeatsOf, First
<1>2. S1 \cap S2 = {}
  BY <1>1 DEF Waiting, OfKind
<1>3. /\ IsFiniteSet(S1) /\ IsFiniteSet(S2)
      /\ S1 \subseteq DOMAIN line /\ S2 \subseteq DOMAIN line
  BY <1>1, WaitingType, FS_Subset
<1>4. Seats(kindOf, slots, line, present) = S1 \cup S2
  BY DEF Seats
<1> HIDE DEF S1, S2
<1>5. /\ IsFiniteSet(S1 \cup S2)
      /\ Cardinality(S1) \in Nat /\ Cardinality(S2) \in Nat
      /\ Cardinality(S1 \cup S2) = Cardinality(S1) + Cardinality(S2)
  BY <1>2, <1>3, UnionOfApart, FS_CardinalityType
<1>6. IsInjective(line)
  BY DEF Seating
<1>7. /\ IsFiniteSet(At(line, S1 \cup S2))
      /\ Cardinality(At(line, S1 \cup S2)) = Cardinality(S1 \cup S2)
  BY <1>3, <1>5, <1>6, Distinct
<1>8. AssignReserve(kindOf, slots, line, present) = At(line, S1 \cup S2)
  <2>1. AssignReserve(kindOf, slots, line, present) = At(line, Seats(kindOf, slots, line, present))
    BY AssignedAreSeats
  <2> QED
    BY <1>4, <2>1
<1> QED
  BY <1>5, <1>7, <1>8 DEF S1, S2, Kinds

(* Cutting a roster seats no more reserve players than before. *)
LEMMA CutsSeatNoMore ==
    ASSUME NEW kindOf, NEW slots, NEW line, Seating(kindOf, slots, line),
           NEW raw, NEW kept \in SUBSET raw
    PROVE  Cardinality(AssignReserve(kindOf, slots, line, kept))
             <= Cardinality(AssignReserve(kindOf, slots, line, raw))
<1>1. ASSUME NEW kind \in Kinds
      PROVE  Cardinality(SeatsOf(kindOf, slots, line, kept, kind))
               <= Cardinality(SeatsOf(kindOf, slots, line, raw, kind))
  <2>1. Waiting(kindOf, line, kept, kind) \in SUBSET Waiting(kindOf, line, raw, kind)
    BY DEF Waiting, OfKind
  <2>2. slots[kind] \in Nat
    BY DEF Seating
  <2> QED
    BY <2>1, <2>2, WaitingType, FirstMonotone DEF SeatsOf
<1>2. "IR" \in Kinds /\ "ROOKIE_RESERVE" \in Kinds
  BY DEF Kinds
<1> QED
  BY <1>1, <1>2, AssignedCount

-----------------------------------------------------------------------------
(* One team.                                                               *)

\* What _balance is called with: nobody in the pool is on the roster or held a slot.
Balanceable(before, kindOf, line, raw, protected, pool) ==
  /\ Seating(kindOf, before.slots, line)
  /\ before.cap \in Nat /\ ActiveSize(before) \in Int /\ ActiveSize(before) <= before.cap
  /\ IsFiniteSet(raw) /\ protected \subseteq raw /\ IsFiniteSet(pool)
  /\ pool \cap raw = {} /\ pool \cap DOMAIN kindOf = {}

LEMMA ActiveCountType ==
    ASSUME NEW kindOf, NEW slots, NEW line, Seating(kindOf, slots, line),
           NEW present, IsFiniteSet(present)
    PROVE  /\ ActiveCount(kindOf, slots, line, present) \in Int
           /\ ActiveCount(kindOf, slots, line, present)
                = Cardinality(present \ AssignReserve(kindOf, slots, line, present))
           /\ ActiveCount(kindOf, slots, line, present)
                = Cardinality(present) - Cardinality(AssignReserve(kindOf, slots, line, present))
           /\ Cardinality(present) \in Nat
           /\ Cardinality(AssignReserve(kindOf, slots, line, present)) \in Nat
<1> DEFINE R == AssignReserve(kindOf, slots, line, present)
<1>1. R \subseteq present
  BY AssignedAreSeats
<1>2. IsFiniteSet(R) /\ Cardinality(R) \in Nat /\ Cardinality(present) \in Nat
  BY AssignedCount, FS_CardinalityType
<1>3. present \cap R = R
  BY <1>1
<1>4. Cardinality(present \ R) = Cardinality(present) - Cardinality(R)
  BY <1>3, FS_Difference
<1> QED
  BY <1>2, <1>4 DEF ActiveCount

(* A cut lowers the number of active players by its size at most. *)
LEMMA CutsFreeNoMore ==
    ASSUME NEW kindOf, NEW slots, NEW line, Seating(kindOf, slots, line),
           NEW raw, IsFiniteSet(raw), NEW D \in SUBSET raw
    PROVE  /\ IsFiniteSet(D) /\ Cardinality(D) \in Nat /\ IsFiniteSet(raw \ D)
           /\ ActiveCount(kindOf, slots, line, raw) - Cardinality(D)
                <= ActiveCount(kindOf, slots, line, raw \ D)
<1>1. IsFiniteSet(D) /\ Cardinality(D) \in Nat /\ IsFiniteSet(raw \ D)
  BY FS_Subset, FS_CardinalityType, FS_Difference
<1>2. Cardinality(raw \ D) = Cardinality(raw) - Cardinality(D)
  <2>1. raw \cap D = D
    OBVIOUS
  <2> QED
    BY <2>1, FS_Difference
<1>3. Cardinality(AssignReserve(kindOf, slots, line, raw \ D))
        <= Cardinality(AssignReserve(kindOf, slots, line, raw))
  BY CutsSeatNoMore
<1>4. /\ Cardinality(raw) \in Nat
      /\ Cardinality(AssignReserve(kindOf, slots, line, raw)) \in Nat
      /\ Cardinality(AssignReserve(kindOf, slots, line, raw \ D)) \in Nat
  BY <1>1, ActiveCountType
<1> QED
  BY <1>1, <1>2, <1>3, <1>4 DEF ActiveCount

(* The players added held no reserve slot, so nobody's seat changes. *)
LEMMA AddedDoNotSit ==
    ASSUME NEW kindOf, NEW slots, NEW line, Seating(kindOf, slots, line),
           NEW kept, IsFiniteSet(kept), NEW A, IsFiniteSet(A),
           A \cap kept = {}, A \cap DOMAIN kindOf = {}
    PROVE  /\ IsFiniteSet(kept \cup A)
           /\ ActiveCount(kindOf, slots, line, kept \cup A)
                = ActiveCount(kindOf, slots, line, kept) + Cardinality(A)
<1>1. \A kind : OfKind(kindOf, kept \cup A, kind) = OfKind(kindOf, kept, kind)
  BY DEF OfKind
<1>3. AssignReserve(kindOf, slots, line, kept \cup A) = AssignReserve(kindOf, slots, line, kept)
  <2>1. \A kind : Waiting(kindOf, line, kept \cup A, kind) = Waiting(kindOf, line, kept, kind)
    BY <1>1 DEF Waiting
  <2>2. Seats(kindOf, slots, line, kept \cup A) = Seats(kindOf, slots, line, kept)
    BY <2>1 DEF Seats, SeatsOf
  <2> QED
    BY <2>2, AssignedAreSeats
<1>4. /\ IsFiniteSet(kept \cup A)
      /\ Cardinality(kept \cup A) = Cardinality(kept) + Cardinality(A)
  BY UnionOfApart
<1>5. /\ Cardinality(kept) \in Nat /\ Cardinality(A) \in Nat
      /\ Cardinality(AssignReserve(kindOf, slots, line, kept)) \in Nat
  BY FS_CardinalityType, ActiveCountType
<1> QED
  BY <1>3, <1>4, <1>5 DEF ActiveCount

\* What is true of an adjusted team.
Legal(before, kindOf, line, raw, protected, pool, forbidDrops, o) ==
  /\ o.seated \subseteq o.players
  /\ \A kind \in Kinds : Cardinality(OfKind(kindOf, o.seated, kind)) <= before.slots[kind]
  /\ ActiveSize(before) <= Cardinality(o.players \ o.seated)
  /\ Cardinality(o.players \ o.seated) <= before.cap
  /\ protected \subseteq o.players
  /\ o.added = {} \/ o.dropped = {}
  /\ forbidDrops => o.dropped = {}
  /\ o.players = (raw \ o.dropped) \cup o.added
  /\ o.added \subseteq pool
  /\ o.added # {} => ActiveCount(kindOf, before.slots, line, raw) < ActiveSize(before)

LEMMA BalanceIsLegal ==
    ASSUME NEW before, NEW kindOf, NEW line, NEW raw, NEW protected, NEW pool, NEW forbidDrops \in BOOLEAN,
           Balanceable(before, kindOf, line, raw, protected, pool),
           NEW o \in Balance(before, kindOf, line, raw, protected, pool, forbidDrops),
           o.how = "adjusted"
    PROVE  /\ Legal(before, kindOf, line, raw, protected, pool, forbidDrops, o)
           /\ o = [how |-> "adjusted", players |-> o.players, seated |-> o.seated,
                   added |-> o.added, dropped |-> o.dropped]
<1> DEFINE Active(present) == ActiveCount(kindOf, before.slots, line, present)
           excess == Excess(before, kindOf, line, raw)
<1>1. \A how : Refused(how).how = how
  BY DEF Refused
<1>2. PICK D \in Drops(before, kindOf, line, raw, protected) :
        o \in Filled(before, kindOf, line, raw \ D, D, pool)
  BY <1>1 DEF Balance
<1>3. forbidDrops => ~(excess > 0)
  BY <1>1 DEF Balance
<1> DEFINE kept == raw \ D
<1>4. PICK A \in SUBSET (pool \ kept) :
        /\ Cardinality(A) = Needed(before, kindOf, line, kept)
        /\ o = Adjusted(before, kindOf, line, kept, A, D)
  BY SMTT(30), <1>1, <1>2 DEF Filled
<1>5. /\ o = [how |-> "adjusted", players |-> kept \cup A,
              seated |-> AssignReserve(kindOf, before.slots, line, kept \cup A),
              added |-> A, dropped |-> D]
      /\ ~(Active(kept \cup A) > before.cap)
  BY <1>1, <1>4 DEF Adjusted
<1>6. /\ o.players = kept \cup A /\ o.added = A /\ o.dropped = D
      /\ o.seated = AssignReserve(kindOf, before.slots, line, kept \cup A)
      /\ o = [how |-> "adjusted", players |-> o.players, seated |-> o.seated,
              added |-> o.added, dropped |-> o.dropped]
  BY <1>5
<1>7. \/ excess = 0 /\ D = {}
      \/ excess # 0 /\ D \in SUBSET (raw \ protected) /\ Cardinality(D) = excess
  <2>1. CASE excess = 0
    <3>1. D \in {{}}
      BY <1>2, <2>1 DEF Drops
    <3>2. D = {}
      BY <3>1
    <3> HIDE DEF excess
    <3> QED
      BY <2>1, <3>2
  <2>2. CASE excess # 0
    <3>1. D \in {E \in SUBSET (raw \ protected) :
                  /\ Cardinality(E) = excess
                  /\ Active(raw \ E) <= before.cap}
      BY <1>2, <2>2 DEF Drops
    <3> QED
      BY <2>2, <3>1
  <2> QED
    BY <2>1, <2>2
<1>8. Seating(kindOf, before.slots, line) /\ IsFiniteSet(raw) /\ D \in SUBSET raw /\ protected \subseteq kept
  BY <1>7 DEF Balanceable
<1>9. /\ IsFiniteSet(kept) /\ Cardinality(D) \in Nat
      /\ Active(raw) - Cardinality(D) <= Active(kept)
      /\ Active(raw) \in Int /\ Active(kept) \in Int
  <2>1. IsFiniteSet(kept) /\ Cardinality(D) \in Nat /\ Active(raw) - Cardinality(D) <= Active(kept)
    BY <1>8, CutsFreeNoMore
  <2> QED
    BY <1>8, <2>1, ActiveCountType
<1>10. before.cap \in Nat /\ ActiveSize(before) \in Int /\ ActiveSize(before) <= before.cap
  BY DEF Balanceable
<1>11. excess \in Nat /\ (excess > 0 => excess = Active(raw) - before.cap)
  BY <1>9, <1>10 DEF Excess, AtLeastZero
<1>12. D # {} => Needed(before, kindOf, line, kept) = 0
  <2>1. Needed(before, kindOf, line, kept) = AtLeastZero(ActiveSize(before) - Active(kept))
    BY DEF Needed
  <2> HIDE DEF excess, Active, kept
  <2>2. D # {} => before.cap <= Active(kept)
    BY <1>7, <1>9, <1>10, <1>11
  <2> QED
    BY <1>9, <1>10, <2>1, <2>2 DEF AtLeastZero
<1>13. A \in SUBSET pool /\ A \cap kept = {} /\ A \cap DOMAIN kindOf = {}
  BY <1>4 DEF Balanceable
<1>14. Needed(before, kindOf, line, kept) \in Nat
       /\ ActiveSize(before) - Active(kept) <= Needed(before, kindOf, line, kept)
       /\ (Needed(before, kindOf, line, kept) # 0 => Active(kept) < ActiveSize(before))
  BY <1>9, <1>10 DEF Needed, AtLeastZero
<1>15. /\ IsFiniteSet(A) /\ IsFiniteSet(kept \cup A) /\ Cardinality(A) \in Nat
       /\ Active(kept \cup A) = Active(kept) + Cardinality(A)
  <2>1. IsFiniteSet(A) /\ Cardinality(A) \in Nat
    BY <1>13, FS_Subset, FS_CardinalityType DEF Balanceable
  <2> QED
    BY <1>8, <1>9, <1>13, <2>1, AddedDoNotSit
<1>16. /\ o.seated \subseteq o.players
       /\ Active(kept \cup A) = Cardinality(o.players \ o.seated)
       /\ Active(kept \cup A) \in Int
  <2>1. AssignReserve(kindOf, before.slots, line, kept \cup A) \subseteq kept \cup A
    BY <1>8, AssignedAreSeats
  <2>2. /\ Active(kept \cup A)
             = Cardinality((kept \cup A) \ AssignReserve(kindOf, before.slots, line, kept \cup A))
        /\ Active(kept \cup A) \in Int
    <3>1. IsFiniteSet(kept \cup A)
      BY <1>15
    <3> HIDE DEF kept
    <3> QED
      BY ZenonT(30), <1>8, <3>1, ActiveCountType
  <2> HIDE DEF Active, kept
  <2> QED
    BY <1>6, <2>1, <2>2
<1>17. \A kind \in Kinds : Cardinality(OfKind(kindOf, o.seated, kind)) <= before.slots[kind]
  BY <1>6, <1>8, SlotsAreEnough
<1>18. o.players = (raw \ o.dropped) \cup o.added /\ protected \subseteq o.players
  BY <1>6, <1>8
<1>19. A # {} => Cardinality(A) # 0
  BY <1>15, FS_EmptySet
<1>20. A # {} => D = {}
  BY <1>4, <1>12, <1>19
<1>21. A # {} => Active(raw) < ActiveSize(before)
  <2>1. D = {} => kept = raw
    OBVIOUS
  <2> QED
    BY <1>4, <1>14, <1>19, <1>20, <2>1
<1> HIDE DEF kept, excess, Active
<1>22. forbidDrops => D = {}
  BY <1>3, <1>7, <1>11
<1>23. /\ ActiveSize(before) <= Cardinality(o.players \ o.seated)
       /\ Cardinality(o.players \ o.seated) <= before.cap
  BY <1>4, <1>5, <1>9, <1>10, <1>14, <1>15, <1>16
<1> QED
  BY <1>6, <1>13, <1>16, <1>17, <1>18, <1>20, <1>21, <1>22, <1>23 DEF Legal, Active
-----------------------------------------------------------------------------
(* The counting rule.                                                      *)

\* How many of a kind are present.
Present(kindOf, players, kind) == Cardinality(OfKind(kindOf, players, kind))

LEMMA OfKindType ==
    ASSUME NEW kindOf, NEW players, IsFiniteSet(players), NEW kind
    PROVE  /\ OfKind(kindOf, players, kind) \in SUBSET players
           /\ IsFiniteSet(OfKind(kindOf, players, kind))
           /\ Present(kindOf, players, kind) \in Nat
           /\ Present(kindOf, players, kind) <= Cardinality(players)
<1>1. OfKind(kindOf, players, kind) \in SUBSET players
  BY DEF OfKind
<1> QED
  BY <1>1, FS_Subset, FS_CardinalityType DEF Present

LEMMA FirstCount ==
    ASSUME NEW W \in SUBSET Nat, IsFiniteSet(W), NEW n \in Nat
    PROVE  Cardinality(First(W, n)) = Least(Cardinality(W), n)
<1>1. First(W, n) \in SUBSET W
  BY DEF First
<1>2. /\ Cardinality(First(W, n)) \in Nat /\ Cardinality(W) \in Nat
      /\ Cardinality(First(W, n)) <= Cardinality(W) /\ Cardinality(First(W, n)) <= n
  BY <1>1, FS_Subset, FS_CardinalityType, FirstAtMost
<1>3. CASE First(W, n) = W
  BY <1>2, <1>3 DEF Least
<1>4. CASE First(W, n) # W
  BY <1>2, <1>4, FirstAtLeast DEF Least
<1> QED
  BY <1>3, <1>4

LEMMA WaitingCount ==
    ASSUME NEW kindOf, NEW slots, NEW line, Seating(kindOf, slots, line),
           NEW present \in SUBSET Range(line), NEW kind
    PROVE  Cardinality(Waiting(kindOf, line, present, kind)) = Present(kindOf, present, kind)
<1>1. At(line, Waiting(kindOf, line, present, kind)) = OfKind(kindOf, present, kind)
  BY DEF At, Waiting, OfKind, Range
<1>2. IsInjective(line)
  BY DEF Seating
<1> QED
  BY <1>1, <1>2, WaitingType, Distinct DEF Present

(* As many of a kind sit as there are, or as there are slots. *)
LEMMA SeatsAreCounted ==
    ASSUME NEW kindOf, NEW slots, NEW line, Seating(kindOf, slots, line),
           NEW present \in SUBSET Range(line)
    PROVE  Cardinality(AssignReserve(kindOf, slots, line, present))
             = Least(Present(kindOf, present, "IR"), slots["IR"])
                 + Least(Present(kindOf, present, "ROOKIE_RESERVE"), slots["ROOKIE_RESERVE"])
<1>1. ASSUME NEW kind \in Kinds
      PROVE  Cardinality(SeatsOf(kindOf, slots, line, present, kind))
               = Least(Present(kindOf, present, kind), slots[kind])
  <2>1. slots[kind] \in Nat
    BY DEF Seating
  <2>2. /\ Waiting(kindOf, line, present, kind) \in SUBSET Nat
        /\ IsFiniteSet(Waiting(kindOf, line, present, kind))
    BY WaitingType
  <2>3. Cardinality(Waiting(kindOf, line, present, kind)) = Present(kindOf, present, kind)
    BY WaitingCount
  <2> QED
    BY <2>1, <2>2, <2>3, FirstCount DEF SeatsOf
<1>2. "IR" \in Kinds /\ "ROOKIE_RESERVE" \in Kinds
  BY DEF Kinds
<1> QED
  BY <1>1, <1>2, AssignedCount

LEMMA ActivesAreCounted ==
    ASSUME NEW kindOf, NEW slots, NEW line, Seating(kindOf, slots, line),
           NEW present \in SUBSET Range(line)
    PROVE  ActiveCount(kindOf, slots, line, present)
             = Cardinality(present)
                 - (Least(Present(kindOf, present, "IR"), slots["IR"])
                      + Least(Present(kindOf, present, "ROOKIE_RESERVE"), slots["ROOKIE_RESERVE"]))
BY SeatsAreCounted DEF ActiveCount

(* A finite set has subsets of every smaller size. *)
LEMMA SubsetOfSize ==
    ASSUME NEW S, IsFiniteSet(S), NEW n \in Nat, n <= Cardinality(S)
    PROVE  \E T \in SUBSET S : IsFiniteSet(T) /\ Cardinality(T) = n
<1>1. Cardinality(S) \in Nat
  BY FS_CardinalityType
<1>2. PICK f : f \in Bijection(1 .. Cardinality(S), S)
  BY FS_CardinalityType DEF ExistsBijection
<1>3. f \in [1 .. Cardinality(S) -> S] /\ IsInjective(f)
  BY <1>2 DEF Bijection, Injection, IsInjective
<1>5. 1 .. n \in SUBSET DOMAIN f
  BY <1>1, <1>3
<1>6. IsFiniteSet(1 .. n) /\ Cardinality(1 .. n) = n
  BY FS_Interval
<1>7. IsFiniteSet(At(f, 1 .. n)) /\ Cardinality(At(f, 1 .. n)) = n
  BY <1>3, <1>5, <1>6, Distinct
<1>8. At(f, 1 .. n) \in SUBSET S
  BY <1>3, <1>5 DEF At
<1> QED
  BY <1>7, <1>8

LEMMA RosterType ==
    ASSUME NEW roster, IsRoster(roster)
    PROVE  /\ IsFiniteSet(Owned(roster)) /\ Cardinality(Owned(roster)) \in Nat
           /\ Reserved(roster) \subseteq Owned(roster)
           /\ IsFiniteSet(Reserved(roster)) /\ Cardinality(Reserved(roster)) \in Nat
           /\ ActiveSize(roster) \in Int /\ ActiveSize(roster) <= roster.cap
<1>1. roster.players \in Seq(Owned(roster)) /\ IsInjective(roster.players)
  BY DEF IsRoster
<1>2. IsFiniteSet(DOMAIN roster.players)
  <2>1. DOMAIN roster.players = 1 .. Len(roster.players) /\ Len(roster.players) \in Nat
    BY <1>1
  <2>2. 1 \in Int /\ Len(roster.players) \in Int
    BY <2>1
  <2>3. IsFiniteSet(1 .. Len(roster.players))
    BY <2>2, FS_Interval, Zenon
  <2> QED
    BY <2>1, <2>3
<1>3. Owned(roster) = At(roster.players, DOMAIN roster.players)
  BY DEF Owned, Range, At
<1>4. IsFiniteSet(Owned(roster))
  BY <1>1, <1>2, <1>3, Distinct
<1>5. Reserved(roster) \subseteq Owned(roster) /\ ActiveSize(roster) <= roster.cap
  BY DEF IsRoster
<1>6. /\ IsFiniteSet(Reserved(roster)) /\ Cardinality(Reserved(roster)) \in Nat
      /\ Cardinality(Owned(roster)) \in Nat
  BY <1>4, <1>5, FS_Subset, FS_CardinalityType
<1> QED
  BY <1>4, <1>5, <1>6 DEF ActiveSize

\* A trade as one team sees it: whom it sends, whom it receives.
Trading(before, kindOf, line, sent, received) ==
  /\ IsRoster(before)
  /\ Seating(kindOf, before.slots, line)
  /\ sent \subseteq Owned(before)
  /\ IsFiniteSet(received) /\ received \cap Owned(before) = {}
  /\ Owned(before) \cup received \subseteq Range(line)
  /\ \A kind \in Kinds : OfKind(kindOf, Owned(before), kind) = OfKind(before.kindOf, Owned(before), kind)

\* Whom it keeps, and whom it has before any drop or addition.
Kept(before, sent) == Owned(before) \ sent

After(before, sent, received) == Kept(before, sent) \cup received

PlanFor(before, kindOf, sent, received) ==
  CapacityPlan(before, Cardinality(sent), Signature(sent, kindOf),
               Cardinality(received), Signature(received, kindOf))

\* The active players and the overflow of one kind that a team may drop.
Overflow(own, all, slots) == Least(own, AtLeastZero(all - slots))

LEMMA TradedSets ==
    ASSUME NEW before, NEW kindOf, NEW line, NEW sent, NEW received,
           Trading(before, kindOf, line, sent, received)
    PROVE  /\ IsFiniteSet(Owned(before)) /\ IsFiniteSet(sent) /\ IsFiniteSet(received)
           /\ IsFiniteSet(Kept(before, sent)) /\ IsFiniteSet(After(before, sent, received))
           /\ Len(before.players) = Cardinality(Owned(before))
           /\ Cardinality(Owned(before)) \in Nat
           /\ Cardinality(sent) \in Nat /\ Cardinality(received) \in Nat
           /\ Cardinality(Kept(before, sent)) \in Nat
           /\ Cardinality(Kept(before, sent)) = Cardinality(Owned(before)) - Cardinality(sent)
           /\ Cardinality(After(before, sent, received))
                = Cardinality(Kept(before, sent)) + Cardinality(received)
<1> DEFINE kept == Owned(before) \ sent
<1>1. /\ IsFiniteSet(Owned(before)) /\ Cardinality(Owned(before)) \in Nat
      /\ before.players \in Seq(Owned(before)) /\ IsInjective(before.players)
  BY RosterType DEF Trading, IsRoster
<1>2. Len(before.players) = Cardinality(Owned(before))
  <2>1. DOMAIN before.players = 1 .. Len(before.players) /\ Len(before.players) \in Nat
    BY <1>1
  <2>2. /\ IsFiniteSet(1 .. Len(before.players))
        /\ Cardinality(1 .. Len(before.players)) = Len(before.players)
    BY <2>1, FS_Interval
  <2>3. At(before.players, DOMAIN before.players) = Owned(before)
    BY DEF At, Owned, Range
  <2> QED
    BY <1>1, <2>1, <2>2, <2>3, Distinct
<1>3. sent \in SUBSET Owned(before) /\ IsFiniteSet(received) /\ received \cap kept = {}
  BY DEF Trading
<1>4. IsFiniteSet(sent)
  BY <1>1, <1>3, FS_Subset
<1>5. IsFiniteSet(kept) /\ Cardinality(kept) = Cardinality(Owned(before)) - Cardinality(sent)
  <2>1. Owned(before) \cap sent = sent
    BY <1>3
  <2> QED
    BY <1>1, <2>1, FS_Difference
<1> HIDE DEF kept
<1>6. /\ IsFiniteSet(kept \cup received)
      /\ Cardinality(kept \cup received) = Cardinality(kept) + Cardinality(received)
  BY <1>3, <1>5, UnionOfApart
<1>7. Cardinality(sent) \in Nat /\ Cardinality(received) \in Nat /\ Cardinality(kept) \in Nat
  BY <1>3, <1>4, <1>5, FS_CardinalityType
<1> QED
  BY <1>1, <1>2, <1>3, <1>4, <1>5, <1>6, <1>7 DEF kept, Kept, After

LEMMA TradedKinds ==
    ASSUME NEW before, NEW kindOf, NEW line, NEW sent, NEW received,
           Trading(before, kindOf, line, sent, received), NEW kind \in Kinds
    PROVE  /\ Present(before.kindOf, Owned(before), kind) \in Nat
           /\ Present(kindOf, sent, kind) \in Nat
           /\ Present(kindOf, received, kind) \in Nat
           /\ Present(kindOf, Kept(before, sent), kind) \in Nat
           /\ Present(kindOf, Kept(before, sent), kind)
                = Present(before.kindOf, Owned(before), kind) - Present(kindOf, sent, kind)
           /\ Present(kindOf, After(before, sent, received), kind)
                = Present(kindOf, Kept(before, sent), kind) + Present(kindOf, received, kind)
<1> DEFINE kept == Owned(before) \ sent
           K(players) == OfKind(kindOf, players, kind)
<1>1. /\ IsFiniteSet(Owned(before)) /\ IsFiniteSet(sent) /\ IsFiniteSet(received)
      /\ IsFiniteSet(kept)
  BY TradedSets DEF Kept
<1>2. /\ sent \in SUBSET Owned(before) /\ received \cap kept = {}
      /\ K(Owned(before)) = OfKind(before.kindOf, Owned(before), kind)
  BY DEF Trading
<1>3. /\ K(kept) = K(Owned(before)) \ K(sent) /\ K(Owned(before)) \cap K(sent) = K(sent)
      /\ K(kept \cup received) = K(kept) \cup K(received) /\ K(kept) \cap K(received) = {}
  BY <1>2 DEF OfKind
<1>4. /\ IsFiniteSet(K(Owned(before))) /\ IsFiniteSet(K(sent)) /\ IsFiniteSet(K(received))
      /\ IsFiniteSet(K(kept))
      /\ Cardinality(K(Owned(before))) \in Nat /\ Cardinality(K(sent)) \in Nat
      /\ Cardinality(K(received)) \in Nat /\ Cardinality(K(kept)) \in Nat
  <2> HIDE DEF kept
  <2> QED
    BY <1>1, OfKindType DEF Present
<1> HIDE DEF kept, K
<1>5. Cardinality(K(kept)) = Cardinality(K(Owned(before))) - Cardinality(K(sent))
  <2>1. Cardinality(K(Owned(before)) \ K(sent))
          = Cardinality(K(Owned(before))) - Cardinality(K(Owned(before)) \cap K(sent))
    BY <1>4, FS_Difference
  <2> QED
    BY <1>3, <2>1
<1>6. Cardinality(K(kept \cup received)) = Cardinality(K(kept)) + Cardinality(K(received))
  BY <1>3, <1>4, UnionOfApart
<1>7. \A players : Present(kindOf, players, kind) = Cardinality(K(players))
  BY DEF Present, K
<1>8. Present(before.kindOf, Owned(before), kind) = Cardinality(K(Owned(before)))
  BY <1>2 DEF Present
<1> QED
  BY <1>4, <1>5, <1>6, <1>7, <1>8 DEF kept, Kept, After

(* What the plan comes to, in terms of the players there are after the trade. *)
LEMMA PlanOfCounts ==
    ASSUME NEW before, NEW kindOf, NEW line, NEW sent, NEW received,
           Trading(before, kindOf, line, sent, received)
    PROVE  LET kept == Kept(before, sent)
               raw == After(before, sent, received)
               Own(kind) == Present(kindOf, kept, kind)
               All(kind) == Present(kindOf, raw, kind)
               plan == PlanFor(before, kindOf, sent, received)
           IN /\ plan.required
                   = AtLeastZero(Cardinality(raw)
                       - (Least(All("IR"), before.slots["IR"])
                            + Least(All("ROOKIE_RESERVE"), before.slots["ROOKIE_RESERVE"])) - before.cap)
              /\ plan.cuttable
                   = Cardinality(kept) - Own("IR") - Own("ROOKIE_RESERVE")
                       + Overflow(Own("IR"), All("IR"), before.slots["IR"])
                       + Overflow(Own("ROOKIE_RESERVE"), All("ROOKIE_RESERVE"), before.slots["ROOKIE_RESERVE"])
<1> DEFINE kept == Kept(before, sent)
           raw == After(before, sent, received)
           Own(kind) == Present(kindOf, kept, kind)
           All(kind) == Present(kindOf, raw, kind)
           Had(kind) == Present(before.kindOf, Owned(before), kind)
           Out(kind) == Present(kindOf, sent, kind)
           In(kind) == Present(kindOf, received, kind)
<1>1. /\ "IR" \in Kinds /\ "ROOKIE_RESERVE" \in Kinds
      /\ before.slots \in [Kinds -> Nat] /\ before.cap \in Nat
  BY DEF Kinds, Trading, IsRoster
<1>2. \A kind \in Kinds :
        /\ Had(kind) \in Nat /\ Out(kind) \in Nat /\ In(kind) \in Nat /\ Own(kind) \in Nat
        /\ Own(kind) = Had(kind) - Out(kind) /\ All(kind) = Own(kind) + In(kind)
  <2> TAKE kind \in Kinds
  <2> QED
    BY TradedKinds
<1>3. /\ Len(before.players) = Cardinality(Owned(before))
      /\ Cardinality(sent) \in Nat /\ Cardinality(received) \in Nat /\ Cardinality(kept) \in Nat
      /\ Cardinality(kept) = Cardinality(Owned(before)) - Cardinality(sent)
      /\ Cardinality(raw) = Cardinality(kept) + Cardinality(received)
      /\ Cardinality(Owned(before)) \in Nat
  BY TradedSets
<1>4. \A kind \in Kinds :
        /\ Signature(sent, kindOf)[kind] = Out(kind) /\ Signature(received, kindOf)[kind] = In(kind)
        /\ Cardinality(OfKind(before.kindOf, Owned(before), kind)) = Had(kind)
  BY DEF Signature, Present
<1> HIDE DEF kept, raw, Own, All, Had, Out, In
<1>5. \A kind \in Kinds :
        AtLeastZero(Cardinality(OfKind(before.kindOf, Owned(before), kind)) - Signature(sent, kindOf)[kind])
          = Own(kind)
  BY <1>2, <1>4 DEF AtLeastZero
<1> DEFINE plan == PlanFor(before, kindOf, sent, received)
           occupied == Least(All("IR"), before.slots["IR"])
                         + Least(All("ROOKIE_RESERVE"), before.slots["ROOKIE_RESERVE"])
           overflow == Overflow(Own("IR"), All("IR"), before.slots["IR"])
                         + Overflow(Own("ROOKIE_RESERVE"), All("ROOKIE_RESERVE"), before.slots["ROOKIE_RESERVE"])
<1>6. plan.required = AtLeastZero((Len(before.players) - Cardinality(sent) + Cardinality(received)
                                     - occupied) - before.cap)
  <2> DEFINE retained == [k \in Kinds |-> Retained(before, Signature(sent, kindOf), k)]
             candidates == [k \in Kinds |-> retained[k] + Signature(received, kindOf)[k]]
             seats == [k \in Kinds |-> Least(candidates[k], before.slots[k])]
  <2>1. \A kind \in Kinds : retained[kind] = Own(kind)
    BY <1>5 DEF Retained
  <2>2. \A kind \in Kinds : candidates[kind] = All(kind)
    <3> HIDE DEF retained
    <3> QED
      BY <1>2, <1>4, <2>1
  <2>3. OverKinds(seats) = occupied
    <3> HIDE DEF candidates
    <3> QED
      BY <1>1, <2>2 DEF OverKinds
  <2>4. plan.required = AtLeastZero((Len(before.players) - Cardinality(sent) + Cardinality(received)
                                       - OverKinds(seats)) - before.cap)
    BY DEF PlanFor, CapacityPlan
  <2> QED
    BY <2>3, <2>4
<1>7. plan.cuttable = (Len(before.players) - (Had("IR") + Had("ROOKIE_RESERVE"))
                         - (Cardinality(sent) - (Out("IR") + Out("ROOKIE_RESERVE")))) + overflow
  <2> DEFINE current == [k \in Kinds |-> Cardinality(OfKind(before.kindOf, Owned(before), k))]
             retained == [k \in Kinds |-> Retained(before, Signature(sent, kindOf), k)]
             candidates == [k \in Kinds |-> retained[k] + Signature(received, kindOf)[k]]
             over == [k \in Kinds |-> Least(retained[k], AtLeastZero(candidates[k] - before.slots[k]))]
  <2>1. \A kind \in Kinds : retained[kind] = Own(kind)
    BY <1>5 DEF Retained
  <2>2. \A kind \in Kinds : candidates[kind] = All(kind)
    <3> HIDE DEF retained
    <3> QED
      BY <1>2, <1>4, <2>1
  <2>3. OverKinds(over) = overflow
    <3> HIDE DEF retained, candidates
    <3> QED
      BY <1>1, <2>1, <2>2 DEF OverKinds, Overflow
  <2>4. OverKinds(current) = Had("IR") + Had("ROOKIE_RESERVE")
    BY <1>1, <1>4 DEF OverKinds
  <2>5. OverKinds(Signature(sent, kindOf)) = Out("IR") + Out("ROOKIE_RESERVE")
    BY <1>1, <1>4 DEF OverKinds
  <2>6. plan.cuttable = (Len(before.players) - OverKinds(current)
                           - (Cardinality(sent) - OverKinds(Signature(sent, kindOf)))) + OverKinds(over)
    BY DEF PlanFor, CapacityPlan
  <2> QED
    BY <2>3, <2>4, <2>5, <2>6
<1>8. /\ Least(All("IR"), before.slots["IR"]) \in Nat
      /\ Least(All("ROOKIE_RESERVE"), before.slots["ROOKIE_RESERVE"]) \in Nat
      /\ Overflow(Own("IR"), All("IR"), before.slots["IR"]) \in Nat
      /\ Overflow(Own("ROOKIE_RESERVE"), All("ROOKIE_RESERVE"), before.slots["ROOKIE_RESERVE"]) \in Nat
  BY <1>1, <1>2 DEF Least, Overflow, AtLeastZero
<1>8a. occupied \in Nat /\ overflow \in Nat
  BY <1>8
<1> HIDE DEF plan, occupied, overflow
<1>9. plan.required = AtLeastZero(Cardinality(raw) - occupied - before.cap)
  <2>1. Len(before.players) - Cardinality(sent) + Cardinality(received) = Cardinality(raw)
    BY <1>3
  <2> QED
    BY <1>1, <1>3, <1>6, <1>8a, <2>1
<1>10. plan.cuttable = Cardinality(kept) - Own("IR") - Own("ROOKIE_RESERVE") + overflow
  <2>1. \A kind \in {"IR", "ROOKIE_RESERVE"} :
          /\ Had(kind) \in Nat /\ Out(kind) \in Nat /\ Own(kind) = Had(kind) - Out(kind)
    BY <1>1, <1>2
  <2> QED
    BY <1>3, <1>7, <1>8a, <2>1
<1>11. Cardinality(kept) \in Nat /\ Own("IR") \in Nat /\ Own("ROOKIE_RESERVE") \in Nat
  BY <1>1, <1>2, <1>3
<1> QED
  BY <1>8, <1>9, <1>10, <1>11 DEF plan, kept, raw, Own, All, occupied, overflow

(* What a cut of d of a team's own a reserve players of a kind frees, when there are c *)
(* of that kind and s slots, is at most the overflow.                                  *)
LEMMA CutsFreeTheOverflow ==
    ASSUME NEW d \in Nat, NEW a \in Nat, NEW c \in Nat, NEW s \in Nat, d <= a, a <= c
    PROVE  /\ d + Least(c - d, s) <= Overflow(a, c, s) + Least(c, s)
           /\ d <= Overflow(a, c, s) => Least(c - d, s) = Least(c, s)
           /\ Overflow(a, c, s) \in Nat /\ Overflow(a, c, s) <= a
           /\ Least(c - d, s) \in Nat /\ Least(c, s) \in Nat
BY DEF Least, Overflow, AtLeastZero

LEMMA PlayersByKind ==
    ASSUME NEW kindOf, kindOf \in [DOMAIN kindOf -> Kinds], NEW players, IsFiniteSet(players)
    PROVE  /\ IsFiniteSet(players \ DOMAIN kindOf)
           /\ Cardinality(players \ DOMAIN kindOf) \in Nat
           /\ Cardinality(players)
                = Cardinality(players \ DOMAIN kindOf) + Present(kindOf, players, "IR")
                    + Present(kindOf, players, "ROOKIE_RESERVE")
<1> DEFINE N == players \ DOMAIN kindOf
           A == OfKind(kindOf, players, "IR")
           B == OfKind(kindOf, players, "ROOKIE_RESERVE")
<1>1. players = N \cup (A \cup B) /\ N \cap (A \cup B) = {} /\ A \cap B = {}
  BY DEF OfKind, Kinds
<1>2. N \in SUBSET players
  OBVIOUS
<1>3. IsFiniteSet(N) /\ Cardinality(N) \in Nat
  BY <1>2, FS_Subset, FS_CardinalityType
<1>4. IsFiniteSet(A) /\ IsFiniteSet(B)
  BY OfKindType
<1> HIDE DEF N, A, B
<1>5. /\ IsFiniteSet(A \cup B) /\ Cardinality(A \cup B) = Cardinality(A) + Cardinality(B)
      /\ Cardinality(A) \in Nat /\ Cardinality(B) \in Nat
  BY <1>1, <1>4, UnionOfApart, FS_CardinalityType
<1>6. Cardinality(N \cup (A \cup B)) = Cardinality(N) + Cardinality(A \cup B)
  BY <1>1, <1>3, <1>5, UnionOfApart
<1>7. Cardinality(players) = Cardinality(N) + Cardinality(A) + Cardinality(B)
  BY <1>1, <1>3, <1>5, <1>6
<1> QED
  BY <1>3, <1>7 DEF N, A, B, Present

\* What a team may drop.
Cuts(before, sent) == SUBSET Kept(before, sent)

LEMMA CutsAreFinite ==
    ASSUME NEW before, NEW kindOf, NEW line, NEW sent, NEW received,
           Trading(before, kindOf, line, sent, received),
           NEW cut \in Cuts(before, sent)
    PROVE  LET raw == After(before, sent, received)
           IN /\ IsFiniteSet(cut) /\ Cardinality(cut) \in Nat
              /\ IsFiniteSet(raw \ cut) /\ Cardinality(raw \ cut) = Cardinality(raw) - Cardinality(cut)
<1> DEFINE raw == After(before, sent, received)
<1>1. IsFiniteSet(raw)
  BY TradedSets
<1>2. cut \in SUBSET raw /\ raw \cap cut = cut
  BY DEF After, Cuts
<1> HIDE DEF raw
<1>3. IsFiniteSet(cut) /\ IsFiniteSet(raw \ cut)
  BY <1>1, <1>2, FS_Subset, FS_Difference
<1>4. Cardinality(raw \ cut) = Cardinality(raw) - Cardinality(raw \cap cut)
  BY <1>1, <1>3, FS_Difference
<1> QED
  BY <1>2, <1>3, <1>4, FS_CardinalityType DEF raw

(* A cut of a team's own players takes as many away as it has, of each kind. *)
LEMMA CutsAreCounted ==
    ASSUME NEW before, NEW kindOf, NEW line, NEW sent, NEW received,
           Trading(before, kindOf, line, sent, received),
           NEW cut \in Cuts(before, sent), NEW kind \in Kinds
    PROVE  LET raw == After(before, sent, received)
           IN /\ IsFiniteSet(cut) /\ Cardinality(cut) \in Nat
              /\ IsFiniteSet(raw \ cut) /\ Cardinality(raw \ cut) = Cardinality(raw) - Cardinality(cut)
              /\ Present(kindOf, cut, kind) \in Nat
              /\ Present(kindOf, cut, kind) <= Present(kindOf, Kept(before, sent), kind)
              /\ Present(kindOf, raw, kind) \in Nat
              /\ Present(kindOf, Kept(before, sent), kind) <= Present(kindOf, raw, kind)
              /\ Present(kindOf, raw \ cut, kind) = Present(kindOf, raw, kind) - Present(kindOf, cut, kind)
<1> DEFINE kept == Kept(before, sent)
           raw == After(before, sent, received)
<1>1. IsFiniteSet(kept) /\ IsFiniteSet(raw)
  BY TradedSets
<1>2. raw = kept \cup received /\ received \cap kept = {}
  BY DEF After, Kept, Trading
<1> HIDE DEF kept, raw
<1>3. cut \in SUBSET kept
  BY DEF kept, Cuts
<1>5. /\ IsFiniteSet(cut) /\ Cardinality(cut) \in Nat
      /\ IsFiniteSet(raw \ cut) /\ Cardinality(raw \ cut) = Cardinality(raw) - Cardinality(cut)
  <2>1. IsFiniteSet(cut)
    BY CutsAreFinite DEF raw
  <2>2. Cardinality(cut) \in Nat
    BY CutsAreFinite DEF raw
  <2>3. IsFiniteSet(raw \ cut)
    BY CutsAreFinite DEF raw
  <2>4. Cardinality(raw \ cut) = Cardinality(raw) - Cardinality(cut)
    BY CutsAreFinite DEF raw
  <2> QED
    BY <2>1, <2>2, <2>3, <2>4
<1>6. /\ Present(kindOf, cut, kind) \in Nat
      /\ Present(kindOf, cut, kind) <= Present(kindOf, kept, kind)
      /\ Present(kindOf, raw, kind) \in Nat
      /\ Present(kindOf, kept, kind) <= Present(kindOf, raw, kind)
      /\ Present(kindOf, raw \ cut, kind) = Present(kindOf, raw, kind) - Present(kindOf, cut, kind)
  <2> DEFINE K(players) == OfKind(kindOf, players, kind)
  <2>1. /\ K(cut) \in SUBSET K(kept) /\ K(kept) \in SUBSET K(raw)
        /\ K(raw \ cut) = K(raw) \ K(cut) /\ K(raw) \cap K(cut) = K(cut)
    BY <1>2, <1>3 DEF OfKind
  <2>2. IsFiniteSet(K(cut)) /\ IsFiniteSet(K(kept)) /\ IsFiniteSet(K(raw))
    BY <1>1, <1>5, OfKindType
  <2>3. \A players : Present(kindOf, players, kind) = Cardinality(K(players))
    BY DEF Present
  <2> HIDE DEF K
  <2>4. /\ Cardinality(K(cut)) \in Nat /\ Cardinality(K(raw)) \in Nat
        /\ Cardinality(K(cut)) <= Cardinality(K(kept)) /\ Cardinality(K(kept)) <= Cardinality(K(raw))
        /\ Cardinality(K(raw \ cut)) = Cardinality(K(raw)) - Cardinality(K(cut))
    <3>1. Cardinality(K(raw) \ K(cut)) = Cardinality(K(raw)) - Cardinality(K(raw) \cap K(cut))
      BY <2>2, FS_Difference
    <3>2. Cardinality(K(cut)) <= Cardinality(K(kept)) /\ Cardinality(K(kept)) <= Cardinality(K(raw))
      BY <2>1, <2>2, FS_Subset
    <3> QED
      BY <2>1, <2>2, <3>1, <3>2, FS_CardinalityType
  <2> QED
    BY <2>3, <2>4
<1> QED
  BY <1>5, <1>6 DEF kept, raw

(* The required drops are those _balance finds when it looks at the players. *)
LEMMA RequiredIsExcess ==
    ASSUME NEW before, NEW kindOf, NEW line, NEW sent, NEW received,
           Trading(before, kindOf, line, sent, received)
    PROVE  LET raw == After(before, sent, received)
               plan == PlanFor(before, kindOf, sent, received)
           IN /\ plan.required = Excess(before, kindOf, line, raw)
              /\ plan.required = AtLeastZero(ActiveCount(kindOf, before.slots, line, raw) - before.cap)
<1> DEFINE raw == After(before, sent, received)
           plan == PlanFor(before, kindOf, sent, received)
           seats == Least(Present(kindOf, raw, "IR"), before.slots["IR"])
                      + Least(Present(kindOf, raw, "ROOKIE_RESERVE"), before.slots["ROOKIE_RESERVE"])
<1>1. plan.required = AtLeastZero(Cardinality(raw) - seats - before.cap)
  BY PlanOfCounts
<1>2. raw \in SUBSET Range(line) /\ Seating(kindOf, before.slots, line)
  BY DEF After, Kept, Trading
<1>3. ActiveCount(kindOf, before.slots, line, raw) = Cardinality(raw) - seats
  BY <1>2, ActivesAreCounted
<1> QED
  BY <1>1, <1>3 DEF Excess

\* Some seating of reserve players in slots of their kind makes room after a cut.
MakesRoom(before, kindOf, kept, received, cut) ==
  LET players == (kept \ cut) \cup received
  IN \E seated \in SUBSET (players \cap DOMAIN kindOf) :
       /\ \A kind \in Kinds : Cardinality(OfKind(kindOf, seated, kind)) <= before.slots[kind]
       /\ Cardinality(players \ seated) <= before.cap

(* Whatever makes room, the plan foresaw. *)
LEMMA RoomIsCounted ==
    ASSUME NEW before, NEW kindOf, NEW line, NEW sent, NEW received,
           Trading(before, kindOf, line, sent, received),
           NEW cut \in Cuts(before, sent),
           MakesRoom(before, kindOf, Kept(before, sent), received, cut)
    PROVE  LET plan == PlanFor(before, kindOf, sent, received)
           IN /\ plan.required <= plan.cuttable
              /\ cut = {} => plan.required = 0
<1> DEFINE kept == Kept(before, sent)
           raw == After(before, sent, received)
           players == (kept \ cut) \cup received
           plan == PlanFor(before, kindOf, sent, received)
           Own(kind) == Present(kindOf, kept, kind)
           All(kind) == Present(kindOf, raw, kind)
           Gone(kind) == Present(kindOf, cut, kind)
           Slots(kind) == before.slots[kind]
           Over(kind) == Overflow(Own(kind), All(kind), Slots(kind))
<1>1. /\ "IR" \in Kinds /\ "ROOKIE_RESERVE" \in Kinds
      /\ before.slots \in [Kinds -> Nat] /\ before.cap \in Nat
      /\ kindOf \in [DOMAIN kindOf -> Kinds]
  BY DEF Kinds, Trading, IsRoster, Seating
<1>2. /\ IsFiniteSet(cut) /\ Cardinality(cut) \in Nat
      /\ IsFiniteSet(players) /\ Cardinality(players) = Cardinality(raw) - Cardinality(cut)
      /\ \A kind \in Kinds :
           /\ Gone(kind) \in Nat /\ Gone(kind) <= Own(kind)
           /\ All(kind) \in Nat /\ Own(kind) <= All(kind)
           /\ Present(kindOf, players, kind) = All(kind) - Gone(kind)
  <2>1. raw \ cut = (kept \ cut) \cup received
    BY DEF Trading, After, Kept, Cuts
  <2>2. ASSUME NEW kind \in Kinds
        PROVE  /\ IsFiniteSet(cut) /\ Cardinality(cut) \in Nat
               /\ IsFiniteSet(raw \ cut) /\ Cardinality(raw \ cut) = Cardinality(raw) - Cardinality(cut)
               /\ Gone(kind) \in Nat /\ Gone(kind) <= Own(kind)
               /\ All(kind) \in Nat /\ Own(kind) <= All(kind)
               /\ Present(kindOf, raw \ cut, kind) = All(kind) - Gone(kind)
    BY CutsAreCounted
  <2> HIDE DEF raw, kept, Gone, Own, All
  <2> QED
    BY <1>1, <2>1, <2>2
<1>3. /\ Cardinality(raw) \in Nat /\ Cardinality(kept) \in Nat
      /\ IsFiniteSet(kept)
      /\ \A kind \in Kinds : Own(kind) \in Nat
  <2>1. \A kind \in Kinds : Own(kind) \in Nat
    BY TradedKinds
  <2>2. /\ IsFiniteSet(kept) /\ Cardinality(kept) \in Nat
        /\ IsFiniteSet(raw)
    BY TradedSets
  <2> QED
    BY <2>1, <2>2, FS_CardinalityType
<1>4. PICK seated \in SUBSET (players \cap DOMAIN kindOf) :
        /\ \A kind \in Kinds : Present(kindOf, seated, kind) <= Slots(kind)
        /\ Cardinality(players \ seated) <= before.cap
  BY DEF MakesRoom, Present
<1>5. /\ plan.required = AtLeastZero(Cardinality(raw)
                           - (Least(All("IR"), Slots("IR"))
                                + Least(All("ROOKIE_RESERVE"), Slots("ROOKIE_RESERVE"))) - before.cap)
      /\ plan.cuttable = Cardinality(kept) - Own("IR") - Own("ROOKIE_RESERVE")
                           + Over("IR") + Over("ROOKIE_RESERVE")
  BY PlanOfCounts
<1>6. seated \in SUBSET players /\ seated \ DOMAIN kindOf = {}
  OBVIOUS
<1>7. cut \in SUBSET kept
  BY DEF Cuts
<1>8. cut \ DOMAIN kindOf \in SUBSET (kept \ DOMAIN kindOf)
  BY <1>7
<1> HIDE DEF kept, raw, players, plan
<1>9. /\ IsFiniteSet(seated) /\ Cardinality(seated) \in Nat
      /\ Cardinality(players \ seated) = Cardinality(players) - Cardinality(seated)
  <2>1. IsFiniteSet(seated) /\ players \cap seated = seated
    BY <1>2, <1>6, FS_Subset
  <2>2. Cardinality(players \ seated) = Cardinality(players) - Cardinality(players \cap seated)
    BY <1>2, FS_Difference
  <2> QED
    BY <2>1, <2>2, FS_CardinalityType
<1>10. \A kind \in Kinds :
         /\ Present(kindOf, seated, kind) \in Nat
         /\ Present(kindOf, seated, kind) <= Present(kindOf, players, kind)
  <2> TAKE kind \in Kinds
  <2>1. OfKind(kindOf, seated, kind) \in SUBSET OfKind(kindOf, players, kind)
    BY <1>6 DEF OfKind
  <2>2. IsFiniteSet(OfKind(kindOf, players, kind))
    BY <1>2, OfKindType
  <2> QED
    BY <2>1, <2>2, FS_Subset, FS_CardinalityType DEF Present
<1>11. Cardinality(seated) = Present(kindOf, seated, "IR") + Present(kindOf, seated, "ROOKIE_RESERVE")
  <2>1. Cardinality(seated \ DOMAIN kindOf) = 0
    BY <1>6, FS_EmptySet
  <2>2. Cardinality(seated) = Cardinality(seated \ DOMAIN kindOf) + Present(kindOf, seated, "IR")
                                + Present(kindOf, seated, "ROOKIE_RESERVE")
    BY <1>1, <1>9, PlayersByKind
  <2> QED
    BY <1>1, <1>10, <2>1, <2>2
<1>12. Cardinality(cut) <= (Cardinality(kept) - Own("IR") - Own("ROOKIE_RESERVE"))
                              + Gone("IR") + Gone("ROOKIE_RESERVE")
  <2> DEFINE idle == kept \ DOMAIN kindOf
             gone == cut \ DOMAIN kindOf
  <2>1. /\ IsFiniteSet(idle) /\ Cardinality(idle) \in Nat
        /\ Cardinality(kept) = Cardinality(idle) + Own("IR") + Own("ROOKIE_RESERVE")
    BY <1>1, <1>3, PlayersByKind
  <2>2. /\ Cardinality(gone) \in Nat
        /\ Cardinality(cut) = Cardinality(gone) + Gone("IR") + Gone("ROOKIE_RESERVE")
    BY <1>1, <1>2, PlayersByKind
  <2>3. Cardinality(gone) <= Cardinality(idle)
    BY <1>8, <2>1, FS_Subset
  <2> HIDE DEF idle, gone, Own, Gone
  <2> QED
    BY <1>1, <1>2, <1>3, <2>1, <2>2, <2>3
<1>13. \A kind \in Kinds :
         /\ Gone(kind) + Present(kindOf, seated, kind) <= Over(kind) + Least(All(kind), Slots(kind))
         /\ Over(kind) \in Nat /\ Least(All(kind), Slots(kind)) \in Nat
         /\ Gone(kind) = 0 => Present(kindOf, seated, kind) <= Least(All(kind), Slots(kind))
  <2> TAKE kind \in Kinds
  <2>1. Slots(kind) \in Nat
    BY <1>1
  <2>2. /\ Present(kindOf, seated, kind) \in Nat /\ Present(kindOf, seated, kind) <= Slots(kind)
        /\ Present(kindOf, seated, kind) <= All(kind) - Gone(kind)
    BY <1>4, <1>2, <1>10
  <2>3. Gone(kind) \in Nat /\ Own(kind) \in Nat /\ All(kind) \in Nat
    BY <1>2, <1>3
  <2>4. Gone(kind) <= Own(kind) /\ Own(kind) <= All(kind)
    BY <1>2
  <2> HIDE DEF Gone, Own, All, Slots
  <2>5. Present(kindOf, seated, kind) <= Least(All(kind) - Gone(kind), Slots(kind))
    BY <2>1, <2>2, <2>3 DEF Least
  <2>6. /\ Gone(kind) + Least(All(kind) - Gone(kind), Slots(kind))
             <= Overflow(Own(kind), All(kind), Slots(kind)) + Least(All(kind), Slots(kind))
        /\ Overflow(Own(kind), All(kind), Slots(kind)) \in Nat
        /\ Least(All(kind) - Gone(kind), Slots(kind)) \in Nat
        /\ Least(All(kind), Slots(kind)) \in Nat
    BY <2>1, <2>3, <2>4, CutsFreeTheOverflow
  <2>7. All(kind) - 0 = All(kind)
    BY <2>3
  <2> QED
    BY <2>2, <2>3, <2>5, <2>6, <2>7
<1>14. cut = {} => Gone("IR") = 0 /\ Gone("ROOKIE_RESERVE") = 0 /\ Cardinality(cut) = 0
  <2>1. cut = {} => OfKind(kindOf, cut, "IR") = {} /\ OfKind(kindOf, cut, "ROOKIE_RESERVE") = {}
    BY DEF OfKind
  <2> QED
    BY <2>1, FS_EmptySet DEF Present
<1>15. /\ Present(kindOf, seated, "IR") \in Nat /\ Present(kindOf, seated, "ROOKIE_RESERVE") \in Nat
       /\ Gone("IR") \in Nat /\ Gone("ROOKIE_RESERVE") \in Nat
       /\ Own("IR") \in Nat /\ Own("ROOKIE_RESERVE") \in Nat
  BY <1>1, <1>2, <1>3, <1>10
<1>16. Cardinality(raw) - Cardinality(cut)
         - (Present(kindOf, seated, "IR") + Present(kindOf, seated, "ROOKIE_RESERVE")) <= before.cap
  BY <1>4, <1>2, <1>9, <1>11
<1>17. /\ Over("IR") \in Nat /\ Over("ROOKIE_RESERVE") \in Nat
       /\ Least(All("IR"), Slots("IR")) \in Nat /\ Least(All("ROOKIE_RESERVE"), Slots("ROOKIE_RESERVE")) \in Nat
       /\ Gone("IR") + Present(kindOf, seated, "IR") <= Over("IR") + Least(All("IR"), Slots("IR"))
       /\ Gone("ROOKIE_RESERVE") + Present(kindOf, seated, "ROOKIE_RESERVE")
            <= Over("ROOKIE_RESERVE") + Least(All("ROOKIE_RESERVE"), Slots("ROOKIE_RESERVE"))
  BY <1>1, <1>13
<1>18. cut = {} => /\ Present(kindOf, seated, "IR") <= Least(All("IR"), Slots("IR"))
                   /\ Present(kindOf, seated, "ROOKIE_RESERVE")
                        <= Least(All("ROOKIE_RESERVE"), Slots("ROOKIE_RESERVE"))
  BY <1>1, <1>13, <1>14
<1>19. Own("IR") + Own("ROOKIE_RESERVE") <= Cardinality(kept)
  <2>1. /\ Cardinality(kept \ DOMAIN kindOf) \in Nat
        /\ Cardinality(kept) = Cardinality(kept \ DOMAIN kindOf) + Own("IR") + Own("ROOKIE_RESERVE")
    BY <1>1, <1>3, PlayersByKind
  <2> HIDE DEF Own
  <2> QED
    BY <1>15, <2>1
<1> HIDE DEF Own, All, Gone, Slots, Over
<1>20. plan.required <= plan.cuttable
  BY <1>1, <1>2, <1>3, <1>5, <1>12, <1>15, <1>16, <1>17, <1>19 DEF AtLeastZero
<1>21. ASSUME cut = {}
       PROVE  plan.required = 0
  <2>1. /\ Present(kindOf, seated, "IR") <= Least(All("IR"), Slots("IR"))
        /\ Present(kindOf, seated, "ROOKIE_RESERVE")
             <= Least(All("ROOKIE_RESERVE"), Slots("ROOKIE_RESERVE"))
        /\ Cardinality(cut) = 0
    BY <1>14, <1>18, <1>21
  <2>2. Cardinality(raw) - (Least(All("IR"), Slots("IR"))
                              + Least(All("ROOKIE_RESERVE"), Slots("ROOKIE_RESERVE"))) <= before.cap
    BY <1>1, <1>3, <1>15, <1>16, <1>17, <2>1
  <2> QED
    BY <1>1, <1>3, <1>5, <1>17, <2>2 DEF AtLeastZero
<1> QED
  BY <1>20, <1>21 DEF plan

(* A cut of the size of the plan's drops, chosen within the overflow of each kind, *)
(* frees as many places.                                                           *)
LEMMA EnoughMayBeCut ==
    ASSUME NEW before, NEW kindOf, NEW line, NEW sent, NEW received,
           Trading(before, kindOf, line, sent, received)
    PROVE  LET raw == After(before, sent, received)
               plan == PlanFor(before, kindOf, sent, received)
           IN plan.required <= plan.cuttable =>
                \E cut \in Cuts(before, sent) :
                  /\ Cardinality(cut) = plan.required
                  /\ ActiveCount(kindOf, before.slots, line, raw \ cut) <= before.cap
<1> DEFINE kept == Kept(before, sent)
           raw == After(before, sent, received)
           plan == PlanFor(before, kindOf, sent, received)
           Own(kind) == Present(kindOf, kept, kind)
           All(kind) == Present(kindOf, raw, kind)
           Slots(kind) == before.slots[kind]
           Over(kind) == Overflow(Own(kind), All(kind), Slots(kind))
           idle == kept \ DOMAIN kindOf
<1>1. /\ "IR" \in Kinds /\ "ROOKIE_RESERVE" \in Kinds
      /\ before.slots \in [Kinds -> Nat] /\ before.cap \in Nat
      /\ kindOf \in [DOMAIN kindOf -> Kinds]
  BY DEF Kinds, Trading, IsRoster, Seating
<1>2. /\ IsFiniteSet(kept) /\ IsFiniteSet(raw)
      /\ Cardinality(kept) \in Nat /\ Cardinality(raw) \in Nat
  BY TradedSets, FS_CardinalityType
<1>2a. \A cut \in Cuts(before, sent) :
         Cardinality(raw \ cut) = Cardinality(raw) - Cardinality(cut)
  BY CutsAreFinite
<1>3. ASSUME NEW kind \in Kinds
      PROVE  /\ Own(kind) \in Nat /\ All(kind) \in Nat /\ Own(kind) <= All(kind)
             /\ Slots(kind) \in Nat
             /\ Over(kind) \in Nat /\ Over(kind) <= Own(kind)
  <2>1. {} \in Cuts(before, sent)
    BY DEF Cuts
  <2>2. /\ Own(kind) \in Nat /\ All(kind) \in Nat /\ Own(kind) <= All(kind)
    BY <2>1, TradedKinds, CutsAreCounted
  <2>3. Slots(kind) \in Nat
    BY <1>1
  <2> HIDE DEF Own, All, Slots
  <2> QED
    BY <2>2, <2>3, CutsFreeTheOverflow
<1>4. /\ IsFiniteSet(idle) /\ Cardinality(idle) \in Nat
      /\ Cardinality(kept) = Cardinality(idle) + Own("IR") + Own("ROOKIE_RESERVE")
  BY <1>1, <1>2, PlayersByKind
<1>5. /\ plan.required = AtLeastZero(ActiveCount(kindOf, before.slots, line, raw) - before.cap)
      /\ plan.cuttable = Cardinality(kept) - Own("IR") - Own("ROOKIE_RESERVE")
                           + Over("IR") + Over("ROOKIE_RESERVE")
  BY PlanOfCounts, RequiredIsExcess
<1>6. Seating(kindOf, before.slots, line) /\ raw \in SUBSET Range(line)
  BY DEF After, Kept, Trading
<1>7. ActiveCount(kindOf, before.slots, line, raw)
        = Cardinality(raw) - (Least(All("IR"), Slots("IR"))
                                + Least(All("ROOKIE_RESERVE"), Slots("ROOKIE_RESERVE")))
  BY <1>6, ActivesAreCounted
<1>8. ASSUME NEW kind \in Kinds
      PROVE  \E X \in SUBSET OfKind(kindOf, kept, kind) : IsFiniteSet(X) /\ Cardinality(X) = Over(kind)
  <2>1. IsFiniteSet(OfKind(kindOf, kept, kind))
    BY <1>2, OfKindType
  <2>2. Cardinality(OfKind(kindOf, kept, kind)) = Own(kind)
    BY DEF Present
  <2>3. Over(kind) \in Nat /\ Over(kind) <= Own(kind)
    BY <1>3
  <2> HIDE DEF Over, Own
  <2> QED
    BY <2>1, <2>2, <2>3, SubsetOfSize
<1>9. PICK A \in SUBSET OfKind(kindOf, kept, "IR") : IsFiniteSet(A) /\ Cardinality(A) = Over("IR")
  BY <1>1, <1>8
<1>10. PICK B \in SUBSET OfKind(kindOf, kept, "ROOKIE_RESERVE") :
          IsFiniteSet(B) /\ Cardinality(B) = Over("ROOKIE_RESERVE")
  BY <1>1, <1>8
<1> DEFINE open == idle \cup (A \cup B)
<1>11. /\ idle \cap (A \cup B) = {} /\ A \cap B = {} /\ open \in SUBSET kept
       /\ OfKind(kindOf, open, "IR") = A /\ OfKind(kindOf, open, "ROOKIE_RESERVE") = B
  BY DEF OfKind
<1> HIDE DEF kept, raw, plan, idle, Own, All, Slots, Over
<1>12. IsFiniteSet(open) /\ Cardinality(open) = plan.cuttable
  <2>1. /\ IsFiniteSet(A \cup B) /\ Cardinality(A \cup B) = Cardinality(A) + Cardinality(B)
    BY <1>9, <1>10, <1>11, UnionOfApart
  <2>2. IsFiniteSet(open) /\ Cardinality(open) = Cardinality(idle) + Cardinality(A \cup B)
    BY <1>4, <1>11, <2>1, UnionOfApart
  <2>3. Own("IR") \in Nat /\ Own("ROOKIE_RESERVE") \in Nat /\ Over("IR") \in Nat /\ Over("ROOKIE_RESERVE") \in Nat
    BY <1>1, <1>3
  <2> QED
    BY <1>4, <1>5, <1>9, <1>10, <2>1, <2>2, <2>3
<1> HIDE DEF open
<1> SUFFICES ASSUME plan.required <= plan.cuttable
             PROVE  \E cut \in Cuts(before, sent) :
                      /\ Cardinality(cut) = plan.required
                      /\ ActiveCount(kindOf, before.slots, line, raw \ cut) <= before.cap
  BY DEF plan, raw
<1>13. ActiveCount(kindOf, before.slots, line, raw) \in Int /\ plan.required \in Nat
  <2>1. ActiveCount(kindOf, before.slots, line, raw) \in Int
    BY <1>2, <1>6, ActiveCountType
  <2> QED
    BY <1>1, <1>5, <2>1 DEF AtLeastZero
<1>14. PICK cut \in SUBSET open : IsFiniteSet(cut) /\ Cardinality(cut) = plan.required
  BY <1>12, <1>13, SubsetOfSize
<1>15. cut \in Cuts(before, sent)
  BY <1>11, <1>14 DEF Cuts, kept
<1>16. ASSUME NEW kind \in Kinds
       PROVE  Least(Present(kindOf, raw \ cut, kind), Slots(kind)) = Least(All(kind), Slots(kind))
  <2>1. /\ Present(kindOf, cut, kind) \in Nat /\ Present(kindOf, cut, kind) <= Own(kind)
        /\ Present(kindOf, raw \ cut, kind) = All(kind) - Present(kindOf, cut, kind)
    BY <1>15, CutsAreCounted DEF Own, All, raw, kept
  <2>2. Present(kindOf, cut, kind) <= Over(kind)
    <3>1. OfKind(kindOf, cut, kind) \in SUBSET OfKind(kindOf, open, kind)
      BY <1>14 DEF OfKind
    <3>2. IsFiniteSet(OfKind(kindOf, open, kind)) /\ Cardinality(OfKind(kindOf, open, kind)) = Over(kind)
      BY <1>9, <1>10, <1>11 DEF Kinds
    <3> QED
      BY <3>1, <3>2, FS_Subset DEF Present
  <2>3. Own(kind) \in Nat /\ All(kind) \in Nat /\ Own(kind) <= All(kind) /\ Slots(kind) \in Nat
    BY <1>3
  <2>4. Over(kind) = Overflow(Own(kind), All(kind), Slots(kind))
    BY DEF Over
  <2> QED
    BY <2>1, <2>2, <2>3, <2>4, CutsFreeTheOverflow
<1>17. ActiveCount(kindOf, before.slots, line, raw \ cut)
         = Cardinality(raw \ cut) - (Least(All("IR"), Slots("IR"))
                                       + Least(All("ROOKIE_RESERVE"), Slots("ROOKIE_RESERVE")))
  <2>1. raw \ cut \in SUBSET Range(line)
    BY <1>6
  <2>2. ActiveCount(kindOf, before.slots, line, raw \ cut)
          = Cardinality(raw \ cut) - (Least(Present(kindOf, raw \ cut, "IR"), before.slots["IR"])
              + Least(Present(kindOf, raw \ cut, "ROOKIE_RESERVE"), before.slots["ROOKIE_RESERVE"]))
    BY <1>6, <2>1, ActivesAreCounted
  <2>3. Slots("IR") = before.slots["IR"] /\ Slots("ROOKIE_RESERVE") = before.slots["ROOKIE_RESERVE"]
    BY DEF Slots
  <2> QED
    BY <1>1, <1>16, <2>2, <2>3
<1>18. Cardinality(raw \ cut) = Cardinality(raw) - plan.required
  BY <1>14, <1>15, <1>2a
<1>19. Least(All("IR"), Slots("IR")) \in Nat /\ Least(All("ROOKIE_RESERVE"), Slots("ROOKIE_RESERVE")) \in Nat
  BY <1>1, <1>3 DEF Least
<1>20. ActiveCount(kindOf, before.slots, line, raw \ cut)
         = ActiveCount(kindOf, before.slots, line, raw) - plan.required
  BY <1>2, <1>7, <1>13, <1>17, <1>18, <1>19
<1>21. ActiveCount(kindOf, before.slots, line, raw \ cut) <= before.cap
  BY <1>1, <1>5, <1>13, <1>20 DEF AtLeastZero
<1> QED
  BY <1>14, <1>15, <1>21

(* Where as many places are left as there are slots and the cap allows, the seating *)
(* of assign_reserve_slots makes room.                                              *)
LEMMA SeatingMakesRoom ==
    ASSUME NEW before, NEW kindOf, NEW line, NEW sent, NEW received,
           Trading(before, kindOf, line, sent, received),
           NEW cut \in Cuts(before, sent),
           ActiveCount(kindOf, before.slots, line, After(before, sent, received) \ cut) <= before.cap
    PROVE  MakesRoom(before, kindOf, Kept(before, sent), received, cut)
<1> DEFINE raw == After(before, sent, received)
           players == (Kept(before, sent) \ cut) \cup received
           seated == AssignReserve(kindOf, before.slots, line, raw \ cut)
<1>1. raw \ cut = players
  BY DEF After, Trading, Kept, Cuts
<1>2. Seating(kindOf, before.slots, line) /\ IsFiniteSet(raw)
  BY TradedSets DEF Trading
<1>3. IsFiniteSet(raw \ cut)
  BY <1>2, FS_Difference
<1> HIDE DEF raw, players
<1>4. Cardinality((raw \ cut) \ seated) <= before.cap
  BY <1>2, <1>3, ActiveCountType DEF raw
<1>5. seated \in SUBSET ((raw \ cut) \cap DOMAIN kindOf)
  BY <1>2, AssignedAreSeats
<1>6. \A kind \in Kinds : Cardinality(OfKind(kindOf, seated, kind)) <= before.slots[kind]
  BY <1>2, SlotsAreEnough
<1> HIDE DEF seated
<1> QED
  BY <1>1, <1>4, <1>5, <1>6 DEF MakesRoom, players

(* The plan admits a trade exactly if some cut and some seating make room for it. *)
LEMMA PlanIsExact ==
    ASSUME NEW before, NEW kindOf, NEW line, NEW sent, NEW received,
           Trading(before, kindOf, line, sent, received), NEW forbidDrops \in BOOLEAN
    PROVE  Admits(PlanFor(before, kindOf, sent, received), forbidDrops)
             <=> \E cut \in IF forbidDrops THEN {{}} ELSE Cuts(before, sent) :
                   MakesRoom(before, kindOf, Kept(before, sent), received, cut)
<1> DEFINE raw == After(before, sent, received)
           plan == PlanFor(before, kindOf, sent, received)
           Room(cut) == MakesRoom(before, kindOf, Kept(before, sent), received, cut)
<1>1. {} \in Cuts(before, sent)
  BY DEF Cuts
<1>2. \A cut \in Cuts(before, sent) :
        Room(cut) => plan.required <= plan.cuttable /\ (cut = {} => plan.required = 0)
  BY RoomIsCounted
<1>3. \A cut \in Cuts(before, sent) :
        ActiveCount(kindOf, before.slots, line, raw \ cut) <= before.cap => Room(cut)
  BY SeatingMakesRoom
<1>4. plan.required <= plan.cuttable =>
        \E cut \in Cuts(before, sent) : ActiveCount(kindOf, before.slots, line, raw \ cut) <= before.cap
  BY EnoughMayBeCut
<1>5. plan.required = 0 => ActiveCount(kindOf, before.slots, line, raw \ {}) <= before.cap
  <2>1. plan.required = AtLeastZero(ActiveCount(kindOf, before.slots, line, raw) - before.cap)
    BY RequiredIsExcess
  <2>2. ActiveCount(kindOf, before.slots, line, raw) \in Int
    <3>1. IsFiniteSet(raw)
      BY TradedSets
    <3>2. Seating(kindOf, before.slots, line)
      BY DEF Trading
    <3> HIDE DEF raw
    <3> QED
      BY <3>1, <3>2, ActiveCountType
  <2>3. before.cap \in Nat /\ raw \ {} = raw
    BY DEF Trading, IsRoster
  <2> QED
    BY <2>1, <2>2, <2>3 DEF AtLeastZero
<1> HIDE DEF raw, plan, Room
<1>6. CASE forbidDrops
  <2>1. Admits(plan, forbidDrops) <=> plan.required = 0
    BY <1>6 DEF Admits
  <2>2. plan.required = 0 <=> Room({})
    BY <1>1, <1>2, <1>3, <1>5
  <2> QED
    BY <1>6, <2>1, <2>2 DEF plan, Room
<1>7. CASE ~ forbidDrops
  <2>1. Admits(plan, forbidDrops) <=> plan.required <= plan.cuttable
    BY <1>7 DEF Admits
  <2>2. plan.required <= plan.cuttable <=> \E cut \in Cuts(before, sent) : Room(cut)
    BY <1>2, <1>3, <1>4
  <2> QED
    BY <1>7, <2>1, <2>2 DEF plan, Room
<1> QED
  BY <1>6, <1>7

(* What the plan admits, _balance adjusts, unless it finds nobody to add. *)
LEMMA AdmittedIsAdjusted ==
    ASSUME NEW before, NEW kindOf, NEW line, NEW sent, NEW received, NEW pool,
           Trading(before, kindOf, line, sent, received), NEW forbidDrops \in BOOLEAN,
           Balanceable(before, kindOf, line, After(before, sent, received), received, pool),
           Admits(PlanFor(before, kindOf, sent, received), forbidDrops),
           NEW o \in Balance(before, kindOf, line, After(before, sent, received), received, pool, forbidDrops)
    PROVE  o.how \in {"adjusted", "waivers"}
<1> DEFINE raw == After(before, sent, received)
           plan == PlanFor(before, kindOf, sent, received)
           Active(present) == ActiveCount(kindOf, before.slots, line, present)
           excess == Excess(before, kindOf, line, raw)
           drops == Drops(before, kindOf, line, raw, received)
<1>1. /\ plan.required = excess
      /\ plan.required = AtLeastZero(Active(raw) - before.cap)
  BY RequiredIsExcess
<1>2. /\ Seating(kindOf, before.slots, line) /\ IsFiniteSet(raw) /\ IsFiniteSet(pool)
      /\ before.cap \in Nat /\ ActiveSize(before) \in Int /\ ActiveSize(before) <= before.cap
      /\ pool \cap DOMAIN kindOf = {}
  BY DEF Balanceable
<1>3. Active(raw) \in Int
  BY <1>2, ActiveCountType
<1>4. Cuts(before, sent) \subseteq SUBSET (raw \ received)
  BY DEF Cuts, Trading, After, Kept
<1>5. forbidDrops => plan.required = 0
  BY DEF Admits
<1>6. plan.required # 0 => \E cut \in Cuts(before, sent) :
                              Cardinality(cut) = plan.required /\ Active(raw \ cut) <= before.cap
  <2>1. plan.required # 0 => plan.required <= plan.cuttable
    BY <1>5 DEF Admits
  <2> QED
    BY <2>1, EnoughMayBeCut
<1>7. drops = IF excess = 0 THEN {{}}
              ELSE {D \in SUBSET (raw \ received) : Cardinality(D) = excess /\ Active(raw \ D) <= before.cap}
  BY DEF Drops
<1> HIDE DEF plan, raw, excess, drops, Active
<1>8. excess \in Nat /\ (excess = 0 => Active(raw) <= before.cap)
  BY <1>1, <1>2, <1>3 DEF AtLeastZero
<1>9. drops # {}
  BY <1>1, <1>4, <1>6, <1>7
<1>10. \A D \in drops : D \in SUBSET raw /\ Active(raw \ D) <= before.cap
  <2>1. raw \ {} = raw
    OBVIOUS
  <2> QED
    BY <1>7, <1>8, <2>1
<1>11. ~ (forbidDrops /\ excess > 0)
  BY <1>1, <1>5
<1>12. PICK D \in drops : o \in Filled(before, kindOf, line, raw \ D, D, pool)
  BY <1>9, <1>11 DEF Balance, raw, drops, excess
<1> DEFINE kept == raw \ D
<1>13. IsFiniteSet(kept) /\ Active(kept) <= before.cap
  BY <1>2, <1>10, <1>12, FS_Difference
<1> HIDE DEF kept
<1>14. Active(kept) \in Int
  BY <1>2, <1>13, ActiveCountType DEF Active
<1>15. CASE o = Refused("waivers")
  BY <1>15 DEF Refused
<1>16. ASSUME NEW A \in SUBSET (pool \ kept),
              Cardinality(A) = Needed(before, kindOf, line, kept),
              o = Adjusted(before, kindOf, line, kept, A, D)
       PROVE  o.how = "adjusted"
  <2>1. IsFiniteSet(A) /\ A \cap kept = {} /\ A \cap DOMAIN kindOf = {}
    BY <1>2, FS_Subset
  <2>2. Active(kept \cup A) = Active(kept) + Cardinality(A)
    BY <1>2, <1>13, <2>1, AddedDoNotSit DEF Active
  <2>3. Cardinality(A) = AtLeastZero(ActiveSize(before) - Active(kept))
    BY <1>16 DEF Needed, Active
  <2>4. Active(kept \cup A) <= before.cap /\ Active(kept \cup A) \in Int
    BY <1>2, <1>13, <1>14, <2>2, <2>3 DEF AtLeastZero
  <2>5. ~ (ActiveCount(kindOf, before.slots, line, kept \cup A) > before.cap)
    BY <1>2, <2>4 DEF Active
  <2> QED
    BY <1>16, <2>5 DEF Adjusted
<1>17. \/ o = Refused("waivers")
       \/ \E A \in SUBSET (pool \ kept) :
            /\ Cardinality(A) = Needed(before, kindOf, line, kept)
            /\ o = Adjusted(before, kindOf, line, kept, A, D)
  BY <1>12 DEF Filled, kept
<1> QED
  BY <1>15, <1>16, <1>17

-----------------------------------------------------------------------------
(* The teams of a request.                                                 *)

LEMMA RequestType ==
    ASSUME request \in Requests
    PROVE  /\ request.rosters \in Seq(Range(request.rosters))
           /\ Len(request.rosters) \in {2, 3}
           /\ Teams(request) = 1 .. Len(request.rosters)
           /\ IsFiniteSet(request.pool) /\ request.rules.noDrops \in BOOLEAN
           /\ \A t \in Teams(request) :
                /\ IsRoster(request.rosters[t]) /\ request.rosters[t].team \in Nat
                /\ request.pool \cap Owned(request.rosters[t]) = {}
           /\ \A t, u \in Teams(request) : t # u =>
                /\ request.rosters[t].team # request.rosters[u].team
                /\ Owned(request.rosters[t]) \cap Owned(request.rosters[u]) = {}
<1>1. /\ request.rosters \in Seq(Range(request.rosters)) /\ Len(request.rosters) \in {2, 3}
      /\ IsFiniteSet(request.pool) /\ request.rules.noDrops \in BOOLEAN
  BY RequestAssumption
<1>2. Teams(request) = 1 .. Len(request.rosters)
  BY <1>1 DEF Teams
<1>3. \A t \in Teams(request) : IsRoster(request.rosters[t]) /\ request.rosters[t].team \in Nat
  BY RequestAssumption DEF Teams
<1>4. \A t \in Teams(request) : request.pool \cap Owned(request.rosters[t]) = {}
  BY RequestAssumption DEF Teams
<1>5. \A t, u \in Teams(request) : t # u =>
        /\ request.rosters[t].team # request.rosters[u].team
        /\ Owned(request.rosters[t]) \cap Owned(request.rosters[u]) = {}
  BY RequestAssumption DEF Teams
<1> QED
  BY <1>1, <1>2, <1>3, <1>4, <1>5

LEMMA PlacementsType ==
    ASSUME request \in Requests
    PROVE  /\ Placements \in [DOMAIN Placements -> Kinds]
           /\ DOMAIN Placements = UNION {Reserved(request.rosters[t]) : t \in Teams(request)}
<1> DEFINE players == UNION {Reserved(request.rosters[t]) : t \in Teams(request)}
           Team(p) == CHOOSE t \in Teams(request) : p \in Reserved(request.rosters[t])
<1>1. ASSUME NEW p \in players
      PROVE  request.rosters[Team(p)].kindOf[p] \in Kinds
  <2>1. \E t \in Teams(request) : p \in Reserved(request.rosters[t])
    OBVIOUS
  <2>2. Team(p) \in Teams(request) /\ p \in Reserved(request.rosters[Team(p)])
    BY <2>1
  <2> HIDE DEF Team
  <2>3. IsRoster(request.rosters[Team(p)])
    BY <2>2, RequestType
  <2> QED
    BY <2>2, <2>3 DEF IsRoster
<1>2. Placements = [p \in players |-> request.rosters[Team(p)].kindOf[p]]
  BY DEF Placements
<1> HIDE DEF players, Team
<1>3. DOMAIN Placements = players /\ Placements \in [players -> Kinds]
  BY <1>1, <1>2
<1> QED
  BY <1>3 DEF players

LEMMA SeqOfItsRange ==
    ASSUME NEW S, NEW s \in Seq(S)
    PROVE  Range(s) \subseteq S /\ s \in Seq(Range(s))
<1> DEFINE n == Len(s)
<1>1. s \in [1 .. n -> S] /\ n \in Nat
  BY LenProperties
<1> HIDE DEF n
<1>2. Range(s) \subseteq S
  BY <1>1 DEF Range
<1>3. s \in [1 .. n -> Range(s)]
  BY <1>1 DEF Range
<1> QED
  BY <1>1, <1>2, <1>3, SeqDef

LEMMA JoinIsInjective ==
    ASSUME NEW s, s \in Seq(Range(s)), NEW r, r \in Seq(Range(r)),
           IsInjective(s), IsInjective(r), Range(s) \cap Range(r) = {}
    PROVE  s \o r \in Seq(Range(s \o r)) /\ IsInjective(s \o r)
<1>1. \A i \in DOMAIN s, j \in DOMAIN r : s[i] # r[j]
  BY DEF Range
<1>2. s \in Seq(Range(s) \cup Range(r)) /\ r \in Seq(Range(s) \cup Range(r))
  BY SeqMonotonic
<1>3. /\ s \o r \in Seq(Range(s) \cup Range(r))
      /\ DOMAIN (s \o r) = 1 .. Len(s) + Len(r)
      /\ DOMAIN s = 1 .. Len(s) /\ DOMAIN r = 1 .. Len(r)
      /\ Len(s) \in Nat /\ Len(r) \in Nat
      /\ \A i \in 1 .. Len(s) + Len(r) : (s \o r)[i] = IF i <= Len(s) THEN s[i] ELSE r[i - Len(s)]
  BY <1>2
<1>4. IsInjective(s \o r)
  BY <1>1, <1>3 DEF IsInjective
<1>5. s \o r \in Seq(Range(s \o r))
  BY <1>3, SeqOfItsRange
<1> QED
  BY <1>4, <1>5

LEMMA TransfersType ==
    ASSUME request \in Requests, NEW candidate, IsTransfer(candidate)
    PROVE  \A t \in Teams(request) :
             LET out == Sent(candidate, t)
                 in == Received(candidate, t)
             IN /\ IsInjective(in) /\ in \in Seq(Range(in))
                /\ Range(out) \subseteq Owned(request.rosters[t])
                /\ Range(in) \cap Owned(request.rosters[t]) = {}
                /\ \A p \in Range(in) : \E u \in Teams(request) : p \in Range(Sent(candidate, u))
                /\ \A p \in Range(out) : \E u \in Teams(request) : p \in Range(Received(candidate, u))
                /\ \A u \in Teams(request) : u # t => Range(in) \cap Range(Received(candidate, u)) = {}
<1> SUFFICES ASSUME NEW t \in Teams(request)
             PROVE  LET out == Sent(candidate, t)
                        in == Received(candidate, t)
                    IN /\ IsInjective(in) /\ in \in Seq(Range(in))
                       /\ Range(out) \subseteq Owned(request.rosters[t])
                       /\ Range(in) \cap Owned(request.rosters[t]) = {}
                       /\ \A p \in Range(in) : \E u \in Teams(request) : p \in Range(Sent(candidate, u))
                       /\ \A p \in Range(out) : \E u \in Teams(request) : p \in Range(Received(candidate, u))
                       /\ \A u \in Teams(request) : u # t => Range(in) \cap Range(Received(candidate, u)) = {}
  OBVIOUS
<1> DEFINE out == Sent(candidate, t)
           in == Received(candidate, t)
<1>1. /\ out \in Seq(Owned(request.rosters[t]))
      /\ Range(in) \cap Owned(request.rosters[t]) = {}
      /\ IsInjective(in)
  BY DEF IsTransfer
<1>2. in \in Seq(UNION {Range(Sent(candidate, u)) : u \in Teams(request)})
  BY DEF IsTransfer
<1>3. Range(out) \subseteq UNION {Range(Received(candidate, u)) : u \in Teams(request)}
  BY DEF IsTransfer
<1>4. \A u \in Teams(request) : u # t => Range(in) \cap Range(Received(candidate, u)) = {}
  BY DEF IsTransfer
<1> HIDE DEF out, in
<1>5. Range(out) \subseteq Owned(request.rosters[t])
  BY <1>1, LenProperties DEF Range
<1>6. /\ Range(in) \subseteq UNION {Range(Sent(candidate, u)) : u \in Teams(request)}
      /\ in \in Seq(Range(in))
  BY <1>2, SeqOfItsRange
<1> QED
  BY <1>1, <1>3, <1>4, <1>5, <1>6 DEF out, in

LEMMA TransferType ==
    ASSUME request \in Requests, IsTransfer(trial.candidate)
    PROVE  \A t \in Teams(request) :
             LET out == Sent(trial.candidate, t)
                 in == Received(trial.candidate, t)
             IN /\ IsInjective(in) /\ in \in Seq(Range(in))
                /\ Range(out) \subseteq Owned(request.rosters[t])
                /\ Range(in) \cap Owned(request.rosters[t]) = {}
                /\ \A p \in Range(in) : \E u \in Teams(request) : p \in Range(Sent(trial.candidate, u))
                /\ \A p \in Range(out) : \E u \in Teams(request) : p \in Range(Received(trial.candidate, u))
                /\ \A u \in Teams(request) : u # t => Range(in) \cap Range(Received(trial.candidate, u)) = {}
  BY TransfersType

(* What adjust_trade and adjust_teams hand to _balance. *)
LEMMA RawType ==
    ASSUME request \in Requests, IsTransfer(trial.candidate), NEW t \in Teams(request),
           NEW pool \in SUBSET request.pool
    PROVE  Balanceable(request.rosters[t], Placements, LineOf(t), RawOf(t),
                       Range(Received(trial.candidate, t)), pool)
<1> DEFINE before == request.rosters[t]
           in == Received(trial.candidate, t)
<1>1. IsRoster(before) /\ request.pool \cap Owned(before) = {} /\ IsFiniteSet(request.pool)
  BY RequestType
<1>2. /\ IsInjective(in) /\ in \in Seq(Range(in)) /\ Range(in) \cap Owned(before) = {}
      /\ \A p \in Range(in) : \E u \in Teams(request) : p \in Range(Sent(trial.candidate, u))
  BY TransferType
<1>3. \A p \in Range(in) : \E u \in Teams(request) : p \in Owned(request.rosters[u])
  BY <1>2, TransferType
<1>4. request.pool \cap Range(in) = {}
  BY <1>3, RequestType
<1> HIDE DEF before, in
<1>5. /\ before.players \in Seq(Owned(before)) /\ IsInjective(before.players)
      /\ before.slots \in [Kinds -> Nat] /\ before.cap \in Nat
  BY <1>1 DEF IsRoster
<1>6. /\ Line(before, in) \in Seq(Range(Line(before, in)))
      /\ IsInjective(Line(before, in))
  BY <1>2, <1>5, JoinIsInjective DEF Line, Owned
<1>7. IsFiniteSet(Range(in))
  <2>1. DOMAIN in = 1 .. Len(in) /\ Len(in) \in Nat
    BY <1>2
  <2>2. IsFiniteSet(DOMAIN in)
    <3>1. IsFiniteSet(1 .. Len(in))
      BY <2>1, FS_Interval
    <3> QED
      BY <2>1, <3>1
  <2>3. Range(in) = At(in, DOMAIN in)
    BY DEF Range, At
  <2> QED
    BY <1>2, <2>2, <2>3, Distinct
<1>8. IsFiniteSet(Raw(before, Sent(trial.candidate, t), in))
  BY <1>1, <1>7, RosterType, FS_Difference, FS_Union DEF Raw
<1>9. /\ Range(in) \subseteq Raw(before, Sent(trial.candidate, t), in)
      /\ pool \cap Raw(before, Sent(trial.candidate, t), in) = {}
      /\ IsFiniteSet(pool)
  BY <1>1, <1>4, FS_Subset DEF Raw
<1>10. pool \cap DOMAIN Placements = {}
  <2>1. \A u \in Teams(request) : /\ Reserved(request.rosters[u]) \subseteq Owned(request.rosters[u])
                                  /\ request.pool \cap Owned(request.rosters[u]) = {}
    BY RequestType, RosterType
  <2> QED
    BY <2>1, PlacementsType
<1>11. Seating(Placements, before.slots, Line(before, in))
  BY <1>5, <1>6, PlacementsType DEF Seating
<1> QED
  BY <1>1, <1>5, <1>8, <1>9, <1>10, <1>11, RosterType DEF Balanceable, LineOf, RawOf, before, in

(* Every player of a trade's line is one the team had or one it received. *)
LEMMA LineHoldsAll ==
    ASSUME NEW s, s \in Seq(Range(s)), NEW r, r \in Seq(Range(r))
    PROVE  Range(s) \cup Range(r) \subseteq Range(s \o r)
<1>1. s \in Seq(Range(s) \cup Range(r)) /\ r \in Seq(Range(s) \cup Range(r))
  BY SeqMonotonic
<1>2. /\ DOMAIN (s \o r) = 1 .. Len(s) + Len(r)
      /\ DOMAIN s = 1 .. Len(s) /\ DOMAIN r = 1 .. Len(r)
      /\ Len(s) \in Nat /\ Len(r) \in Nat
      /\ \A i \in 1 .. Len(s) + Len(r) : (s \o r)[i] = IF i <= Len(s) THEN s[i] ELSE r[i - Len(s)]
  BY <1>1
<1>3. \A i \in DOMAIN s : i \in DOMAIN (s \o r) /\ (s \o r)[i] = s[i]
  BY <1>2
<1>4. \A i \in DOMAIN r : i + Len(s) \in DOMAIN (s \o r) /\ (s \o r)[i + Len(s)] = r[i]
  BY <1>2
<1> QED
  BY <1>3, <1>4 DEF Range

(* A player sits where the roster that had him before the trade placed him. *)
LEMMA PlacedAsBefore ==
    ASSUME request \in Requests, NEW t \in Teams(request)
    PROVE  LET before == request.rosters[t]
           IN \A kind \in Kinds :
                OfKind(Placements, Owned(before), kind) = OfKind(before.kindOf, Owned(before), kind)
<1> DEFINE Held(u) == Reserved(request.rosters[u])
           Team(p) == CHOOSE u \in Teams(request) : p \in Held(u)
           players == UNION {Held(u) : u \in Teams(request)}
<1>1. \A u \in Teams(request) : Held(u) \subseteq Owned(request.rosters[u])
  BY RequestType, RosterType
<1>2. \A u \in Teams(request) : u # t => Owned(request.rosters[u]) \cap Owned(request.rosters[t]) = {}
  BY RequestType
<1>3. Placements = [p \in players |-> request.rosters[Team(p)].kindOf[p]]
  BY DEF Placements
<1> HIDE DEF Held
<1>4. \A p \in Owned(request.rosters[t]) \cap players : p \in Held(t) /\ Team(p) = t
  <2> TAKE p \in Owned(request.rosters[t]) \cap players
  <2>1. \A u \in Teams(request) : p \in Held(u) => u = t
    BY <1>1, <1>2
  <2>2. \E u \in Teams(request) : p \in Held(u)
    OBVIOUS
  <2> QED
    BY <2>1, <2>2
<1>5. Held(t) \subseteq players
  OBVIOUS
<1>6. DOMAIN request.rosters[t].kindOf = Held(t)
  BY DEF Held, Reserved
<1> HIDE DEF Team, players
<1>7. /\ DOMAIN Placements \cap Owned(request.rosters[t]) = Held(t) \cap Owned(request.rosters[t])
      /\ \A p \in Held(t) \cap Owned(request.rosters[t]) : Placements[p] = request.rosters[t].kindOf[p]
  BY <1>3, <1>4, <1>5
<1> QED
  BY <1>6, <1>7 DEF OfKind

(* A transfer as the plan of a team sees it. *)
LEMMA TransferIsTrading ==
    ASSUME request \in Requests, NEW candidate, IsTransfer(candidate), NEW t \in Teams(request)
    PROVE  LET before == request.rosters[t]
               sent == Range(Sent(candidate, t))
               received == Range(Received(candidate, t))
           IN /\ Trading(before, Placements, Line(before, Received(candidate, t)), sent, received)
              /\ Raw(before, Sent(candidate, t), Received(candidate, t)) = After(before, sent, received)
              /\ PlanOf(candidate, t) = PlanFor(before, Placements, sent, received)
<1> DEFINE before == request.rosters[t]
           out == Sent(candidate, t)
           in == Received(candidate, t)
<1>1. IsRoster(before)
  BY RequestType
<1>2. /\ IsInjective(in) /\ in \in Seq(Range(in))
      /\ Range(out) \subseteq Owned(before) /\ Range(in) \cap Owned(before) = {}
  BY TransfersType
<1>3. IsInjective(out) /\ out \in Seq(Range(out))
  <2>1. IsInjective(out) /\ out \in Seq(Owned(before))
    BY DEF IsTransfer
  <2> HIDE DEF out, before
  <2> QED
    BY <2>1, SeqOfItsRange
<1>4. Seating(Placements, before.slots, Line(before, in))
  <2>1. /\ before.players \in Seq(Owned(before)) /\ IsInjective(before.players)
        /\ before.slots \in [Kinds -> Nat]
    BY <1>1 DEF IsRoster
  <2> HIDE DEF before, in
  <2>2. /\ Line(before, in) \in Seq(Range(Line(before, in)))
        /\ IsInjective(Line(before, in))
    BY <1>2, <2>1, JoinIsInjective DEF Line, Owned
  <2> QED
    BY <2>1, <2>2, PlacementsType DEF Seating
<1>5. \A kind \in Kinds :
        OfKind(Placements, Owned(before), kind) = OfKind(before.kindOf, Owned(before), kind)
  BY PlacedAsBefore
<1>6. Owned(before) \cup Range(in) \subseteq Range(Line(before, in))
  <2>1. before.players \in Seq(Range(before.players)) /\ Owned(before) = Range(before.players)
    BY <1>1 DEF IsRoster, Owned
  <2>2. Line(before, in) = before.players \o in
    BY DEF Line
  <2> HIDE DEF before, in
  <2> QED
    BY <1>2, <2>1, <2>2, LineHoldsAll
<1>7. /\ IsFiniteSet(Range(in)) /\ Cardinality(Range(in)) = Len(in)
      /\ Cardinality(Range(out)) = Len(out)
  <2>1. ASSUME NEW s, s \in Seq(Range(s)), IsInjective(s)
        PROVE  IsFiniteSet(Range(s)) /\ Cardinality(Range(s)) = Len(s)
    <3>1. DOMAIN s = 1 .. Len(s) /\ Len(s) \in Nat
      BY <2>1
    <3>2. IsFiniteSet(1 .. Len(s)) /\ Cardinality(1 .. Len(s)) = Len(s)
      <4>1. \A n \in Nat : IsFiniteSet(1 .. n) /\ Cardinality(1 .. n) = n
        BY FS_Interval
      <4> QED
        BY <3>1, <4>1
    <3>3. Range(s) = At(s, DOMAIN s)
      BY DEF Range, At
    <3> QED
      BY <2>1, <3>1, <3>2, <3>3, Distinct
  <2> QED
    BY <1>2, <1>3, <2>1
<1>8. Trading(before, Placements, Line(before, in), Range(out), Range(in))
  BY <1>1, <1>2, <1>4, <1>5, <1>6, <1>7 DEF Trading
<1>9. Raw(before, out, in) = After(before, Range(out), Range(in))
  BY DEF Raw, After, Kept
<1>10. PlanOf(candidate, t) = PlanFor(before, Placements, Range(out), Range(in))
  BY <1>7 DEF PlanOf, PlanFor
<1> QED
  BY <1>8, <1>9, <1>10

(* The trade as the plan of a team sees it. *)
LEMMA TrialIsTrading ==
    ASSUME request \in Requests, IsTransfer(trial.candidate), NEW t \in Teams(request)
    PROVE  LET before == request.rosters[t]
               sent == Range(Sent(trial.candidate, t))
               received == Range(Received(trial.candidate, t))
           IN /\ Trading(before, Placements, LineOf(t), sent, received)
              /\ RawOf(t) = After(before, sent, received)
              /\ PlanOf(trial.candidate, t) = PlanFor(before, Placements, sent, received)
  BY TransferIsTrading DEF LineOf, RawOf

(* Sizes and counts are enough for the search to know which candidates its *)
(* rosters can make room for (solve_post_trade_capacity).                  *)
LEMMA CountsDecide ==
    ASSUME request \in Requests, NEW candidate, IsTransfer(candidate), NEW t \in Teams(request)
    PROVE  IsAdmitted(candidate, t) <=>
             CanMakeRoom(request.rosters[t],
                         Owned(request.rosters[t]) \ Range(Sent(candidate, t)),
                         Range(Received(candidate, t)), request.rules.noDrops)
<1> DEFINE before == request.rosters[t]
           sent == Range(Sent(candidate, t))
           received == Range(Received(candidate, t))
<1>1. /\ Trading(before, Placements, Line(before, Received(candidate, t)), sent, received)
      /\ PlanOf(candidate, t) = PlanFor(before, Placements, sent, received)
  BY TransferIsTrading
<1>2. request.rules.noDrops \in BOOLEAN
  BY RequestType
<1>3. \A kept : CanMakeRoom(before, kept, received, request.rules.noDrops)
        <=> \E cut \in IF request.rules.noDrops THEN {{}} ELSE SUBSET kept :
              MakesRoom(before, Placements, kept, received, cut)
  BY DEF CanMakeRoom, MakesRoom
<1> HIDE DEF before, sent, received
<1>4. Kept(before, sent) = Owned(before) \ sent /\ Cuts(before, sent) = SUBSET Kept(before, sent)
  BY DEF Kept, Cuts
<1>5. IsAdmitted(candidate, t) <=> CanMakeRoom(before, Owned(before) \ sent, received, request.rules.noDrops)
  <2>1. Admits(PlanFor(before, Placements, sent, received), request.rules.noDrops)
          <=> \E cut \in IF request.rules.noDrops THEN {{}} ELSE Cuts(before, sent) :
                MakesRoom(before, Placements, Kept(before, sent), received, cut)
    BY <1>1, <1>2, PlanIsExact
  <2> QED
    BY <1>1, <1>3, <1>4, <2>1 DEF IsAdmitted
<1> QED
  BY <1>5 DEF before, sent, received

LEMMA RawsAreApart ==
    ASSUME request \in Requests, IsTransfer(trial.candidate),
           NEW t \in Teams(request), NEW u \in Teams(request), t # u
    PROVE  RawOf(t) \cap RawOf(u) = {}
<1>1. \A v \in Teams(request) : Range(Sent(trial.candidate, v)) \subseteq Owned(request.rosters[v])
  BY TransferType
<1>2. \A v, w \in Teams(request) : v # w => Owned(request.rosters[v]) \cap Owned(request.rosters[w]) = {}
  BY RequestType
<1>3. \A v \in Teams(request) : \A p \in Range(Received(trial.candidate, v)) :
        \E w \in Teams(request) : p \in Range(Sent(trial.candidate, w))
  BY TransferType
<1>4. Range(Received(trial.candidate, t)) \cap Range(Received(trial.candidate, u)) = {}
  BY TransferType
<1> QED
  BY <1>1, <1>2, <1>3, <1>4 DEF RawOf, Raw

(* Nobody leaves: the two rosters keep their players and seat no more reserve *)
(* players than sat before, so they are not both below their sizes.           *)
LEMMA NotBothShort ==
    ASSUME request \in Requests, IsTransfer(trial.candidate), Len(request.rosters) = 2
    PROVE  ~ (\A t \in Teams(request) :
                ActiveCount(Placements, request.rosters[t].slots, LineOf(t), RawOf(t))
                  < ActiveSize(request.rosters[t]))
<1> DEFINE Own(t) == Owned(request.rosters[t])
           Held(t) == Reserved(request.rosters[t])
           Sit(t) == AssignReserve(Placements, request.rosters[t].slots, LineOf(t), RawOf(t))
<1>1. Teams(request) = {1, 2}
  BY RequestType
<1>2. \A t \in {1, 2} :
        /\ Seating(Placements, request.rosters[t].slots, LineOf(t)) /\ IsFiniteSet(RawOf(t))
        /\ IsFiniteSet(Own(t)) /\ IsFiniteSet(Held(t)) /\ Held(t) \subseteq Own(t)
        /\ Cardinality(Own(t)) \in Nat /\ Cardinality(Held(t)) \in Nat
  <2>1. \A t \in {1, 2} : /\ Seating(Placements, request.rosters[t].slots, LineOf(t))
                          /\ IsFiniteSet(RawOf(t))
    BY <1>1, RawType DEF Balanceable
  <2>2. \A t \in {1, 2} : IsRoster(request.rosters[t])
    BY <1>1, RequestType
  <2> QED
    BY <2>1, <2>2, RosterType
<1>3. \A t \in {1, 2} :
        /\ IsFiniteSet(Sit(t)) /\ Cardinality(Sit(t)) \in Nat /\ Cardinality(RawOf(t)) \in Nat
        /\ Sit(t) \subseteq RawOf(t) \cap DOMAIN Placements
        /\ ActiveCount(Placements, request.rosters[t].slots, LineOf(t), RawOf(t))
             = Cardinality(RawOf(t)) - Cardinality(Sit(t))
  <2>1. \A t \in {1, 2} : /\ IsFiniteSet(Sit(t)) /\ Sit(t) \subseteq RawOf(t) \cap DOMAIN Placements
    BY <1>2, AssignedCount, AssignedAreSeats
  <2> QED
    BY <1>2, <2>1, FS_CardinalityType DEF ActiveCount
<1>4. RawOf(1) \cap RawOf(2) = {} /\ Own(1) \cap Own(2) = {}
  BY <1>1, RawsAreApart, RequestType
<1>5. RawOf(1) \cup RawOf(2) = Own(1) \cup Own(2)
  <2>1. \A t \in {1, 2} :
          /\ Range(Sent(trial.candidate, t)) \subseteq Own(t)
          /\ \A p \in Range(Received(trial.candidate, t)) :
               \E u \in {1, 2} : p \in Range(Sent(trial.candidate, u))
          /\ \A p \in Range(Sent(trial.candidate, t)) :
               \E u \in {1, 2} : p \in Range(Received(trial.candidate, u))
    BY <1>1, TransferType
  <2> QED
    BY <2>1 DEF RawOf, Raw
<1>6. DOMAIN Placements = Held(1) \cup Held(2)
  BY <1>1, PlacementsType
<1> HIDE DEF Own, Held, Sit
<1>7. Cardinality(RawOf(1)) + Cardinality(RawOf(2)) = Cardinality(Own(1)) + Cardinality(Own(2))
  BY <1>2, <1>4, <1>5, UnionOfApart
<1>8. Cardinality(Sit(1)) + Cardinality(Sit(2)) <= Cardinality(Held(1)) + Cardinality(Held(2))
  <2>1. Sit(1) \cap Sit(2) = {} /\ Held(1) \cap Held(2) = {}
    BY <1>2, <1>3, <1>4
  <2>2. Sit(1) \cup Sit(2) \in SUBSET (Held(1) \cup Held(2))
    BY <1>3, <1>6
  <2>3. /\ Cardinality(Sit(1) \cup Sit(2)) = Cardinality(Sit(1)) + Cardinality(Sit(2))
        /\ Cardinality(Held(1) \cup Held(2)) = Cardinality(Held(1)) + Cardinality(Held(2))
        /\ IsFiniteSet(Held(1) \cup Held(2))
    BY <1>2, <1>3, <2>1, UnionOfApart
  <2>4. Cardinality(Sit(1) \cup Sit(2)) <= Cardinality(Held(1) \cup Held(2))
    BY <2>2, <2>3, FS_Subset
  <2> QED
    BY <2>3, <2>4
<1>9. \A t \in {1, 2} : ActiveSize(request.rosters[t]) = Cardinality(Own(t)) - Cardinality(Held(t))
  BY DEF ActiveSize, Own, Held
<1> QED
  BY <1>1, <1>2, <1>3, <1>7, <1>8, <1>9

(* The teams take turns, each once: by team id, three teams have the ranks 0, 1, 2. *)
LEMMA TurnsAreTeams ==
    ASSUME request \in Requests
    PROVE  \A i \in 1 .. Len(request.rosters) :
             /\ Turn(i) \in Teams(request)
             /\ \A j \in 1 .. Len(request.rosters) : i # j => Turn(i) # Turn(j)
<1>1. CASE Len(request.rosters) = 2
  BY <1>1, RequestType DEF Turn
<1>2. CASE Len(request.rosters) = 3
  <2> DEFINE Id(t) == request.rosters[t].team
             Lower(t) == {u \in 1 .. 3 : Id(u) < Id(t)}
             rank == [t \in 1 .. 3 |-> Cardinality(Lower(t)) + 1]
  <2>1. Teams(request) = 1 .. 3
    BY <1>2, RequestType
  <2>2. \A t, u \in 1 .. 3 : Id(t) \in Nat /\ (t # u => Id(t) # Id(u))
    BY <2>1, RequestType
  <2>3. IsFiniteSet(1 .. 3) /\ Cardinality(1 .. 3) = 3
    <3>1. \A n \in Nat : IsFiniteSet(1 .. n) /\ Cardinality(1 .. n) = n
      BY FS_Interval
    <3> QED
      BY <3>1
  <2> HIDE DEF Id
  <2>4. ASSUME NEW t \in 1 .. 3
        PROVE  /\ IsFiniteSet(Lower(t)) /\ Cardinality(Lower(t)) \in 0 .. 2
    <3>1. Lower(t) \in SUBSET (1 .. 3) /\ Lower(t) # 1 .. 3
      BY <2>2
    <3> HIDE DEF Lower
    <3> QED
      BY <2>3, <3>1, FS_Subset, FS_CardinalityType
  <2>5. ASSUME NEW t \in 1 .. 3, NEW u \in 1 .. 3, Id(t) < Id(u)
        PROVE  Cardinality(Lower(t)) # Cardinality(Lower(u))
    <3>1. Lower(t) \in SUBSET Lower(u) /\ t \in Lower(u) /\ t \notin Lower(t)
      BY <2>2, <2>5
    <3>2. IsFiniteSet(Lower(u))
      BY <2>4
    <3> HIDE DEF Lower
    <3> QED
      BY <3>1, <3>2, FS_Subset
  <2>6. \A t, u \in 1 .. 3 : t # u => Cardinality(Lower(t)) # Cardinality(Lower(u))
    BY <2>2, <2>5
  <2> HIDE DEF Lower
  <2>7. rank \in Injection(1 .. 3, 1 .. 3)
    BY <2>4, <2>6 DEF Injection, IsInjective
  <2>9. rank \in Surjection(1 .. 3, 1 .. 3)
    BY <2>3, <2>7, FS_Injection
  <2>10. \A i \in 1 .. 3 : \E t \in 1 .. 3 : Cardinality(Lower(t)) = i - 1
    BY <2>4, <2>9 DEF Surjection
  <2>11. \A i \in 1 .. 3 : Turn(i) = CHOOSE t \in 1 .. 3 : Cardinality(Lower(t)) = i - 1
    BY <1>2, <2>1 DEF Turn, Lower, Id
  <2>12. \A i \in 1 .. 3 : Turn(i) \in 1 .. 3 /\ Cardinality(Lower(Turn(i))) = i - 1
    BY <2>10, <2>11
  <2> QED
    BY <1>2, <2>1, <2>12
<1> QED
  BY <1>1, <1>2, RequestType

-----------------------------------------------------------------------------
(* The invariant.                                                          *)

TrialType ==
  /\ trial = [candidate |-> trial.candidate, done |-> trial.done]
  /\ trial.done \in Seq(Range(trial.done))
  /\ Len(trial.done) <= Len(request.rosters)

\* Only a transfer is tried, and nothing is on trial while the iterator is closed.
TrialIsTransfer ==
  /\ phase \in {"new", "ready", "complete"} => trial = NoTrial
  /\ (trial.done # <<>> \/ (phase = "running" /\ trial # NoTrial)) => IsTransfer(trial.candidate)

LegalAt(t, o) ==
  Legal(request.rosters[t], Placements, LineOf(t), RawOf(t), Range(Received(trial.candidate, t)),
        request.pool, request.rules.noDrops, o)

DoneIsLegal == \A i \in DOMAIN trial.done : LegalAt(Turn(i), trial.done[i])

\* Nobody in the waiver pool is taken by two teams.
AddedApart ==
  \A i, j \in DOMAIN trial.done : i # j => trial.done[i].added \cap trial.done[j].added = {}

TrialInv == request \in Requests /\ TrialType /\ TrialIsTransfer /\ DoneIsLegal /\ AddedApart

LEMMA NothingDone ==
    /\ NoTrial = [candidate |-> NoTrial.candidate, done |-> NoTrial.done]
    /\ NoTrial.done = <<>> /\ DOMAIN NoTrial.done = {}
    /\ <<>> \in Seq(Range(<<>>)) /\ Len(<<>>) = 0
BY DEF NoTrial

LEMMA TrialInvInit == Init => TrialInv
<1> SUFFICES ASSUME Init PROVE TrialInv
  OBVIOUS
<1>1. request \in Requests /\ trial = NoTrial /\ phase = "new"
  BY DEF Init
<1>2. Len(request.rosters) \in Nat
  BY <1>1, RequestType
<1> QED
  BY <1>1, <1>2, NothingDone DEF TrialInv, TrialType, TrialIsTransfer, DoneIsLegal, AddedApart

LEMMA NothingIsOnTrial ==
    ASSUME request' \in Requests, trial' = NoTrial
    PROVE  TrialInv'
<1>1. Len(request'.rosters) \in Nat
  <2>1. \A q \in Requests : Len(q.rosters) \in {2, 3}
    BY RequestAssumption
  <2> QED
    BY <2>1
<1> QED
  BY <1>1, NothingDone DEF TrialInv, TrialType, TrialIsTransfer, DoneIsLegal, AddedApart

LEMMA SameTrial ==
    ASSUME TrialInv, request' = request, trial' = trial,
           phase' \in {"new", "ready", "complete"} => trial = NoTrial,
           phase' = "running" /\ trial # NoTrial => phase = "running"
    PROVE  TrialInv'
<1> USE DEF TrialInv
<1>1. TrialType'
  BY DEF TrialType
<1>2. \A t : /\ Turn(t)' = Turn(t) /\ LineOf(t)' = LineOf(t) /\ RawOf(t)' = RawOf(t)
  BY DEF Turn, LineOf, RawOf, Teams
<1>3. Placements' = Placements /\ (IsTransfer(trial.candidate))' = IsTransfer(trial.candidate)
  BY DEF Placements, IsTransfer
<1>4. TrialIsTransfer'
  BY <1>3 DEF TrialIsTransfer
<1>5. DoneIsLegal'
  BY <1>2, <1>3 DEF DoneIsLegal, LegalAt
<1>6. AddedApart'
  BY DEF AddedApart
<1> QED
  BY <1>1, <1>4, <1>5, <1>6

LEMMA TakeKeeps ==
    ASSUME TrialInv, Take
    PROVE  TrialInv'
<1>1. /\ request' = request /\ request \in Requests
      /\ trial' = [candidate |-> Head(todo), done |-> <<>>]
      /\ phase' = IF IsTransfer(Head(todo)) THEN "running" ELSE "failed"
  BY DEF Take, TrialInv
<1>2. /\ trial'.candidate = Head(todo) /\ trial'.done = <<>>
      /\ trial' = [candidate |-> trial'.candidate, done |-> trial'.done]
  BY <1>1
<1>3. (IsTransfer(trial.candidate))' = IsTransfer(Head(todo))
  BY <1>1, <1>2 DEF IsTransfer
<1>4. TrialType'
  BY <1>1, <1>2, RequestType, NothingDone DEF TrialType
<1>5. TrialIsTransfer'
  BY <1>1, <1>2, <1>3 DEF TrialIsTransfer
<1> QED
  BY <1>1, <1>2, <1>4, <1>5, NothingDone DEF TrialInv, DoneIsLegal, AddedApart

LEMMA AdjustKeeps ==
    ASSUME TrialInv, Adjust
    PROVE  TrialInv'
<1> DEFINE n == Len(trial.done)
           t == Turn(n + 1)
           pool == Available(trial.done)
<1>1. /\ request' = request /\ request \in Requests
      /\ phase = "running" /\ trial # NoTrial /\ n < Len(request.rosters)
      /\ IsTransfer(trial.candidate)
  BY DEF Adjust, TrialInv, TrialIsTransfer
<1>2. PICK o \in Balance(request.rosters[t], Placements, LineOf(t), RawOf(t),
                         Range(Received(trial.candidate, t)), pool, request.rules.noDrops) :
        /\ trial' = IF o.how = "adjusted" THEN [trial EXCEPT !.done = Append(@, o)] ELSE NoTrial
        /\ phase' = IF o.how = "overfull" THEN "failed" ELSE "running"
  BY DEF Adjust
<1>3. CASE o.how # "adjusted"
  BY <1>1, <1>2, <1>3, NothingIsOnTrial
<1>4. CASE o.how = "adjusted"
  <2>1. /\ trial = [candidate |-> trial.candidate, done |-> trial.done]
        /\ trial.done \in Seq(Range(trial.done)) /\ n \in Nat
        /\ Len(request.rosters) \in Nat
    BY <1>1, RequestType DEF TrialInv, TrialType
  <2>2. /\ trial' = [candidate |-> trial.candidate, done |-> Append(trial.done, o)]
        /\ trial'.candidate = trial.candidate /\ trial'.done = Append(trial.done, o)
        /\ phase' = "running"
    BY <1>2, <1>4, <2>1
  <2>3. /\ Append(trial.done, o) \in Seq(Range(trial.done) \cup {o})
        /\ Len(Append(trial.done, o)) = n + 1
        /\ DOMAIN trial.done = 1 .. n /\ DOMAIN Append(trial.done, o) = 1 .. n + 1
        /\ Append(trial.done, o)[n + 1] = o
        /\ \A i \in 1 .. n : Append(trial.done, o)[i] = trial.done[i]
    BY <2>1
  <2>4. t \in Teams(request)
    BY <1>1, <2>1, TurnsAreTeams
  <2>5. pool \in SUBSET request.pool /\ request.rules.noDrops \in BOOLEAN
    BY <1>1, RequestType DEF Available
  <2> HIDE DEF n, t, pool
  <2>6. Legal(request.rosters[t], Placements, LineOf(t), RawOf(t),
              Range(Received(trial.candidate, t)), pool, request.rules.noDrops, o)
    <3>1. Balanceable(request.rosters[t], Placements, LineOf(t), RawOf(t),
                      Range(Received(trial.candidate, t)), pool)
      BY <1>1, <2>4, <2>5, RawType
    <3>2. o \in Balance(request.rosters[t], Placements, LineOf(t), RawOf(t),
                        Range(Received(trial.candidate, t)), pool, request.rules.noDrops)
      BY <1>2
    <3> QED
      BY <1>4, <2>5, <3>1, <3>2, BalanceIsLegal
  <2>7. TrialType'
    <3>1. Append(trial.done, o) \in Seq(Range(Append(trial.done, o)))
      BY <2>3, SeqOfItsRange
    <3>2. n + 1 <= Len(request.rosters)
      BY <1>1, <2>1
    <3>3. Len(trial'.done) <= Len(request'.rosters)
      BY <1>1, <2>2, <2>3, <3>2
    <3> QED
      BY <2>2, <3>1, <3>3 DEF TrialType
  <2>8. (IsTransfer(trial.candidate))' = IsTransfer(trial.candidate)
    BY <1>1, <2>2 DEF IsTransfer
  <2>9. TrialIsTransfer'
    BY <1>1, <2>2, <2>8 DEF TrialIsTransfer
  <2>10. /\ \A u : Turn(u)' = Turn(u) /\ LineOf(u)' = LineOf(u) /\ RawOf(u)' = RawOf(u)
         /\ Placements' = Placements
    BY <1>1, <2>2 DEF Turn, LineOf, RawOf, Placements, Teams
  <2>11. LegalAt(t, o)
    BY <2>5, <2>6 DEF LegalAt, Legal
  <2>12. \A i \in 1 .. n : LegalAt(Turn(i), trial.done[i])
    BY <2>3 DEF TrialInv, DoneIsLegal
  <2>13. \A u, x : (LegalAt(u, x))' = LegalAt(u, x)
    BY <1>1, <2>2, <2>10 DEF LegalAt
  <2>14. DoneIsLegal'
    BY <2>1, <2>2, <2>3, <2>10, <2>11, <2>12, <2>13 DEF DoneIsLegal, t
  <2>15. \A i \in 1 .. n : trial.done[i].added \cap o.added = {}
    <3> SUFFICES ASSUME NEW i \in 1 .. n, trial.done[i].added \cap o.added # {}
                 PROVE  FALSE
      OBVIOUS
    <3>1. CASE Len(request.rosters) = 2
      <4>1. n = 1 /\ i = 1
        BY <1>1, <2>1, <3>1
      <4>2. /\ ActiveCount(Placements, request.rosters[Turn(1)].slots, LineOf(Turn(1)), RawOf(Turn(1)))
                 < ActiveSize(request.rosters[Turn(1)])
            /\ ActiveCount(Placements, request.rosters[t].slots, LineOf(t), RawOf(t))
                 < ActiveSize(request.rosters[t])
        BY <2>6, <2>12, <4>1 DEF LegalAt, Legal
      <4>3. Turn(1) = 1 /\ t = 2 /\ Teams(request) = 1 .. 2
        BY <1>1, <3>1, <4>1, RequestType DEF Turn, t
      <4> QED
        BY <1>1, <3>1, <4>2, <4>3, NotBothShort
    <3>2. CASE Len(request.rosters) # 2
      <4>1. pool = request.pool \ UNION {trial.done[j].added : j \in DOMAIN trial.done}
        BY <3>2 DEF Available, pool
      <4>2. o.added \subseteq pool
        BY <2>6 DEF Legal
      <4> QED
        BY <2>3, <4>1, <4>2
    <3> QED
      BY <3>1, <3>2
  <2>16. AddedApart'
    BY <2>1, <2>2, <2>3, <2>15 DEF AddedApart, TrialInv
  <2> QED
    BY <1>1, <2>7, <2>9, <2>14, <2>16 DEF TrialInv
<1> QED
  BY <1>3, <1>4

LEMMA TrialInvNext == TrialInv /\ [Next]_vars => TrialInv'
<1> SUFFICES ASSUME TrialInv, [Next]_vars
             PROVE  TrialInv'
  OBVIOUS
<1>1. request \in Requests /\ (phase \in {"new", "ready", "complete"} => trial = NoTrial)
  BY DEF TrialInv, TrialIsTransfer
<1>2. CASE Count
  BY <1>1, <1>2, SameTrial DEF Count
<1>3. CASE Open
  BY <1>1, <1>3, SameTrial DEF Open
<1>4. CASE Take
  BY <1>4, TakeKeeps
<1>5. CASE Adjust
  BY <1>5, AdjustKeeps
<1>6. CASE Conclude
  BY <1>1, <1>6, NothingIsOnTrial DEF Conclude
<1>7. CASE Stop
  BY <1>1, <1>7, SameTrial DEF Stop
<1>8. CASE Finish
  BY <1>1, <1>8, SameTrial DEF Finish
<1>9. CASE UNCHANGED vars
  BY <1>1, <1>9, SameTrial DEF vars
<1> QED
  BY <1>2, <1>3, <1>4, <1>5, <1>6, <1>7, <1>8, <1>9 DEF Next

LEMMA TrialInvAlways == Spec => []TrialInv
BY TrialInvInit, TrialInvNext, PTL DEF Spec

(* An adjusted roster is legal, is no smaller than before and within its cap, *)
(* keeps whom it received, and is never both cut and filled (_balance).       *)
THEOREM EveryAdjustedRosterIsLegal == Spec => []AdjustedRostersAreLegal
<1>1. TrialInv => AdjustedRostersAreLegal
  <2> SUFFICES ASSUME TrialInv, NEW i \in DOMAIN trial.done
               PROVE  LET outcome == trial.done[i]
                          before == request.rosters[Turn(i)]
                          active == Cardinality(outcome.players \ outcome.seated)
                      IN /\ outcome.seated \subseteq outcome.players
                         /\ \A k \in Kinds : Cardinality(OfKind(Placements, outcome.seated, k)) <= before.slots[k]
                         /\ ActiveSize(before) <= active /\ active <= before.cap
                         /\ Range(Received(trial.candidate, Turn(i))) \subseteq outcome.players
                         /\ outcome.added = {} \/ outcome.dropped = {}
                         /\ request.rules.noDrops => outcome.dropped = {}
    BY DEF AdjustedRostersAreLegal
  <2>1. LegalAt(Turn(i), trial.done[i])
    BY DEF TrialInv, DoneIsLegal
  <2> QED
    BY <2>1 DEF LegalAt, Legal
<1> QED
  BY <1>1, TrialInvAlways, PTL

(* No player ends up on two of the rosters of a trade, whoever its teams take *)
(* from the waiver pool they share (adjust_trade, adjust_teams).              *)
THEOREM NobodyIsOnTwoRosters == Spec => []NobodyIsTakenTwice
<1>1. TrialInv => NobodyIsTakenTwice
  <2> SUFFICES ASSUME TrialInv, NEW i \in DOMAIN trial.done, NEW j \in DOMAIN trial.done, i # j
               PROVE  trial.done[i].players \cap trial.done[j].players = {}
    BY DEF NobodyIsTakenTwice, Disjoint
  <2>1. /\ request \in Requests /\ IsTransfer(trial.candidate)
        /\ i \in 1 .. Len(request.rosters) /\ j \in 1 .. Len(request.rosters)
    <3>1. /\ request \in Requests /\ trial.done \in Seq(Range(trial.done))
          /\ Len(trial.done) <= Len(request.rosters) /\ Len(request.rosters) \in Nat
      BY RequestType DEF TrialInv, TrialType
    <3>2. DOMAIN trial.done = 1 .. Len(trial.done) /\ Len(trial.done) \in Nat
      BY <3>1
    <3>3. trial.done # <<>>
      BY <3>1, <3>2
    <3> QED
      BY <3>1, <3>2, <3>3 DEF TrialInv, TrialIsTransfer
  <2>2. Turn(i) \in Teams(request) /\ Turn(j) \in Teams(request) /\ Turn(i) # Turn(j)
    BY <2>1, TurnsAreTeams
  <2>3. LegalAt(Turn(i), trial.done[i]) /\ LegalAt(Turn(j), trial.done[j])
    BY DEF TrialInv, DoneIsLegal
  <2>4. /\ trial.done[i].players \subseteq RawOf(Turn(i)) \cup trial.done[i].added
        /\ trial.done[j].players \subseteq RawOf(Turn(j)) \cup trial.done[j].added
        /\ trial.done[i].added \subseteq request.pool /\ trial.done[j].added \subseteq request.pool
    BY <2>3 DEF LegalAt, Legal
  <2>5. /\ request.pool \cap RawOf(Turn(i)) = {} /\ request.pool \cap RawOf(Turn(j)) = {}
        /\ RawOf(Turn(i)) \cap RawOf(Turn(j)) = {}
    BY <2>1, <2>2, RawType, RawsAreApart DEF Balanceable
  <2>6. trial.done[i].added \cap trial.done[j].added = {}
    BY DEF TrialInv, AddedApart
  <2> QED
    BY <2>4, <2>5, <2>6
<1> QED
  BY <1>1, TrialInvAlways, PTL

(* Together: every adjustment leaves rosters the host would accept.           *)
THEOREM EveryAdjustmentIsLegal == Spec => []AdjustmentsAreLegal
<1>1. AdjustedRostersAreLegal /\ NobodyIsTakenTwice => AdjustmentsAreLegal
  BY DEF AdjustmentsAreLegal
<1> QED
  BY <1>1, EveryAdjustedRosterIsLegal, NobodyIsOnTwoRosters, PTL

(* Sizes and counts are enough: of all transfers between the teams, those the   *)
(* space leaves out included, a team is admitted exactly if it can make room for *)
(* whom it receives.                                                             *)
THEOREM CountingIsExact == Spec => []PlansAreExact
<1>1. request \in Requests => PlansAreExact
  BY CountsDecide DEF PlansAreExact, Transfers
<1>2. TrialInv => request \in Requests
  BY DEF TrialInv
<1> QED
  BY <1>1, <1>2, TrialInvAlways, PTL

\* What becomes of a team that counting admitted.
Succeeds ==
  /\ trial' = [candidate |-> trial.candidate, done |-> trial'.done] /\ trial'.done # <<>>
  /\ verdict' = verdict /\ next' = next /\ phase' = "running"

RefusedForWaivers ==
  /\ trial' = NoTrial
  /\ verdict' = "waivers" /\ next' = next + 1 /\ phase' = "running"

LEMMA AdmittedOutcome ==
    ASSUME TrialInv, Adjust, IsAdmitted(trial.candidate, Turn(Len(trial.done) + 1))
    PROVE  Succeeds \/ RefusedForWaivers
<1> DEFINE t == Turn(Len(trial.done) + 1)
           before == request.rosters[t]
           sent == Range(Sent(trial.candidate, t))
           received == Range(Received(trial.candidate, t))
           pool == Available(trial.done)
<1>1. /\ request \in Requests /\ IsTransfer(trial.candidate)
      /\ Len(trial.done) + 1 \in 1 .. Len(request.rosters)
      /\ trial = [candidate |-> trial.candidate, done |-> trial.done]
      /\ trial.done \in Seq(Range(trial.done))
  <2>1. /\ request \in Requests /\ trial.done \in Seq(Range(trial.done))
        /\ Len(trial.done) < Len(request.rosters) /\ IsTransfer(trial.candidate)
        /\ trial = [candidate |-> trial.candidate, done |-> trial.done]
    BY DEF TrialInv, TrialType, TrialIsTransfer, Adjust
  <2>2. Len(trial.done) \in Nat /\ Len(request.rosters) \in Nat
    BY <2>1, RequestType
  <2> QED
    BY <2>1, <2>2
<1>2. t \in Teams(request) /\ request.rules.noDrops \in BOOLEAN
  BY <1>1, TurnsAreTeams, RequestType
<1>3. pool \in SUBSET request.pool
  BY DEF Available
<1>4. PICK o \in Balance(before, Placements, LineOf(t), RawOf(t), received, pool, request.rules.noDrops) :
        /\ trial' = IF o.how = "adjusted" THEN [trial EXCEPT !.done = Append(@, o)] ELSE NoTrial
        /\ verdict' = IF o.how = "adjusted" THEN verdict ELSE o.how
        /\ next' = IF o.how \in Refusals THEN next + 1 ELSE next
        /\ phase' = IF o.how = "overfull" THEN "failed" ELSE "running"
  BY DEF Adjust
<1>5. Admits(PlanOf(trial.candidate, t), request.rules.noDrops)
  BY DEF IsAdmitted
<1> HIDE DEF t, pool
<1>6. /\ Trading(before, Placements, LineOf(t), sent, received)
      /\ RawOf(t) = After(before, sent, received)
      /\ PlanOf(trial.candidate, t) = PlanFor(before, Placements, sent, received)
  BY <1>1, <1>2, TrialIsTrading
<1>7. Balanceable(before, Placements, LineOf(t), RawOf(t), received, pool)
  BY <1>1, <1>2, <1>3, RawType
<1> HIDE DEF before, sent, received
<1>8. o.how \in {"adjusted", "waivers"}
  BY <1>2, <1>4, <1>5, <1>6, <1>7, AdmittedIsAdjusted
<1>9. CASE o.how = "adjusted"
  <2>1. trial' = [candidate |-> trial.candidate, done |-> Append(trial.done, o)]
    BY <1>1, <1>4, <1>9
  <2>2. Append(trial.done, o) # <<>>
    BY <1>1
  <2>3. verdict' = verdict /\ next' = next /\ phase' = "running"
    BY <1>4, <1>9 DEF Refusals
  <2> QED
    BY <2>1, <2>2, <2>3 DEF Succeeds
<1>10. CASE o.how = "waivers"
  BY <1>4, <1>10 DEF RefusedForWaivers, Refusals
<1> QED
  BY <1>8, <1>9, <1>10

(* The adjustment of a team that counting admitted succeeds, unless it finds too *)
(* few players to add: it is never refused for drops and never raises an error.  *)
THEOREM AdmittedIsRefusedForWaiversOnly == Spec => AdmittedNeedOnlyWaivers
<1>1. TrialInv /\ [Next]_vars
        => [Adjust /\ IsAdmitted(trial.candidate, Turn(Len(trial.done) + 1))
              => phase' = "running" /\ verdict' \in {verdict, "waivers"}]_vars
  BY AdmittedOutcome DEF Succeeds, RefusedForWaivers
<1> QED
  BY <1>1, TrialInvAlways, PTL DEF Spec, AdmittedNeedOnlyWaivers

-----------------------------------------------------------------------------
(* Functions defined by recursion: TLA+ only chooses a function that solves  *)
(* the equation, so that there is one has to be proved.  It has one whenever   *)
(* every value looks at values of smaller rank only.  There is no operator to  *)
(* induct over here: the arguments go by a least counterexample.               *)

(* Of numbers that are natural there is a least. *)
LEMMA LeastNatural ==
  ASSUME NEW S, S \subseteq Nat, S # {}
  PROVE  \E n \in S : \A m \in S : n <= m
<1> DEFINE R == OpToRel(<, Nat)
<1>1. IsWellFoundedOn(R, Nat)
  BY NatLessThanWellFounded
<1>2. PICK n \in S : \A m \in S : ~(<<m, n>> \in R)
  <2> HIDE DEF R
  <2> QED BY <1>1, WFMin
<1>3. ASSUME NEW m \in S
      PROVE  n <= m
  <2>1. m \in Nat /\ n \in Nat
    BY <1>2
  <2>2. ~(m < n)
    BY <1>2, <2>1 DEF OpToRel
  <2> HIDE DEF R
  <2> QED BY <2>1, <2>2
<1> HIDE DEF R
<1> QED BY <1>3, <1>2

\* A definition whose value somewhere depends on values of smaller rank only.
LooksBelow(D, V, rank, Step) ==
  /\ rank \in [D -> Nat]
  /\ Step \in [D \X [D -> V] -> V]
  /\ \A x \in D, g, h \in [D -> V] :
       (\A y \in D : rank[y] < rank[x] => g[y] = h[y]) => Step[<<x, g>>] = Step[<<x, h>>]

SolvesBelow(D, rank, Step, g, n) == \A x \in D : rank[x] < n => g[x] = Step[<<x, g>>]

(* Two functions that solve it below a rank are the same there. *)
LEMMA RecursionAgrees ==
  ASSUME NEW D, NEW V, NEW rank, NEW Step, LooksBelow(D, V, rank, Step),
         NEW n \in Nat, NEW g \in [D -> V], NEW h \in [D -> V],
         SolvesBelow(D, rank, Step, g, n), SolvesBelow(D, rank, Step, h, n)
  PROVE  \A x \in D : rank[x] < n => g[x] = h[x]
<1> USE DEF LooksBelow, SolvesBelow
<1> SUFFICES ASSUME NEW z \in D, rank[z] < n, g[z] # h[z]
             PROVE  FALSE
  OBVIOUS
<1> DEFINE S == {rank[x] : x \in {x \in D : rank[x] < n /\ g[x] # h[x]}}
<1>1. S \subseteq Nat
  OBVIOUS
<1>a. rank[z] \in S
  OBVIOUS
<1>2. PICK m \in S : \A k \in S : m <= k
  <2> HIDE DEF S
  <2> QED BY <1>1, <1>a, LeastNatural
<1>3. PICK x \in D : rank[x] < n /\ g[x] # h[x] /\ m = rank[x]
  BY <1>2
<1>4. \A y \in D : rank[y] < rank[x] => g[y] = h[y]
  <2> SUFFICES ASSUME NEW y \in D, rank[y] < rank[x], g[y] # h[y]
               PROVE  FALSE
    OBVIOUS
  <2>1. rank[y] < n
    <3>1. rank[y] \in Nat /\ rank[x] \in Nat
      OBVIOUS
    <3> QED BY <3>1, <1>3
  <2>2. rank[y] \in S
    BY <2>1
  <2> QED
    <3>1. rank[y] \in Nat /\ rank[x] \in Nat
      OBVIOUS
    <3>2. m <= rank[y] /\ m = rank[x]
      BY <2>2, <1>2, <1>3
    <3> QED BY <3>1, <3>2
<1>5. Step[<<x, g>>] = Step[<<x, h>>]
  BY <1>4
<1> QED BY <1>5, <1>3

\* The functions that solve it.
Solutions(D, V, Step) == {f \in [D -> V] : \A x \in D : f[x] = Step[<<x, f>>]}

IsInhabited(V) == \E v : v \in V

(* There is a function that solves it: one that does below a rank is extended to the next. *)
LEMMA RecursionExists ==
  ASSUME NEW D, NEW V, IsInhabited(V), NEW rank, NEW Step, LooksBelow(D, V, rank, Step)
  PROVE  IsInhabited(Solutions(D, V, Step))
<1> USE DEF LooksBelow, IsInhabited
<1> DEFINE Good(n) == {g \in [D -> V] : \A x \in D : rank[x] < n => g[x] = Step[<<x, g>>]}
<1>1. \A n \in Nat : Good(n) # {}
  <2> DEFINE S == {n \in Nat : Good(n) = {}}
  <2> SUFFICES ASSUME S # {} PROVE FALSE
    OBVIOUS
  <2>1. PICK n \in S : \A k \in S : n <= k
    <3>1. S \subseteq Nat
      OBVIOUS
    <3> HIDE DEF S
    <3> QED BY <3>1, LeastNatural
  <2>2. CASE n = 0
    <3> PICK v \in V : TRUE
      OBVIOUS
    <3>1. [x \in D |-> v] \in Good(0)
      OBVIOUS
    <3> QED BY <3>1, <2>1, <2>2
  <2>3. CASE n # 0
    <3>1. n - 1 \in Nat /\ n - 1 \notin S
      <4>1. n \in Nat /\ n - 1 \in Nat /\ ~(n <= n - 1)
        BY <2>3
      <4> QED BY <4>1, <2>1
    <3>2. PICK g \in [D -> V] : \A x \in D : rank[x] < n - 1 => g[x] = Step[<<x, g>>]
      BY <3>1
    <3> DEFINE h == [x \in D |-> IF rank[x] < n - 1 THEN g[x] ELSE Step[<<x, g>>]]
    <3>3. h \in [D -> V]
      OBVIOUS
    <3>4. ASSUME NEW x \in D, rank[x] < n
          PROVE  h[x] = Step[<<x, h>>]
      <4>1. \A y \in D : rank[y] < rank[x] => g[y] = h[y]
        BY <3>4, <2>1, <3>1
      <4>2. Step[<<x, g>>] = Step[<<x, h>>]
        <5> HIDE DEF h
        <5> QED BY <4>1, <3>3
      <4> QED BY <4>2, <3>2
    <3>5. h \in Good(n)
      <4> HIDE DEF h
      <4> QED BY <3>3, <3>4
    <3> QED BY <3>5, <2>1
  <2> QED BY <2>2, <2>3
<1> DEFINE Pick(n) == CHOOSE g : g \in Good(n)
           f == [x \in D |-> Pick(rank[x] + 1)[x]]
<1>2. ASSUME NEW n \in Nat
      PROVE  /\ Pick(n) \in [D -> V]
             /\ \A x \in D : rank[x] < n => Pick(n)[x] = Step[<<x, Pick(n)>>]
  <2> DEFINE g == Pick(n)
  <2>1. g \in Good(n)
    <3>1. \E h : h \in Good(n)
      BY <1>1
    <3> HIDE DEF Good
    <3> QED BY <3>1
  <2> HIDE DEF g
  <2>2. g \in [D -> V] /\ \A x \in D : rank[x] < n => g[x] = Step[<<x, g>>]
    BY <2>1
  <2> USE DEF g
  <2> HIDE DEF Good
  <2> QED BY <2>2
<1> HIDE DEF Pick, Good
<1>3. ASSUME NEW x \in D
      PROVE  f[x] \in V /\ f[x] = Pick(rank[x] + 1)[x]
  <2>1. rank[x] + 1 \in Nat
    OBVIOUS
  <2> QED BY <2>1, <1>2
<1>4. f \in [D -> V]
  BY <1>3
<1> HIDE DEF f, IsInhabited
<1>5. ASSUME NEW x \in D
      PROVE  f[x] = Step[<<x, f>>]
  <2> DEFINE n == rank[x] + 1
             g == Pick(n)
  <2>1. n \in Nat /\ rank[x] \in Nat
    OBVIOUS
  <2>2. g \in [D -> V]
    BY <2>1, <1>2
  <2>3. \A y \in D : rank[y] < n => g[y] = Step[<<y, g>>]
    BY <2>1, <1>2
  <2>4. ASSUME NEW y \in D, rank[y] < rank[x]
        PROVE  f[y] = g[y]
    <3> DEFINE k == rank[y] + 1
               h == Pick(k)
    <3>1. k \in Nat /\ k < n /\ rank[y] < k /\ rank[y] \in Nat
      BY <2>4, <2>1
    <3>2. h \in [D -> V] /\ \A z \in D : rank[z] < k => h[z] = Step[<<z, h>>]
      BY <3>1, <1>2
    <3>3. f[y] = h[y]
      BY <1>3
    <3> HIDE DEF h, g, k, n
    <3>4. \A z \in D : rank[z] < k => g[z] = Step[<<z, g>>]
      <4> SUFFICES ASSUME NEW z \in D, rank[z] < k
                   PROVE  g[z] = Step[<<z, g>>]
        OBVIOUS
      <4>1. rank[z] \in Nat
        OBVIOUS
      <4>2. rank[z] < n
        BY ONLY <4>1, <3>1, <2>1, rank[z] < k
      <4> QED BY <4>2, <2>3
    <3>6. k \in Nat /\ h \in [D -> V] /\ g \in [D -> V]
      BY <3>1, <3>2, <2>2
    <3>5. \A z \in D : rank[z] < k => h[z] = g[z]
      <4>1. SolvesBelow(D, rank, Step, g, k) /\ SolvesBelow(D, rank, Step, h, k)
        BY <3>2, <3>4 DEF SolvesBelow
      <4> HIDE DEF LooksBelow
      <4> QED BY <4>1, <3>6, RecursionAgrees
    <3> QED BY <3>1, <3>3, <3>5
  <2>5. f[x] = g[x] /\ rank[x] < n
    BY <1>3, <2>1
  <2> HIDE DEF g, n
  <2>6. Step[<<x, g>>] = Step[<<x, f>>]
    BY <2>4, <2>2, <1>4
  <2> QED BY <2>5, <2>3, <2>6
<1>6. f \in Solutions(D, V, Step)
  BY <1>4, <1>5 DEF Solutions
<1> QED BY <1>6 DEF IsInhabited

\* How many players are still to be decided, and the body of the count (_count).
CountRank(decisions, s) == IF s.index > Len(decisions) THEN 0 ELSE Len(decisions) + 1 - s.index

CountBody(decisions, s, f) ==
        IF Impossible(request, decisions, s) THEN 0
        ELSE IF s.index > Len(decisions) THEN IF Complete(request, s) THEN 1 ELSE 0
        ELSE OverTeams([k \in 1 .. 3 |-> IF HasChild(request, decisions, s, k)
                                         THEN f[Child(request, decisions, s, k)] ELSE 0])

(* The count below a state is what _count adds up: natural, and the sum over its children. *)
LEMMA CountRecursion ==
    ASSUME NEW decisions, Len(decisions) \in Nat,
           \A s \in States(request), k \in 1 .. 3 :
             s.index <= Len(decisions) /\ HasChild(request, decisions, s, k) =>
               /\ Child(request, decisions, s, k) \in States(request)
               /\ Child(request, decisions, s, k).index = s.index + 1
    PROVE  /\ \A s \in States(request) : Below(request, decisions, s) \in Nat
           /\ \A s \in States(request) :
             Below(request, decisions, s) =
               IF Impossible(request, decisions, s) THEN 0
               ELSE IF s.index > Len(decisions) THEN IF Complete(request, s) THEN 1 ELSE 0
               ELSE OverTeams([k \in 1 .. 3 |-> IF HasChild(request, decisions, s, k)
                                 THEN Below(request, decisions, Child(request, decisions, s, k)) ELSE 0])
<1> DEFINE D == States(request)
           Def(f) == [s \in D |-> CountBody(decisions, s, f)]
           count == CHOOSE f : f = Def(f)
           rank == [s \in D |-> CountRank(decisions, s)]
           Step == [x \in D \X [D -> Nat] |-> CountBody(decisions, x[1], x[2])]
<1>1. \A s \in D : s.index \in Nat
  BY DEF States
<1>2. ASSUME NEW s \in D, NEW f \in [D -> Nat]
      PROVE  CountBody(decisions, s, f) \in Nat
  BY <1>1 DEF CountBody, OverTeams
<1>3. ASSUME NEW s \in D, NEW f \in [D -> Nat], NEW g \in [D -> Nat],
             \A y \in D : CountRank(decisions, y) < CountRank(decisions, s) => f[y] = g[y]
      PROVE  CountBody(decisions, s, f) = CountBody(decisions, s, g)
  <2>1. ASSUME s.index <= Len(decisions), NEW k \in 1 .. 3, HasChild(request, decisions, s, k)
        PROVE  f[Child(request, decisions, s, k)] = g[Child(request, decisions, s, k)]
    <3>1. /\ Child(request, decisions, s, k) \in D
          /\ Child(request, decisions, s, k).index = s.index + 1
      BY <2>1
    <3>2. s.index \in Nat
      BY <1>1
    <3> DEFINE y == Child(request, decisions, s, k)
    <3> HIDE DEF y
    <3>3. CountRank(decisions, y) < CountRank(decisions, s)
      BY <2>1, <3>1, <3>2 DEF CountRank, y
    <3> QED
      BY <3>1, <3>3, <1>3 DEF y
  <2> QED
    BY <2>1, <1>1, SMTT(40) DEF CountBody, OverTeams
<1>4. LooksBelow(D, Nat, rank, Step)
  <2>1. rank \in [D -> Nat]
    BY <1>1 DEF CountRank
  <2>2. Step \in [D \X [D -> Nat] -> Nat]
    BY <1>2
  <2>3. ASSUME NEW x \in D, NEW g \in [D -> Nat], NEW h \in [D -> Nat],
               \A y \in D : rank[y] < rank[x] => g[y] = h[y]
        PROVE  Step[<<x, g>>] = Step[<<x, h>>]
    <3> HIDE DEF D
    <3>1. \A y \in D : CountRank(decisions, y) < CountRank(decisions, x) => g[y] = h[y]
      BY <2>3
    <3>2. CountBody(decisions, x, g) = CountBody(decisions, x, h)
      BY <1>3, <3>1
    <3> QED
      BY <3>2
  <2> HIDE DEF D, Step, rank
  <2> QED BY <2>1, <2>2, <2>3 DEF LooksBelow
<1>5. \E f \in [D -> Nat] : f = Def(f)
  <2>1. PICK f \in [D -> Nat] : \A x \in D : f[x] = Step[<<x, f>>]
    <3> HIDE DEF D, rank, Step
    <3>1. IsInhabited(Nat)
      BY DEF IsInhabited
    <3>2. IsInhabited(Solutions(D, Nat, Step))
      BY <1>4, <3>1, RecursionExists
    <3> QED BY <3>2 DEF Solutions, IsInhabited
  <2>2. f = Def(f)
    BY <2>1
  <2> QED BY <2>2
<1>6. count = Def(count)
  <2> HIDE DEF Def, D
  <2>1. \E f : f = Def(f)
    BY <1>5
  <2> QED BY <2>1
<1>7. \A s \in D : Below(request, decisions, s) = count[s]
  BY DEF Below, CountBody
<1>8. \A s \in D : count[s] = CountBody(decisions, s, count)
  <2> HIDE DEF D, count
  <2> QED BY <1>6
<1> HIDE DEF count
<1>9. ASSUME NEW s \in D,
             \A y \in D : CountRank(decisions, y) < CountRank(decisions, s) => count[y] \in Nat
      PROVE  count[s] \in Nat
  <2>1. ASSUME s.index <= Len(decisions), NEW k \in 1 .. 3, HasChild(request, decisions, s, k)
        PROVE  count[Child(request, decisions, s, k)] \in Nat
    <3>1. /\ Child(request, decisions, s, k) \in D
          /\ Child(request, decisions, s, k).index = s.index + 1
      BY <2>1
    <3>2. s.index \in Nat
      BY <1>1
    <3> DEFINE y == Child(request, decisions, s, k)
    <3> HIDE DEF y
    <3>3. CountRank(decisions, y) < CountRank(decisions, s)
      BY <2>1, <3>1, <3>2 DEF CountRank, y
    <3> QED
      BY <3>1, <3>3, <1>9 DEF y
  <2>2. ASSUME NEW k \in 1 .. 3, ~(s.index > Len(decisions))
        PROVE  (IF HasChild(request, decisions, s, k) THEN count[Child(request, decisions, s, k)] ELSE 0) \in Nat
    <3>1. s.index <= Len(decisions)
      BY <2>2, <1>1
    <3> QED BY <3>1, <2>1
  <2>3. CountBody(decisions, s, count) \in Nat
    <3> HIDE DEF D
    <3> QED BY <2>2 DEF CountBody, OverTeams
  <2> QED BY <2>3, <1>8
<1>10. \A s \in D : count[s] \in Nat
  <2> SUFFICES ASSUME NEW s \in D, count[s] \notin Nat
               PROVE  FALSE
    OBVIOUS
  <2> DEFINE S == {CountRank(decisions, y) : y \in {y \in D : count[y] \notin Nat}}
  <2>1. \A y \in D : CountRank(decisions, y) \in Nat
    BY <1>1 DEF CountRank
  <2>2. S \subseteq Nat /\ S # {}
    BY <2>1
  <2>3. PICK n \in S : \A m \in S : n <= m
    <3> HIDE DEF S
    <3> QED BY <2>2, LeastNatural
  <2>4. PICK y \in D : count[y] \notin Nat /\ n = CountRank(decisions, y)
    OBVIOUS
  <2>5. \A z \in D : CountRank(decisions, z) < CountRank(decisions, y) => count[z] \in Nat
    <3> SUFFICES ASSUME NEW z \in D, CountRank(decisions, z) < CountRank(decisions, y), count[z] \notin Nat
                 PROVE  FALSE
      OBVIOUS
    <3>1. CountRank(decisions, z) \in S
      OBVIOUS
    <3> HIDE DEF S
    <3>2. n <= CountRank(decisions, z) /\ n \in Nat /\ CountRank(decisions, z) \in Nat
      BY <3>1, <2>1, <2>2, <2>3
    <3> QED BY <3>2, <2>4
  <2> QED BY <1>9, <2>4, <2>5
<1>11. ASSUME NEW s \in D, NEW k \in 1 .. 3, ~(s.index > Len(decisions)), HasChild(request, decisions, s, k)
      PROVE  count[Child(request, decisions, s, k)] = Below(request, decisions, Child(request, decisions, s, k))
  <2>1. Child(request, decisions, s, k) \in D
    BY <1>11, <1>1
  <2> QED BY <2>1, <1>7
<1> HIDE DEF D
<1>12. \A s \in D : Below(request, decisions, s) \in Nat
  BY <1>7, <1>10
<1>13. ASSUME NEW s \in D
       PROVE  Below(request, decisions, s) =
               IF Impossible(request, decisions, s) THEN 0
               ELSE IF s.index > Len(decisions) THEN IF Complete(request, s) THEN 1 ELSE 0
               ELSE OverTeams([k \in 1 .. 3 |-> IF HasChild(request, decisions, s, k)
                                 THEN Below(request, decisions, Child(request, decisions, s, k)) ELSE 0])
  <2>1. Below(request, decisions, s) = CountBody(decisions, s, count)
    BY <1>7, <1>8
  <2> QED BY <2>1, <1>11 DEF CountBody, OverTeams
<1> QED
  BY <1>12, <1>13 DEF D

\* How much is left to visit behind a frame, and the frames it goes on with (_iterate).
FrameRank(decisions, f) ==
  IF f.state.index > Len(decisions) THEN 0 ELSE 4 * (Len(decisions) + 1 - f.state.index) + (4 - f.place)

ChildFrame(decisions, f) ==
  [state |-> Child(request, decisions, f.state, f.place), place |-> 1, skip |-> f.skip,
   chosen |-> Append(f.chosen, Place[decisions[f.state.index].origin][f.place])]

RestFrame(f, skip) == [f EXCEPT !.place = @ + 1, !.skip = skip]

\* The body of the iterator.
PathsBody(decisions, f, iterate) ==
        LET child == Child(request, decisions, f.state, f.place)
            count == Below(request, decisions, child)
            to == Place[decisions[f.state.index].origin][f.place]
            Rest(skip) == iterate[[f EXCEPT !.place = @ + 1, !.skip = skip]]
        IN IF f.state.index > Len(decisions)
           THEN IF Complete(request, f.state) THEN <<f.chosen>> ELSE <<>>
           ELSE IF f.place = 4 THEN <<>>
           ELSE IF ~HasChild(request, decisions, f.state, f.place) THEN Rest(f.skip)
           ELSE IF f.skip >= count THEN Rest(f.skip - count)
           ELSE iterate[[state |-> child, place |-> 1, skip |-> f.skip, chosen |-> Append(f.chosen, to)]]
                  \o Rest(0)

(* Both frames that a frame goes on with are frames, and have less left to visit. *)
LEMMA FramesFollow ==
    ASSUME NEW decisions, Len(decisions) \in Nat,
           \A i \in 1 .. Len(decisions) : decisions[i].origin \in 1 .. 3,
           \A s \in States(request), k \in 1 .. 3 :
             s.index <= Len(decisions) /\ HasChild(request, decisions, s, k) =>
               /\ Child(request, decisions, s, k) \in States(request)
               /\ Child(request, decisions, s, k).index = s.index + 1,
           \A s \in States(request) : Below(request, decisions, s) \in Nat,
           NEW f \in Frames(request), f.state.index <= Len(decisions), f.place # 4
    PROVE  /\ f.place \in 1 .. 3 /\ f.skip \in Nat
           /\ \A n \in Nat : /\ RestFrame(f, n) \in Frames(request)
                             /\ FrameRank(decisions, RestFrame(f, n)) < FrameRank(decisions, f)
           /\ HasChild(request, decisions, f.state, f.place) =>
                /\ ChildFrame(decisions, f) \in Frames(request)
                /\ FrameRank(decisions, ChildFrame(decisions, f)) < FrameRank(decisions, f)
                /\ Below(request, decisions, Child(request, decisions, f.state, f.place)) \in Nat
<1>1. /\ f.state \in States(request) /\ f.place \in 1 .. 3 /\ f.skip \in Nat /\ f.chosen \in Seq(1 .. 3)
      /\ f = [state |-> f.state, place |-> f.place, skip |-> f.skip, chosen |-> f.chosen]
  BY DEF Frames
<1>2. f.state.index \in 1 .. Len(decisions) /\ f.state.index \in Nat
  BY <1>1 DEF States
<1>3. ASSUME NEW n \in Nat
      PROVE  /\ RestFrame(f, n) \in Frames(request)
             /\ RestFrame(f, n).state = f.state /\ RestFrame(f, n).place = f.place + 1
             /\ RestFrame(f, n).skip = n /\ RestFrame(f, n).chosen = f.chosen
  <2>1. RestFrame(f, n).state = f.state /\ RestFrame(f, n).place = f.place + 1
        /\ RestFrame(f, n).skip = n /\ RestFrame(f, n).chosen = f.chosen
    BY DEF Frames, RestFrame
  <2>2. f.place + 1 \in 1 .. 4
    BY <1>1
  <2>3. RestFrame(f, n) \in Frames(request)
    BY <2>2 DEF Frames, RestFrame
  <2> QED BY <2>1, <2>3
<1>4. ASSUME NEW n \in Nat
      PROVE  /\ RestFrame(f, n) \in Frames(request)
             /\ FrameRank(decisions, RestFrame(f, n)) < FrameRank(decisions, f)
  <2>1. RestFrame(f, n) \in Frames(request)
    BY <1>3
  <2>2. FrameRank(decisions, RestFrame(f, n)) < FrameRank(decisions, f)
    <3> DEFINE i == f.state.index
               m == Len(decisions)
    <3>1. FrameRank(decisions, f) = 4 * (m + 1 - i) + (4 - f.place)
      BY <1>2 DEF FrameRank
    <3>2. FrameRank(decisions, RestFrame(f, n)) = 4 * (m + 1 - i) + (4 - (f.place + 1))
      BY <1>2, <1>3 DEF FrameRank
    <3>3. i \in Nat /\ m \in Nat /\ f.place \in Nat
      BY <1>1, <1>2
    <3> HIDE DEF i, m
    <3> QED BY <3>1, <3>2, <3>3
  <2> QED BY <2>1, <2>2
<1>5. ASSUME HasChild(request, decisions, f.state, f.place)
      PROVE  /\ ChildFrame(decisions, f) \in Frames(request)
             /\ FrameRank(decisions, ChildFrame(decisions, f)) < FrameRank(decisions, f)
             /\ Below(request, decisions, Child(request, decisions, f.state, f.place)) \in Nat
  <2> DEFINE child == Child(request, decisions, f.state, f.place)
             to == Place[decisions[f.state.index].origin][f.place]
  <2>1. child \in States(request) /\ child.index = f.state.index + 1
    BY <1>1, <1>2, <1>5
  <2>2. to \in 1 .. 3
    <3>1. decisions[f.state.index].origin \in 1 .. 3
      BY <1>2
    <3> QED BY <1>1, <3>1 DEF Place
  <2>3. ChildFrame(decisions, f) = [state |-> child, place |-> 1, skip |-> f.skip, chosen |-> Append(f.chosen, to)]
    BY DEF ChildFrame
  <2> HIDE DEF child, to
  <2>4. Append(f.chosen, to) \in Seq(1 .. 3)
    BY <1>1, <2>2
  <2>5. ChildFrame(decisions, f) \in Frames(request)
    BY <1>1, <2>1, <2>3, <2>4 DEF Frames
  <2>6. FrameRank(decisions, ChildFrame(decisions, f)) < FrameRank(decisions, f)
    <3> DEFINE i == f.state.index
               n == Len(decisions)
    <3>1. FrameRank(decisions, f) = 4 * (n + 1 - i) + (4 - f.place)
      BY <1>2 DEF FrameRank
    <3>2. FrameRank(decisions, ChildFrame(decisions, f)) = IF i + 1 > n THEN 0 ELSE 4 * (n + 1 - (i + 1)) + 3
      BY <2>1, <2>3 DEF FrameRank
    <3>3. i \in Nat /\ i <= n /\ n \in Nat /\ f.place \in Nat /\ f.place < 4
      BY <1>1, <1>2
    <3> HIDE DEF i, n
    <3> QED BY <3>1, <3>2, <3>3
  <2>7. Below(request, decisions, child) \in Nat
    BY <2>1
  <2> QED BY <2>5, <2>6, <2>7 DEF child
<1> QED BY <1>1, <1>4, <1>5

\* A function that does what the iterator does in every frame.
Iterates(decisions, it) ==
  /\ \A n \in Nat : Paths(request, decisions, n) = it[[state |-> Start, place |-> 1, skip |-> n, chosen |-> <<>>]]
  /\ \A f \in Frames(request) : it[f] \in Seq(Seq(1 .. 3)) /\ it[f] = PathsBody(decisions, f, it)

(* There is one, and the iterator is what it does from the first frame. *)
LEMMA PathsRecursion ==
    ASSUME NEW decisions, Len(decisions) \in Nat,
           \A i \in 1 .. Len(decisions) : decisions[i].origin \in 1 .. 3,
           \A s \in States(request), k \in 1 .. 3 :
             s.index <= Len(decisions) /\ HasChild(request, decisions, s, k) =>
               /\ Child(request, decisions, s, k) \in States(request)
               /\ Child(request, decisions, s, k).index = s.index + 1
    PROVE  \E it : Iterates(decisions, it)
<1> DEFINE D == Frames(request)
           V == Seq(Seq(1 .. 3))
           Def(f) == [s \in D |-> PathsBody(decisions, s, f)]
           it == CHOOSE f : f = Def(f)
           rank == [s \in D |-> FrameRank(decisions, s)]
           Step == [x \in D \X [D -> V] |-> PathsBody(decisions, x[1], x[2])]
<1>0. \A s \in States(request) : Below(request, decisions, s) \in Nat
  BY CountRecursion
<1>1. ASSUME NEW f \in D
      PROVE  /\ f.state.index \in Nat
             /\ FrameRank(decisions, f) \in Nat
             /\ <<f.chosen>> \in V
             /\ f.place \in 1 .. 4 /\ f.skip \in Nat
  <2>1. f.state \in States(request) /\ f.chosen \in Seq(1 .. 3) /\ f.place \in 1 .. 4 /\ f.skip \in Nat
    BY DEF Frames
  <2>2. f.state.index \in Nat
    BY <2>1 DEF States
  <2>3. <<f.chosen>> \in V
    BY <2>1
  <2>4. FrameRank(decisions, f) \in Nat
    <3>1. \A n, i \in Nat, k \in 1 .. 4 : (IF i > n THEN 0 ELSE 4 * (n + 1 - i) + (4 - k)) \in Nat
      OBVIOUS
    <3> HIDE DEF D
    <3>2. (IF f.state.index > Len(decisions) THEN 0
             ELSE 4 * (Len(decisions) + 1 - f.state.index) + (4 - f.place)) \in Nat
      BY <2>1, <2>2, <3>1
    <3> QED BY <3>2 DEF FrameRank
  <2> QED BY <2>1, <2>2, <2>3, <2>4
<1>2. ASSUME NEW f \in D, f.state.index <= Len(decisions), f.place # 4
      PROVE  /\ f.place \in 1 .. 3 /\ f.skip \in Nat
             /\ \A n \in Nat : /\ RestFrame(f, n) \in D
                               /\ FrameRank(decisions, RestFrame(f, n)) < FrameRank(decisions, f)
             /\ HasChild(request, decisions, f.state, f.place) =>
                  /\ ChildFrame(decisions, f) \in D
                  /\ FrameRank(decisions, ChildFrame(decisions, f)) < FrameRank(decisions, f)
                  /\ Below(request, decisions, Child(request, decisions, f.state, f.place)) \in Nat
  BY <1>0, <1>2, FramesFollow
<1>3. \A f, it0 : PathsBody(decisions, f, it0) =
         IF f.state.index > Len(decisions)
           THEN IF Complete(request, f.state) THEN <<f.chosen>> ELSE <<>>
           ELSE IF f.place = 4 THEN <<>>
           ELSE IF ~HasChild(request, decisions, f.state, f.place) THEN it0[RestFrame(f, f.skip)]
           ELSE IF f.skip >= Below(request, decisions, Child(request, decisions, f.state, f.place))
           THEN it0[RestFrame(f, f.skip - Below(request, decisions, Child(request, decisions, f.state, f.place)))]
           ELSE it0[ChildFrame(decisions, f)] \o it0[RestFrame(f, 0)]
  BY DEF PathsBody, RestFrame, ChildFrame
<1>4. ASSUME NEW f \in D, NEW g \in [D -> V]
      PROVE  PathsBody(decisions, f, g) \in V
  <2>0. <<>> \in V
    OBVIOUS
  <2>1. CASE f.state.index > Len(decisions)
    <3> HIDE DEF V
    <3> QED BY <1>1, <1>3, <2>0, <2>1
  <2>2. CASE f.state.index <= Len(decisions) /\ f.place = 4
    <3>1. ~(f.state.index > Len(decisions))
      BY <1>1, <2>2
    <3> QED BY <1>3, <2>0, <2>2, <3>1
  <2>3. CASE f.state.index <= Len(decisions) /\ f.place # 4
    <3> DEFINE count == Below(request, decisions, Child(request, decisions, f.state, f.place))
    <3>0. ~(f.state.index > Len(decisions))
      BY <1>1, <2>3
    <3>1. \A n \in Nat : g[RestFrame(f, n)] \in V
      BY <1>2, <2>3
    <3>2. CASE ~HasChild(request, decisions, f.state, f.place)
      <4>1. PathsBody(decisions, f, g) = g[RestFrame(f, f.skip)]
        BY <1>3, <2>3, <3>0, <3>2
      <4> HIDE DEF V
      <4> QED BY <4>1, <3>1, <1>1
    <3>3. CASE HasChild(request, decisions, f.state, f.place)
      <4>1. count \in Nat /\ g[ChildFrame(decisions, f)] \in V
        BY <1>2, <2>3, <3>3
      <4>2. f.skip >= count => f.skip - count \in Nat
        BY <4>1, <1>1
      <4>3. g[ChildFrame(decisions, f)] \o g[RestFrame(f, 0)] \in V
        BY <4>1, <3>1
      <4>4. PathsBody(decisions, f, g) = IF f.skip >= count THEN g[RestFrame(f, f.skip - count)]
                                          ELSE g[ChildFrame(decisions, f)] \o g[RestFrame(f, 0)]
        BY <1>3, <2>3, <3>0, <3>3
      <4> HIDE DEF V, count
      <4> QED BY <4>2, <4>3, <4>4, <3>1
    <3> QED BY <3>2, <3>3
  <2> QED BY <1>1, <2>1, <2>2, <2>3
<1>5. ASSUME NEW f \in D, NEW g, NEW h,
             \A y \in D : FrameRank(decisions, y) < FrameRank(decisions, f) => g[y] = h[y]
      PROVE  PathsBody(decisions, f, g) = PathsBody(decisions, f, h)
  <2>1. CASE f.state.index > Len(decisions)
    BY <1>3, <2>1
  <2>2. CASE f.state.index <= Len(decisions) /\ f.place = 4
    BY <1>1, <1>3, <2>2
  <2>3. CASE f.state.index <= Len(decisions) /\ f.place # 4
    <3> DEFINE count == Below(request, decisions, Child(request, decisions, f.state, f.place))
    <3>0. ~(f.state.index > Len(decisions))
      BY <1>1, <2>3
    <3>1. \A n \in Nat : g[RestFrame(f, n)] = h[RestFrame(f, n)]
      BY <1>2, <1>5, <2>3
    <3>2. CASE ~HasChild(request, decisions, f.state, f.place)
      BY <1>1, <1>3, <2>3, <3>1, <3>2
    <3>3. CASE HasChild(request, decisions, f.state, f.place)
      <4>1. count \in Nat /\ g[ChildFrame(decisions, f)] = h[ChildFrame(decisions, f)]
        BY <1>2, <1>5, <2>3, <3>3
      <4>2. f.skip >= count => f.skip - count \in Nat
        BY <4>1, <1>1
      <4>4. \A it0 : PathsBody(decisions, f, it0)
                       = IF f.skip >= count THEN it0[RestFrame(f, f.skip - count)]
                         ELSE it0[ChildFrame(decisions, f)] \o it0[RestFrame(f, 0)]
        BY <1>3, <2>3, <3>0, <3>3
      <4> HIDE DEF count
      <4> QED BY <4>1, <4>2, <4>4, <3>1
    <3> QED BY <3>2, <3>3
  <2> QED BY <1>1, <2>1, <2>2, <2>3
<1>6. LooksBelow(D, V, rank, Step)
  <2>1. rank \in [D -> Nat]
    BY <1>1
  <2>2. Step \in [D \X [D -> V] -> V]
    <3> HIDE DEF V, D
    <3> QED BY <1>4
  <2>3. ASSUME NEW x \in D, NEW g \in [D -> V], NEW h \in [D -> V],
               \A y \in D : rank[y] < rank[x] => g[y] = h[y]
        PROVE  Step[<<x, g>>] = Step[<<x, h>>]
    <3> HIDE DEF D, V
    <3>1. \A y \in D : FrameRank(decisions, y) < FrameRank(decisions, x) => g[y] = h[y]
      BY <2>3
    <3>2. PathsBody(decisions, x, g) = PathsBody(decisions, x, h)
      BY <1>5, <3>1
    <3> QED
      BY <3>2
  <2> HIDE DEF D, V, Step, rank
  <2> QED BY <2>1, <2>2, <2>3 DEF LooksBelow
<1>7. \E f : f = Def(f)
  <2>1. IsInhabited(V)
    <3>1. <<>> \in V
      OBVIOUS
    <3> HIDE DEF V
    <3> QED BY <3>1 DEF IsInhabited
  <2> HIDE DEF V
  <2>2. PICK f \in [D -> V] : \A x \in D : f[x] = Step[<<x, f>>]
    <3> HIDE DEF D, rank, Step
    <3>1. IsInhabited(Solutions(D, V, Step))
      BY <1>6, <2>1, RecursionExists
    <3> QED BY <3>1 DEF Solutions, IsInhabited
  <2>3. f = Def(f)
    <3> HIDE DEF D
    <3> QED BY <2>2
  <2> QED BY <2>3
<1>8. it = Def(it)
  <2> HIDE DEF Def, D
  <2> QED BY <1>7
<1>9. ASSUME NEW n \in Nat
      PROVE  Paths(request, decisions, n) = it[[state |-> Start, place |-> 1, skip |-> n, chosen |-> <<>>]]
  BY DEF Paths, PathsBody
<1>10. \A f \in D : it[f] = PathsBody(decisions, f, it)
  <2> HIDE DEF D, it
  <2> QED BY <1>8
<1> HIDE DEF it
<1>11. \A f \in D : it[f] \in V
  <2> SUFFICES ASSUME NEW s \in D, it[s] \notin V
               PROVE  FALSE
    OBVIOUS
  <2> DEFINE S == {FrameRank(decisions, y) : y \in {y \in D : it[y] \notin V}}
  <2>1. \A y \in D : FrameRank(decisions, y) \in Nat
    BY <1>1
  <2> HIDE DEF D, V
  <2>2. S \subseteq Nat /\ S # {}
    BY <2>1
  <2>3. PICK n \in S : \A m \in S : n <= m
    <3> HIDE DEF S
    <3> QED BY <2>2, LeastNatural
  <2>4. PICK y \in D : it[y] \notin V /\ n = FrameRank(decisions, y)
    OBVIOUS
  <2>5. \A z \in D : FrameRank(decisions, z) < FrameRank(decisions, y) => it[z] \in V
    <3> SUFFICES ASSUME NEW z \in D, FrameRank(decisions, z) < FrameRank(decisions, y), it[z] \notin V
                 PROVE  FALSE
      OBVIOUS
    <3>1. FrameRank(decisions, z) \in S
      OBVIOUS
    <3> HIDE DEF S
    <3>2. n <= FrameRank(decisions, z) /\ n \in Nat /\ FrameRank(decisions, z) \in Nat
      BY <3>1, <2>1, <2>2, <2>3
    <3> QED BY <3>2, <2>4
  <2> DEFINE g == [z \in D |-> IF it[z] \in V THEN it[z] ELSE <<>>]
  <2>6. g \in [D -> V]
    <3>1. <<>> \in V
      BY DEF V
    <3> QED BY <3>1
  <2>7. \A z \in D : FrameRank(decisions, z) < FrameRank(decisions, y) => it[z] = g[z]
    BY <2>5
  <2> HIDE DEF g
  <2>8. PathsBody(decisions, y, g) \in V
    BY <1>4, <2>6
  <2>9. PathsBody(decisions, y, it) = PathsBody(decisions, y, g)
    BY <1>5, <2>7
  <2> QED BY <1>10, <2>4, <2>8, <2>9
<1> QED
  BY <1>9, <1>10, <1>11 DEF Iterates

-----------------------------------------------------------------------------
(* The decisions on the players of three teams.                            *)

\* A request among three teams.
AmongThree == request \in Requests /\ Len(request.rosters) = 3

\* Decisions on the players of some teams: each player has one, with its own team and where it may go.
Listing(list, teams) ==
  /\ list \in Seq(Range(list))
  /\ \A i \in DOMAIN list :
       /\ list[i].origin \in teams
       /\ list[i].player \in Owned(request.rosters[list[i].origin])
       /\ list[i].destinations = Destinations(request, list[i].origin, list[i].player)
  /\ \A i, j \in DOMAIN list : list[i].player = list[j].player => i = j
  /\ \A t \in teams : \A p \in Owned(request.rosters[t]) :
       \E i \in DOMAIN list : list[i].player = p /\ list[i].origin = t

(* The decisions on one team are a listing of it, and listings of different teams join to one. *)
LEMMA TeamIsListed ==
    ASSUME AmongThree, NEW t \in 1 .. 3
    PROVE  Listing(DecisionsOf(request, t), {t})
<1> DEFINE players == request.rosters[t].players
           list == DecisionsOf(request, t)
<1>1. players \in Seq(Owned(request.rosters[t])) /\ IsInjective(players)
  BY RequestType DEF AmongThree, IsRoster
<1>2. Owned(request.rosters[t]) = {players[i] : i \in DOMAIN players}
  BY DEF Owned, Range
<1>3. /\ DOMAIN list = DOMAIN players
      /\ \A i \in DOMAIN list : /\ list[i].player = players[i]
                                /\ list[i].origin = t
                                /\ list[i].destinations = Destinations(request, t, players[i])
  BY DEF DecisionsOf
<1>4. list \in Seq(Range(list))
  <2>1. DOMAIN players = 1 .. Len(players) /\ Len(players) \in Nat
    BY <1>1
  <2>2. list = [i \in 1 .. Len(players) |-> list[i]]
    BY <1>3, <2>1 DEF DecisionsOf
  <2>3. \A i \in 1 .. Len(players) : list[i] \in Range(list)
    BY <1>3, <2>1 DEF Range
  <2> HIDE DEF list, players
  <2> QED BY <2>1, <2>2, <2>3
<1> HIDE DEF list, players
<1>5. \A i, j \in DOMAIN list : list[i].player = list[j].player => i = j
  BY <1>1, <1>3 DEF IsInjective
<1>6. \A p \in Owned(request.rosters[t]) : \E i \in DOMAIN list : list[i].player = p /\ list[i].origin = t
  BY <1>2, <1>3
<1>7. \A i \in DOMAIN list :
       /\ list[i].origin \in {t}
       /\ list[i].player \in Owned(request.rosters[list[i].origin])
       /\ list[i].destinations = Destinations(request, list[i].origin, list[i].player)
  BY <1>2, <1>3
<1> QED BY <1>4, <1>5, <1>6, <1>7 DEF Listing, list

LEMMA ListingsJoin ==
    ASSUME AmongThree, NEW a, NEW b, NEW T \in SUBSET (1 .. 3), NEW U \in SUBSET (1 .. 3),
           Listing(a, T), Listing(b, U), T \cap U = {}
    PROVE  Listing(a \o b, T \cup U)
<1> DEFINE j == a \o b
<1>1. a \in Seq(Range(a) \cup Range(b)) /\ b \in Seq(Range(a) \cup Range(b))
  BY SeqMonotonic DEF Listing
<1>2. /\ j \in Seq(Range(a) \cup Range(b))
      /\ DOMAIN j = 1 .. Len(a) + Len(b)
      /\ DOMAIN a = 1 .. Len(a) /\ DOMAIN b = 1 .. Len(b)
      /\ Len(a) \in Nat /\ Len(b) \in Nat
      /\ \A i \in 1 .. Len(a) + Len(b) : j[i] = IF i <= Len(a) THEN a[i] ELSE b[i - Len(a)]
  BY <1>1
<1>3. j \in Seq(Range(j))
  BY <1>2, SeqOfItsRange
<1>4. \A i \in DOMAIN j : \/ i \in DOMAIN a /\ j[i] = a[i]
                          \/ i - Len(a) \in DOMAIN b /\ j[i] = b[i - Len(a)] /\ i \notin DOMAIN a
  BY <1>2
<1>5. /\ \A i \in DOMAIN a : i \in DOMAIN j /\ j[i] = a[i]
      /\ \A i \in DOMAIN b : i + Len(a) \in DOMAIN j /\ j[i + Len(a)] = b[i]
  BY <1>2
<1>6. \A i \in DOMAIN a, k \in DOMAIN b : a[i].player # b[k].player
  <2>1. \A t, u \in 1 .. 3 : t # u => Owned(request.rosters[t]) \cap Owned(request.rosters[u]) = {}
    BY RequestType DEF AmongThree
  <2>2. ASSUME NEW i \in DOMAIN a, NEW k \in DOMAIN b, a[i].player = b[k].player
        PROVE  FALSE
    <3>1. a[i].origin \in T /\ a[i].player \in Owned(request.rosters[a[i].origin])
      BY DEF Listing
    <3>2. b[k].origin \in U /\ b[k].player \in Owned(request.rosters[b[k].origin])
      BY DEF Listing
    <3>3. a[i].origin \in 1 .. 3 /\ b[k].origin \in 1 .. 3 /\ a[i].origin # b[k].origin
      BY <3>1, <3>2
    <3> QED BY <2>1, <2>2, <3>1, <3>2, <3>3
  <2> QED BY <2>2
<1> HIDE DEF j
<1>7. \A i \in DOMAIN j :
       /\ j[i].origin \in T \cup U
       /\ j[i].player \in Owned(request.rosters[j[i].origin])
       /\ j[i].destinations = Destinations(request, j[i].origin, j[i].player)
  BY <1>4 DEF Listing
<1>8. \A i, k \in DOMAIN j : j[i].player = j[k].player => i = k
  <2> SUFFICES ASSUME NEW i \in DOMAIN j, NEW k \in DOMAIN j, j[i].player = j[k].player
               PROVE  i = k
    OBVIOUS
  <2>1. i \in DOMAIN a /\ k \in DOMAIN a => i = k
    BY <1>5 DEF Listing
  <2>2. i \in DOMAIN a <=> k \in DOMAIN a
    BY <1>4, <1>6
  <2>3. i \notin DOMAIN a /\ k \notin DOMAIN a => i - Len(a) = k - Len(a)
    BY <1>4 DEF Listing
  <2>4. i \in Int /\ k \in Int /\ Len(a) \in Int
    BY <1>2
  <2>5. i - Len(a) = k - Len(a) => i = k
    BY <2>4
  <2> QED BY <2>1, <2>2, <2>3, <2>5
<1>9. ASSUME NEW t \in T \cup U, NEW p \in Owned(request.rosters[t])
      PROVE  \E i \in DOMAIN j : j[i].player = p /\ j[i].origin = t
  <2>1. CASE t \in T
    <3>0. p \in Owned(request.rosters[t]) /\ t \in T
      BY <2>1
    <3>1. PICK i \in DOMAIN a : a[i].player = p /\ a[i].origin = t
      <4>1. \A u \in T : \A q \in Owned(request.rosters[u]) : \E i \in DOMAIN a : a[i].player = q /\ a[i].origin = u
        BY DEF Listing
      <4> QED BY <3>0, <4>1
    <3> QED BY <3>1, <1>5
  <2>2. CASE t \in U
    <3>1. PICK i \in DOMAIN b : b[i].player = p /\ b[i].origin = t
      BY <2>2 DEF Listing
    <3> QED BY <3>1, <1>5
  <2> QED BY <2>1, <2>2
<1> QED BY <1>3, <1>7, <1>8, <1>9 DEF Listing, j

\* The decisions of the request, and a choice among them for its first players.
Ds == Decisions(request)

(* Every player of the three teams is decided on once, at the team he is from. *)
LEMMA DecisionsType ==
    ASSUME AmongThree
    PROVE  /\ Len(Ds) \in Nat /\ DOMAIN Ds = 1 .. Len(Ds)
           /\ \A i \in 1 .. Len(Ds) :
                /\ Ds[i].origin \in 1 .. 3
                /\ Ds[i].player \in Owned(request.rosters[Ds[i].origin])
                /\ Ds[i].destinations = Destinations(request, Ds[i].origin, Ds[i].player)
                /\ \A t \in 1 .. 3 : Ds[i].player \in Owned(request.rosters[t]) <=> t = Ds[i].origin
           /\ \A i, j \in 1 .. Len(Ds) : Ds[i].player = Ds[j].player => i = j
           /\ \A t \in 1 .. 3 : \A p \in Owned(request.rosters[t]) :
                \E i \in 1 .. Len(Ds) : Ds[i].player = p /\ Ds[i].origin = t
<1>1. /\ Listing(DecisionsOf(request, 1), {1})
      /\ Listing(DecisionsOf(request, 2), {2})
      /\ Listing(DecisionsOf(request, 3), {3})
  BY TeamIsListed
<1>2. Listing(DecisionsOf(request, 1) \o DecisionsOf(request, 2), {1} \cup {2})
  BY <1>1, ListingsJoin
<1>3. Listing((DecisionsOf(request, 1) \o DecisionsOf(request, 2)) \o DecisionsOf(request, 3), ({1} \cup {2}) \cup {3})
  BY <1>1, <1>2, ListingsJoin
<1>4. Listing(Ds, 1 .. 3)
  <2>1. ({1} \cup {2}) \cup {3} = 1 .. 3
    OBVIOUS
  <2> QED BY <1>3, <2>1 DEF Ds, Decisions
<1>5. \A t, u \in 1 .. 3 : t # u => Owned(request.rosters[t]) \cap Owned(request.rosters[u]) = {}
  BY RequestType DEF AmongThree
<1>6. Len(Ds) \in Nat /\ DOMAIN Ds = 1 .. Len(Ds)
  BY <1>4 DEF Listing
<1> QED BY <1>4, <1>5, <1>6 DEF Listing

-----------------------------------------------------------------------------
(* A path: destinations chosen for the first players.  What _advance makes  *)
(* of them, step by step, is what can be read off the choices themselves.      *)

\* Choices the decisions allow; who leaves a team by them, and who comes to it.
IsPath(c) ==
  /\ c \in Seq(1 .. 3) /\ Len(c) <= Len(Ds)
  /\ \A i \in 1 .. Len(c) : c[i] \in Ds[i].destinations

Leaving(c, t) == {Ds[i].player : i \in {i \in 1 .. Len(c) : Ds[i].origin = t /\ c[i] # t}}

Arriving(c, t) == {Ds[i].player : i \in {i \in 1 .. Len(c) : Ds[i].origin # t /\ c[i] = t}}

\* The state the first players' choices lead to.
Reach(c) ==
  [index |-> Len(c) + 1,
   outgoing |-> [t \in 1 .. 3 |-> Cardinality(Leaving(c, t))],
   incoming |-> [t \in 1 .. 3 |-> Cardinality(Arriving(c, t))],
   outReserve |-> [t \in 1 .. 3 |-> Signature(Leaving(c, t), Placements)],
   inReserve |-> [t \in 1 .. 3 |-> Signature(Arriving(c, t), Placements)],
   outMask |-> UNION {Evidence(request, "outgoing", p) : p \in Leaving(c, 1)},
   inMask |-> UNION {Evidence(request, "incoming", p) : p \in Arriving(c, 1)}]

(* An image of a finite set is no larger. *)
LEMMA ImageIsSmaller ==
    ASSUME NEW S, IsFiniteSet(S), NEW f, DOMAIN f = S
    PROVE  /\ IsFiniteSet({f[i] : i \in S}) /\ Cardinality({f[i] : i \in S}) \in Nat
           /\ Cardinality({f[i] : i \in S}) <= Cardinality(S)
<1> DEFINE g == [i \in S |-> f[i]]
           T == {f[i] : i \in S}
<1>1. g \in Surjection(S, T)
  BY DEF Surjection
<1> HIDE DEF g, T
<1>2. IsFiniteSet(T) /\ Cardinality(T) <= Cardinality(S)
  BY <1>1, FS_Surjection
<1> QED BY <1>2, FS_CardinalityType DEF T

(* Those who leave a team were its players, those who come to it were players of others. *)
LEMMA MoversType ==
    ASSUME AmongThree, NEW c \in Seq(1 .. 3), Len(c) <= Len(Ds), NEW t \in 1 .. 3
    PROVE  /\ Len(c) \in Nat /\ Len(Ds) \in Nat
           /\ IsFiniteSet(Leaving(c, t)) /\ IsFiniteSet(Arriving(c, t))
           /\ Cardinality(Leaving(c, t)) \in Nat /\ Cardinality(Arriving(c, t)) \in Nat
           /\ Leaving(c, t) \subseteq Owned(request.rosters[t])
           /\ Arriving(c, t) \cap Owned(request.rosters[t]) = {}
           /\ Arriving(c, t) \subseteq UNION {Owned(request.rosters[u]) : u \in 1 .. 3}
<1>1. Len(c) \in Nat /\ Len(Ds) \in Nat
  BY DecisionsType
<1>2. \A i \in 1 .. Len(c) : i \in 1 .. Len(Ds)
  BY <1>1
<1>3. ASSUME NEW S, S \subseteq 1 .. Len(c)
      PROVE  IsFiniteSet({Ds[i].player : i \in S})
  <2>1. IsFiniteSet(1 .. Len(c))
    BY <1>1, FS_Interval
  <2>2. IsFiniteSet(S)
    BY <1>3, <2>1, FS_Subset
  <2> DEFINE f == [i \in S |-> Ds[i].player]
  <2>3. {f[i] : i \in S} = {Ds[i].player : i \in S}
    OBVIOUS
  <2>4. DOMAIN f = S
    OBVIOUS
  <2> HIDE DEF f
  <2>5. IsFiniteSet({f[i] : i \in S})
    BY <2>2, <2>4, ImageIsSmaller
  <2> QED BY <2>3, <2>5
<1>4. IsFiniteSet(Leaving(c, t)) /\ IsFiniteSet(Arriving(c, t))
  <2> DEFINE A == {i \in 1 .. Len(c) : Ds[i].origin = t /\ c[i] # t}
             B == {i \in 1 .. Len(c) : Ds[i].origin # t /\ c[i] = t}
  <2>1. A \subseteq 1 .. Len(c) /\ B \subseteq 1 .. Len(c)
    OBVIOUS
  <2>2. Leaving(c, t) = {Ds[i].player : i \in A} /\ Arriving(c, t) = {Ds[i].player : i \in B}
    BY DEF Leaving, Arriving
  <2> HIDE DEF A, B
  <2>3. IsFiniteSet({Ds[i].player : i \in A}) /\ IsFiniteSet({Ds[i].player : i \in B})
    BY <2>1, <1>3
  <2> QED BY <2>2, <2>3
<1>5. Cardinality(Leaving(c, t)) \in Nat /\ Cardinality(Arriving(c, t)) \in Nat
  BY <1>4, FS_CardinalityType
<1>6. \A i \in 1 .. Len(c) :
        /\ Ds[i].origin \in 1 .. 3
        /\ \A u \in 1 .. 3 : Ds[i].player \in Owned(request.rosters[u]) <=> u = Ds[i].origin
  BY <1>2, DecisionsType
<1>7. Leaving(c, t) \subseteq Owned(request.rosters[t])
  BY <1>6 DEF Leaving
<1>8. Arriving(c, t) \cap Owned(request.rosters[t]) = {}
  BY <1>6 DEF Arriving
<1>9. Arriving(c, t) \subseteq UNION {Owned(request.rosters[u]) : u \in 1 .. 3}
  BY <1>6 DEF Arriving
<1> QED BY <1>1, <1>4, <1>5, <1>7, <1>8, <1>9

(* What one more choice adds to the players who move. *)
LEMMA OneMoves ==
    ASSUME AmongThree, NEW c \in Seq(1 .. 3), Len(c) < Len(Ds), NEW to \in 1 .. 3, NEW t \in 1 .. 3
    PROVE  LET d == Ds[Len(c) + 1]
           IN /\ Leaving(Append(c, to), t) =
                   Leaving(c, t) \cup IF d.origin = t /\ to # t THEN {d.player} ELSE {}
              /\ Arriving(Append(c, to), t) =
                   Arriving(c, t) \cup IF d.origin # t /\ to = t THEN {d.player} ELSE {}
              /\ d.player \notin Leaving(c, t) /\ d.player \notin Arriving(c, t)
<1> DEFINE n == Len(c)
           e == Append(c, to)
<1>1. n \in Nat /\ Len(Ds) \in Nat /\ n + 1 \in 1 .. Len(Ds)
  BY DecisionsType
<1>2. Len(e) = n + 1 /\ e[n + 1] = to /\ \A i \in 1 .. n : e[i] = c[i]
  OBVIOUS
<1>3. 1 .. Len(e) = (1 .. n) \cup {n + 1} /\ n + 1 \notin 1 .. n
  BY <1>1, <1>2
<1> HIDE DEF n, e
<1>4. {i \in 1 .. Len(e) : Ds[i].origin = t /\ e[i] # t}
        = {i \in 1 .. n : Ds[i].origin = t /\ c[i] # t} \cup IF Ds[n + 1].origin = t /\ to # t THEN {n + 1} ELSE {}
  BY <1>2, <1>3
<1>5. {i \in 1 .. Len(e) : Ds[i].origin # t /\ e[i] = t}
        = {i \in 1 .. n : Ds[i].origin # t /\ c[i] = t} \cup IF Ds[n + 1].origin # t /\ to = t THEN {n + 1} ELSE {}
  BY <1>2, <1>3
<1>6. \A S : {Ds[i].player : i \in S \cup {n + 1}} = {Ds[i].player : i \in S} \cup {Ds[n + 1].player}
  OBVIOUS
<1>7. Leaving(e, t) = {Ds[i].player : i \in {i \in 1 .. n : Ds[i].origin = t /\ c[i] # t}}
                         \cup IF Ds[n + 1].origin = t /\ to # t THEN {Ds[n + 1].player} ELSE {}
  BY <1>4, <1>6 DEF Leaving
<1>8. Arriving(e, t) = {Ds[i].player : i \in {i \in 1 .. n : Ds[i].origin # t /\ c[i] = t}}
                         \cup IF Ds[n + 1].origin # t /\ to = t THEN {Ds[n + 1].player} ELSE {}
  BY <1>5, <1>6 DEF Arriving
<1>9. \A i \in 1 .. n : i \in 1 .. Len(Ds) /\ i # n + 1
  BY <1>1
<1>10. \A i \in 1 .. n : Ds[i].player # Ds[n + 1].player
  BY <1>1, <1>9, DecisionsType
<1> QED BY <1>7, <1>8, <1>10 DEF Leaving, Arriving, n, e

\* What a player of a team adds to the reserve players of a set.
Grows(S, t, p) ==
  /\ Signature(S \cup {p}, Placements)
       = [k \in Kinds |-> Signature(S, Placements)[k] + Signature({p}, request.rosters[t].kindOf)[k]]
  /\ Signature({p}, request.rosters[t].kindOf) \in [Kinds -> Nat]

(* A further player of a team adds his own slot, as the moves count it. *)
LEMMA SignatureGrows ==
    ASSUME AmongThree, NEW S, IsFiniteSet(S), NEW t \in 1 .. 3,
           NEW p, p \in Owned(request.rosters[t]), p \notin S
    PROVE  Grows(S, t, p)
<1>1. ASSUME NEW k \in Kinds
      PROVE  /\ OfKind(Placements, S \cup {p}, k) = OfKind(Placements, S, k) \cup OfKind(request.rosters[t].kindOf, {p}, k)
             /\ OfKind(Placements, S, k) \cap OfKind(request.rosters[t].kindOf, {p}, k) = {}
             /\ IsFiniteSet(OfKind(Placements, S, k)) /\ IsFiniteSet(OfKind(request.rosters[t].kindOf, {p}, k))
  <2>1. OfKind(Placements, Owned(request.rosters[t]), k) = OfKind(request.rosters[t].kindOf, Owned(request.rosters[t]), k)
    BY PlacedAsBefore, RequestType DEF AmongThree
  <2>2. OfKind(Placements, {p}, k) = OfKind(request.rosters[t].kindOf, {p}, k)
    <3>1. \A f : OfKind(f, {p}, k) = {p} \cap OfKind(f, Owned(request.rosters[t]), k)
      BY DEF OfKind
    <3> QED BY <2>1, <3>1
  <2>3. OfKind(Placements, S \cup {p}, k) = OfKind(Placements, S, k) \cup OfKind(Placements, {p}, k)
    BY DEF OfKind
  <2>4. OfKind(Placements, S, k) \subseteq S /\ OfKind(Placements, {p}, k) \subseteq {p}
    BY DEF OfKind
  <2>5. IsFiniteSet(OfKind(Placements, S, k)) /\ IsFiniteSet(OfKind(Placements, {p}, k))
    BY <2>4, FS_Subset, FS_Singleton
  <2> QED BY <2>2, <2>3, <2>4, <2>5
<1>2. ASSUME NEW k \in Kinds
      PROVE  /\ Cardinality(OfKind(Placements, S \cup {p}, k))
                 = Cardinality(OfKind(Placements, S, k)) + Cardinality(OfKind(request.rosters[t].kindOf, {p}, k))
             /\ Cardinality(OfKind(Placements, S, k)) \in Nat
             /\ Cardinality(OfKind(request.rosters[t].kindOf, {p}, k)) \in Nat
  BY <1>1, UnionOfApart, FS_CardinalityType
<1> QED BY <1>2 DEF Signature, Grows

(* What a path leads to is a state. *)
LEMMA ReachType ==
    ASSUME AmongThree, NEW c \in Seq(1 .. 3), Len(c) <= Len(Ds)
    PROVE  Reach(c) \in States(request)
<1>1. \A t \in 1 .. 3 :
        /\ IsFiniteSet(Leaving(c, t)) /\ IsFiniteSet(Arriving(c, t))
        /\ Cardinality(Leaving(c, t)) \in Nat /\ Cardinality(Arriving(c, t)) \in Nat
  BY MoversType
<1>2. ASSUME NEW S, IsFiniteSet(S)
      PROVE  Signature(S, Placements) \in [Kinds -> Nat]
  <2>1. ASSUME NEW k \in Kinds
        PROVE  Cardinality(OfKind(Placements, S, k)) \in Nat
    <3>1. OfKind(Placements, S, k) \subseteq S
      BY DEF OfKind
    <3> QED BY <1>2, <3>1, FS_Subset, FS_CardinalityType
  <2> QED BY <2>1 DEF Signature
<1>3. Leaving(c, 1) \subseteq Universe(request, "outgoing")
  BY MoversType DEF Universe
<1>4. Arriving(c, 1) \subseteq Universe(request, "incoming")
  <2>1. /\ Arriving(c, 1) \cap Owned(request.rosters[1]) = {}
        /\ Arriving(c, 1) \subseteq UNION {Owned(request.rosters[u]) : u \in 1 .. 3}
    BY MoversType
  <2> QED BY <2>1 DEF Universe
<1>5. Len(c) + 1 \in Nat \ {0}
  OBVIOUS
<1>6. UNION {Evidence(request, "outgoing", p) : p \in Leaving(c, 1)}
        \subseteq UNION {Evidence(request, "outgoing", p) : p \in Universe(request, "outgoing")}
  BY <1>3
<1>7. UNION {Evidence(request, "incoming", p) : p \in Arriving(c, 1)}
        \subseteq UNION {Evidence(request, "incoming", p) : p \in Universe(request, "incoming")}
  BY <1>4
<1> QED BY <1>1, <1>2, <1>5, <1>6, <1>7 DEF Reach, States

(* A player who stays changes the index only. *)
LEMMA OnlyTheIndex ==
    ASSUME NEW s \in States(request)
    PROVE  /\ [s EXCEPT !.index = @ + 1] =
                [index |-> s.index + 1, outgoing |-> s.outgoing, incoming |-> s.incoming,
                 outReserve |-> s.outReserve, inReserve |-> s.inReserve,
                 outMask |-> s.outMask, inMask |-> s.inMask]
           /\ s.index \in Nat
           /\ [s EXCEPT !.index = @ + 1] \in States(request)
           /\ [s EXCEPT !.index = @ + 1].index = s.index + 1
<1>1. s.index \in Nat \ {0}
  BY DEF States
<1>2. s.index + 1 \in Nat \ {0}
  BY <1>1
<1> QED BY <1>1, <1>2 DEF States

(* _advance leads from a path to the path with one more choice. *)
LEMMA ReachAdvances ==
    ASSUME AmongThree, NEW c \in Seq(1 .. 3), Len(c) < Len(Ds), NEW to \in 1 .. 3
    PROVE  Advance(request, Reach(c), Ds[Len(c) + 1], to) = Reach(Append(c, to))
<1> DEFINE d == Ds[Len(c) + 1]
           e == Append(c, to)
           own == d.origin
           p == d.player
           mark == Signature({p}, request.rosters[own].kindOf)
<1>1. Len(c) \in Nat /\ Len(Ds) \in Nat /\ Len(c) + 1 \in 1 .. Len(Ds) /\ Len(c) <= Len(Ds)
  BY DecisionsType
<1>2. own \in 1 .. 3 /\ p \in Owned(request.rosters[own])
  BY <1>1, DecisionsType
<1>3. Len(e) = Len(c) + 1
  OBVIOUS
<1>4. \A t \in 1 .. 3 :
        /\ Leaving(e, t) = Leaving(c, t) \cup IF own = t /\ to # t THEN {p} ELSE {}
        /\ Arriving(e, t) = Arriving(c, t) \cup IF own # t /\ to = t THEN {p} ELSE {}
        /\ p \notin Leaving(c, t) /\ p \notin Arriving(c, t)
  BY OneMoves
<1>5. \A t \in 1 .. 3 :
        /\ IsFiniteSet(Leaving(c, t)) /\ IsFiniteSet(Arriving(c, t))
        /\ Cardinality(Leaving(c, t)) \in Nat /\ Cardinality(Arriving(c, t)) \in Nat
  BY <1>1, MoversType
<1> HIDE DEF d, e, own, p
<1>6. CASE to = own
  <2>1. \A t \in 1 .. 3 : Leaving(e, t) = Leaving(c, t) /\ Arriving(e, t) = Arriving(c, t)
    BY <1>4, <1>6
  <2>2. Advance(request, Reach(c), d, to) = [Reach(c) EXCEPT !.index = @ + 1]
    BY <1>6 DEF Advance, own
  <2> DEFINE s == Reach(c)
  <2>3. s \in States(request)
    BY <1>1, ReachType
  <2>4. s.index = Len(c) + 1
    BY DEF Reach
  <2>5. Reach(e) = [index |-> s.index + 1, outgoing |-> s.outgoing, incoming |-> s.incoming,
                    outReserve |-> s.outReserve, inReserve |-> s.inReserve,
                    outMask |-> s.outMask, inMask |-> s.inMask]
    <3>1. /\ [t \in 1 .. 3 |-> Cardinality(Leaving(e, t))] = [t \in 1 .. 3 |-> Cardinality(Leaving(c, t))]
          /\ [t \in 1 .. 3 |-> Cardinality(Arriving(e, t))] = [t \in 1 .. 3 |-> Cardinality(Arriving(c, t))]
          /\ [t \in 1 .. 3 |-> Signature(Leaving(e, t), Placements)] = [t \in 1 .. 3 |-> Signature(Leaving(c, t), Placements)]
          /\ [t \in 1 .. 3 |-> Signature(Arriving(e, t), Placements)] = [t \in 1 .. 3 |-> Signature(Arriving(c, t), Placements)]
          /\ Leaving(e, 1) = Leaving(c, 1) /\ Arriving(e, 1) = Arriving(c, 1)
      BY <2>1
    <3>2. Len(e) + 1 = s.index + 1
      BY <1>3, <2>4
    <3> QED BY <3>1, <3>2 DEF Reach
  <2> HIDE DEF s
  <2>6. Reach(e) = [s EXCEPT !.index = @ + 1]
    BY <2>3, <2>5, OnlyTheIndex
  <2> QED BY <2>2, <2>6 DEF d, e, s
<1>7. CASE to # own
  <2> DEFINE s == Reach(c)
             Add(signature) == [k \in Kinds |-> signature[k] + mark[k]]
  <2>0. /\ Len(e) + 1 = s.index + 1
        /\ s.outgoing = [t \in 1 .. 3 |-> Cardinality(Leaving(c, t))]
        /\ s.incoming = [t \in 1 .. 3 |-> Cardinality(Arriving(c, t))]
        /\ s.outReserve = [t \in 1 .. 3 |-> Signature(Leaving(c, t), Placements)]
        /\ s.inReserve = [t \in 1 .. 3 |-> Signature(Arriving(c, t), Placements)]
        /\ s.outMask = UNION {Evidence(request, "outgoing", q) : q \in Leaving(c, 1)}
        /\ s.inMask = UNION {Evidence(request, "incoming", q) : q \in Arriving(c, 1)}
    BY <1>3 DEF Reach
  <2>1. Advance(request, s, d, to) =
          [index |-> s.index + 1,
           outgoing |-> [s.outgoing EXCEPT ![own] = @ + 1],
           incoming |-> [s.incoming EXCEPT ![to] = @ + 1],
           outReserve |-> [s.outReserve EXCEPT ![own] = Add(@)],
           inReserve |-> [s.inReserve EXCEPT ![to] = Add(@)],
           outMask |-> s.outMask \cup (IF own = 1 THEN Evidence(request, "outgoing", p) ELSE {}),
           inMask |-> s.inMask \cup (IF to = 1 THEN Evidence(request, "incoming", p) ELSE {})]
    BY <1>7 DEF Advance, own, p
  <2> HIDE DEF s, mark
  <2>2. \A t \in 1 .. 3 :
          /\ Leaving(e, t) = IF t = own THEN Leaving(c, t) \cup {p} ELSE Leaving(c, t)
          /\ Arriving(e, t) = IF t = to THEN Arriving(c, t) \cup {p} ELSE Arriving(c, t)
    BY <1>4, <1>7
  <2>3. \A S : IsFiniteSet(S) /\ p \notin S => Cardinality(S \cup {p}) = Cardinality(S) + 1
    BY FS_AddElement
  <2>4. ASSUME NEW S, IsFiniteSet(S), p \notin S
        PROVE  Signature(S \cup {p}, Placements) = Add(Signature(S, Placements))
    <3>1. Signature(S \cup {p}, Placements)
            = [k \in Kinds |-> Signature(S, Placements)[k] + Signature({p}, request.rosters[own].kindOf)[k]]
      <4>1. Grows(S, own, p)
        BY <1>2, <2>4, SignatureGrows
      <4> QED BY <4>1 DEF Grows
    <3> QED BY <3>1 DEF mark
  <2>5. [s.outgoing EXCEPT ![own] = @ + 1] = [t \in 1 .. 3 |-> Cardinality(Leaving(e, t))]
    <3>1. Cardinality(Leaving(e, own)) = Cardinality(Leaving(c, own)) + 1
      BY <2>2, <2>3, <1>4, <1>5, <1>2
    <3> QED BY <2>0, <2>2, <3>1, <1>2
  <2>6. [s.incoming EXCEPT ![to] = @ + 1] = [t \in 1 .. 3 |-> Cardinality(Arriving(e, t))]
    <3>1. Cardinality(Arriving(e, to)) = Cardinality(Arriving(c, to)) + 1
      BY <2>2, <2>3, <1>4, <1>5, <1>2
    <3> QED BY <2>0, <2>2, <3>1, <1>2
  <2> HIDE DEF Add
  <2>7. [s.outReserve EXCEPT ![own] = Add(@)] = [t \in 1 .. 3 |-> Signature(Leaving(e, t), Placements)]
    <3>1. Signature(Leaving(e, own), Placements) = Add(Signature(Leaving(c, own), Placements))
      BY <2>2, <2>4, <1>4, <1>5, <1>2
    <3> QED BY <2>0, <2>2, <3>1, <1>2
  <2>8. [s.inReserve EXCEPT ![to] = Add(@)] = [t \in 1 .. 3 |-> Signature(Arriving(e, t), Placements)]
    <3>1. Signature(Arriving(e, to), Placements) = Add(Signature(Arriving(c, to), Placements))
      BY <2>2, <2>4, <1>4, <1>5
    <3> QED BY <2>0, <2>2, <3>1
  <2>9. s.outMask \cup (IF own = 1 THEN Evidence(request, "outgoing", p) ELSE {})
           = UNION {Evidence(request, "outgoing", q) : q \in Leaving(e, 1)}
    BY <2>0, <2>2
  <2>10. s.inMask \cup (IF to = 1 THEN Evidence(request, "incoming", p) ELSE {})
           = UNION {Evidence(request, "incoming", q) : q \in Arriving(e, 1)}
    BY <2>0, <2>2
  <2>11. Reach(e) =
          [index |-> s.index + 1,
           outgoing |-> [s.outgoing EXCEPT ![own] = @ + 1],
           incoming |-> [s.incoming EXCEPT ![to] = @ + 1],
           outReserve |-> [s.outReserve EXCEPT ![own] = Add(@)],
           inReserve |-> [s.inReserve EXCEPT ![to] = Add(@)],
           outMask |-> s.outMask \cup (IF own = 1 THEN Evidence(request, "outgoing", p) ELSE {}),
           inMask |-> s.inMask \cup (IF to = 1 THEN Evidence(request, "incoming", p) ELSE {})]
    BY <2>0, <2>5, <2>6, <2>7, <2>8, <2>9, <2>10 DEF Reach
  <2>12. Reach(e) = Advance(request, s, d, to)
    BY <2>1, <2>11
  <2> QED BY <2>12 DEF d, e, s
<1> QED BY <1>6, <1>7

(* The search starts at the empty path. *)
LEMMA ReachStart ==
    ASSUME AmongThree
    PROVE  Reach(<<>>) = Start
<1>1. \A t : Leaving(<<>>, t) = {} /\ Arriving(<<>>, t) = {}
  BY DEF Leaving, Arriving
<1>2. Signature({}, Placements) = NoSlots
  <2>1. \A k : OfKind(Placements, {}, k) = {}
    BY DEF OfKind
  <2>2. Cardinality({}) = 0
    BY FS_EmptySet
  <2> QED BY <2>1, <2>2 DEF Signature, NoSlots
<1>3. Cardinality({}) = 0 /\ Len(<<>>) = 0
  BY FS_EmptySet
<1>4. /\ [t \in 1 .. 3 |-> Cardinality(Leaving(<<>>, t))] = [t \in 1 .. 3 |-> 0]
      /\ [t \in 1 .. 3 |-> Cardinality(Arriving(<<>>, t))] = [t \in 1 .. 3 |-> 0]
      /\ [t \in 1 .. 3 |-> Signature(Leaving(<<>>, t), Placements)] = [t \in 1 .. 3 |-> NoSlots]
      /\ [t \in 1 .. 3 |-> Signature(Arriving(<<>>, t), Placements)] = [t \in 1 .. 3 |-> NoSlots]
      /\ UNION {Evidence(request, "outgoing", p) : p \in {}} = {}
      /\ UNION {Evidence(request, "incoming", p) : p \in {}} = {}
  BY <1>1, <1>2, <1>3
<1>5. Len(<<>>) + 1 = 1
  BY <1>3
<1> QED BY <1>1, <1>4, <1>5 DEF Reach, Start

(* Every child of a state is a state, one player further. *)
LEMMA ChildType ==
    ASSUME AmongThree
    PROVE  \A s \in States(request), k \in 1 .. 3 :
             s.index <= Len(Ds) /\ HasChild(request, Ds, s, k) =>
               /\ Child(request, Ds, s, k) \in States(request)
               /\ Child(request, Ds, s, k).index = s.index + 1
<1> SUFFICES ASSUME NEW s \in States(request), NEW k \in 1 .. 3, s.index <= Len(Ds)
             PROVE  /\ Child(request, Ds, s, k) \in States(request)
                    /\ Child(request, Ds, s, k).index = s.index + 1
  OBVIOUS
<1> DEFINE d == Ds[s.index]
           own == d.origin
           p == d.player
           to == Place[own][k]
           mark == Signature({p}, request.rosters[own].kindOf)
           Out == UNION {Evidence(request, "outgoing", q) : q \in Universe(request, "outgoing")}
           In == UNION {Evidence(request, "incoming", q) : q \in Universe(request, "incoming")}
           Add(signature) == [j \in Kinds |-> signature[j] + mark[j]]
<1>1. /\ s.index \in Nat \ {0}
      /\ s.outgoing \in [1 .. 3 -> Nat] /\ s.incoming \in [1 .. 3 -> Nat]
      /\ s.outReserve \in [1 .. 3 -> [Kinds -> Nat]] /\ s.inReserve \in [1 .. 3 -> [Kinds -> Nat]]
      /\ s.outMask \subseteq Out /\ s.inMask \subseteq In
  BY DEF States
<1>2. s.index \in 1 .. Len(Ds)
  BY <1>1, DecisionsType
<1>3. own \in 1 .. 3 /\ p \in Owned(request.rosters[own])
  BY <1>2, DecisionsType
<1>4. to \in 1 .. 3
  BY <1>3 DEF Place
<1>5. Child(request, Ds, s, k) = Advance(request, s, d, to)
  BY DEF Child
<1>6. mark \in [Kinds -> Nat]
  <2>1. IsFiniteSet({}) /\ p \notin {}
    BY FS_EmptySet
  <2> HIDE DEF p, own
  <2>2. Grows({}, own, p)
    BY <1>3, <2>1, SignatureGrows
  <2> QED BY <2>2 DEF Grows, mark
<1>7. \A u \in [Kinds -> Nat] : Add(u) \in [Kinds -> Nat]
  <2> HIDE DEF mark
  <2> QED BY <1>6
<1>8. /\ own = 1 => Evidence(request, "outgoing", p) \subseteq Out
      /\ own # 1 => Evidence(request, "incoming", p) \subseteq In
  BY <1>3 DEF Universe
<1>9. CASE to = own
  <2>1. Child(request, Ds, s, k) = [s EXCEPT !.index = @ + 1]
    BY <1>5, <1>9 DEF Advance
  <2> QED BY <2>1, OnlyTheIndex
<1>10. CASE to # own
  <2>1. Child(request, Ds, s, k) =
          [index |-> s.index + 1,
           outgoing |-> [s.outgoing EXCEPT ![own] = @ + 1],
           incoming |-> [s.incoming EXCEPT ![to] = @ + 1],
           outReserve |-> [s.outReserve EXCEPT ![own] = Add(@)],
           inReserve |-> [s.inReserve EXCEPT ![to] = Add(@)],
           outMask |-> s.outMask \cup (IF own = 1 THEN Evidence(request, "outgoing", p) ELSE {}),
           inMask |-> s.inMask \cup (IF to = 1 THEN Evidence(request, "incoming", p) ELSE {})]
    BY <1>5, <1>10 DEF Advance
  <2>4. s.index + 1 \in Nat \ {0}
    BY <1>1
  <2> HIDE DEF d, own, p, to, mark, Add
  <2>2. /\ [s.outgoing EXCEPT ![own] = @ + 1] \in [1 .. 3 -> Nat]
        /\ [s.incoming EXCEPT ![to] = @ + 1] \in [1 .. 3 -> Nat]
    <3>1. \A x \in [1 .. 3 -> Nat], i \in 1 .. 3 : [x EXCEPT ![i] = @ + 1] \in [1 .. 3 -> Nat]
      OBVIOUS
    <3> QED BY <3>1, <1>1, <1>3, <1>4
  <2>3. /\ [s.outReserve EXCEPT ![own] = Add(@)] \in [1 .. 3 -> [Kinds -> Nat]]
        /\ [s.inReserve EXCEPT ![to] = Add(@)] \in [1 .. 3 -> [Kinds -> Nat]]
    <3>1. \A t \in 1 .. 3 : Add(s.outReserve[t]) \in [Kinds -> Nat] /\ Add(s.inReserve[t]) \in [Kinds -> Nat]
      BY <1>1, <1>7
    <3> QED BY <1>1, <3>1
  <2>5. /\ s.outMask \cup (IF own = 1 THEN Evidence(request, "outgoing", p) ELSE {}) \in SUBSET Out
        /\ s.inMask \cup (IF to = 1 THEN Evidence(request, "incoming", p) ELSE {}) \in SUBSET In
    BY <1>1, <1>8, <1>10
  <2>6. Child(request, Ds, s, k) \in
          [index : Nat \ {0}, outgoing : [1 .. 3 -> Nat], incoming : [1 .. 3 -> Nat],
           outReserve : [1 .. 3 -> [Kinds -> Nat]], inReserve : [1 .. 3 -> [Kinds -> Nat]],
           outMask : SUBSET Out, inMask : SUBSET In]
    BY <2>1, <2>2, <2>3, <2>4, <2>5
  <2>7. Child(request, Ds, s, k) \in States(request)
    BY <2>6 DEF States
  <2>8. Child(request, Ds, s, k).index = s.index + 1
    BY <2>1
  <2> QED BY <2>7, <2>8
<1> QED BY <1>9, <1>10

-----------------------------------------------------------------------------
(* Paths to the end that _complete accepts, and how many may yet move.      *)

\* A choice for every player that _complete accepts, and one that continues a shorter choice.
IsGood(d) == IsPath(d) /\ Len(d) = Len(Ds) /\ Complete(request, Reach(d))

\* A path that goes on from another one, and the good ones that do.
Extends(d, c) == Len(c) <= Len(d) /\ \A i \in 1 .. Len(c) : d[i] = c[i]

Completions(c) == {d \in Seq(1 .. 3) : IsGood(d) /\ Extends(d, c)}

(* What the constructors of the rules and the request accept. *)
LEMMA RulesType ==
    ASSUME request \in Requests
    PROVE  /\ request.rules.minOutgoing \in Nat /\ request.rules.minOutgoing # 0
           /\ request.rules.minIncoming \in Nat /\ request.rules.minIncoming # 0
           /\ request.rules.maxOutgoing \in Nat /\ request.rules.maxIncoming \in Nat
           /\ request.rules.maxTotal # None => request.rules.maxTotal \in Nat
           /\ request.rules.noDrops \in BOOLEAN
BY RulesAssumption, RequestAssumption DEF IsLimit

(* The sizes of three sets that are apart add up, so the moves are counted from either side. *)
LEMMA ThreeApart ==
    ASSUME NEW f, \A t \in 1 .. 3 : IsFiniteSet(f[t]),
           \A t, u \in 1 .. 3 : t # u => f[t] \cap f[u] = {}
    PROVE  Cardinality(UNION {f[t] : t \in 1 .. 3}) = OverTeams([t \in 1 .. 3 |-> Cardinality(f[t])])
<1>1. /\ IsFiniteSet(f[1]) /\ IsFiniteSet(f[2]) /\ IsFiniteSet(f[3])
      /\ f[1] \cap f[2] = {} /\ (f[1] \cup f[2]) \cap f[3] = {}
  OBVIOUS
<1>2. IsFiniteSet(f[1] \cup f[2]) /\ Cardinality(f[1] \cup f[2]) = Cardinality(f[1]) + Cardinality(f[2])
  BY <1>1, UnionOfApart
<1>3. Cardinality((f[1] \cup f[2]) \cup f[3]) = Cardinality(f[1] \cup f[2]) + Cardinality(f[3])
  BY <1>1, <1>2, UnionOfApart
<1>4. UNION {f[t] : t \in 1 .. 3} = (f[1] \cup f[2]) \cup f[3]
  OBVIOUS
<1> QED BY <1>2, <1>3, <1>4 DEF OverTeams

(* As many players leave the teams as arrive at them. *)
LEMMA AllMovesCount ==
    ASSUME AmongThree, NEW c \in Seq(1 .. 3), Len(c) <= Len(Ds)
    PROVE  /\ OverTeams(Reach(c).outgoing) = Cardinality(UNION {Leaving(c, t) : t \in 1 .. 3})
           /\ OverTeams(Reach(c).incoming) = OverTeams(Reach(c).outgoing)
<1> DEFINE out == [t \in 1 .. 3 |-> Leaving(c, t)]
           in == [t \in 1 .. 3 |-> Arriving(c, t)]
<1>1. \A t \in 1 .. 3 : /\ IsFiniteSet(Leaving(c, t)) /\ IsFiniteSet(Arriving(c, t))
                        /\ Leaving(c, t) \subseteq Owned(request.rosters[t])
  BY MoversType
<1>2. \A t, u \in 1 .. 3 : t # u => Owned(request.rosters[t]) \cap Owned(request.rosters[u]) = {}
  BY RequestType DEF AmongThree
<1>3. \A i, j \in 1 .. Len(c) : Ds[i].player = Ds[j].player => i = j
  <2>1. \A i \in 1 .. Len(c) : i \in 1 .. Len(Ds)
    BY DecisionsType
  <2> QED BY <2>1, DecisionsType
<1>4. \A t, u \in 1 .. 3 : t # u => Arriving(c, t) \cap Arriving(c, u) = {}
  BY <1>3 DEF Arriving
<1>5. \A t, u \in 1 .. 3 : t # u => Leaving(c, t) \cap Leaving(c, u) = {}
  BY <1>1, <1>2
<1>6. UNION {Leaving(c, t) : t \in 1 .. 3} = UNION {Arriving(c, t) : t \in 1 .. 3}
  <2>1. \A i \in 1 .. Len(c) : c[i] \in 1 .. 3 /\ Ds[i].origin \in 1 .. 3
    <3>1. \A i \in 1 .. Len(c) : i \in 1 .. Len(Ds)
      BY DecisionsType
    <3> QED BY <3>1, DecisionsType
  <2> QED BY <2>1 DEF Leaving, Arriving
<1>7. /\ UNION {out[t] : t \in 1 .. 3} = UNION {Leaving(c, t) : t \in 1 .. 3}
      /\ UNION {in[t] : t \in 1 .. 3} = UNION {Arriving(c, t) : t \in 1 .. 3}
  OBVIOUS
<1>8. /\ Reach(c).outgoing = [t \in 1 .. 3 |-> Cardinality(out[t])]
      /\ Reach(c).incoming = [t \in 1 .. 3 |-> Cardinality(in[t])]
  BY DEF Reach
<1>9. /\ \A t \in 1 .. 3 : IsFiniteSet(out[t]) /\ IsFiniteSet(in[t])
      /\ \A t, u \in 1 .. 3 : t # u => out[t] \cap out[u] = {} /\ in[t] \cap in[u] = {}
  BY <1>1, <1>4, <1>5
<1> HIDE DEF out, in
<1>10. /\ Cardinality(UNION {out[t] : t \in 1 .. 3}) = OverTeams([t \in 1 .. 3 |-> Cardinality(out[t])])
       /\ Cardinality(UNION {in[t] : t \in 1 .. 3}) = OverTeams([t \in 1 .. 3 |-> Cardinality(in[t])])
  BY <1>9, ThreeApart
<1> QED BY <1>6, <1>7, <1>8, <1>10

\* The players of a team who may still leave it, and those who may still join it.
MayLeave(c, t) == {i \in {i \in DOMAIN Ds : i >= Len(c) + 1} : Ds[i].origin = t /\ Ds[i].destinations \ {t} # {}}

MayJoin(c, t) == {i \in {i \in DOMAIN Ds : i >= Len(c) + 1} : Ds[i].origin # t /\ t \in Ds[i].destinations}

(* Nobody's move is taken back, and only players who may still move are added. *)
LEMMA MoversGrow ==
    ASSUME AmongThree, NEW c \in Seq(1 .. 3), NEW d \in Seq(1 .. 3), Len(d) <= Len(Ds), Extends(d, c),
           NEW t \in 1 .. 3
    PROVE  /\ Cardinality(Leaving(c, t)) \in Nat /\ Cardinality(Leaving(d, t)) \in Nat
           /\ Cardinality(Arriving(c, t)) \in Nat /\ Cardinality(Arriving(d, t)) \in Nat
           /\ Cardinality(Leaving(c, t)) <= Cardinality(Leaving(d, t))
           /\ Cardinality(Arriving(c, t)) <= Cardinality(Arriving(d, t))
<1>1. Len(c) \in Nat /\ Len(d) \in Nat /\ Len(Ds) \in Nat /\ Len(c) <= Len(d)
  BY DecisionsType DEF Extends
<1>2. Len(c) <= Len(Ds)
  BY <1>1
<1>3. /\ IsFiniteSet(Leaving(c, t)) /\ IsFiniteSet(Arriving(c, t))
      /\ IsFiniteSet(Leaving(d, t)) /\ IsFiniteSet(Arriving(d, t))
  BY <1>2, MoversType
<1>4. \A i \in 1 .. Len(c) : i \in 1 .. Len(d) /\ d[i] = c[i]
  BY <1>1 DEF Extends
<1>5. Leaving(c, t) \in SUBSET Leaving(d, t) /\ Arriving(c, t) \in SUBSET Arriving(d, t)
  BY <1>4 DEF Leaving, Arriving
<1> QED BY <1>3, <1>5, FS_Subset, FS_CardinalityType

LEMMA MoversAreAtMost ==
    ASSUME AmongThree, NEW c \in Seq(1 .. 3), NEW d, IsPath(d), Extends(d, c),
           NEW t \in 1 .. 3
    PROVE  /\ Cardinality(MayLeave(c, t)) \in Nat /\ Cardinality(MayJoin(c, t)) \in Nat
           /\ Cardinality(Leaving(d, t)) <= Cardinality(Leaving(c, t)) + Cardinality(MayLeave(c, t))
           /\ Cardinality(Arriving(d, t)) <= Cardinality(Arriving(c, t)) + Cardinality(MayJoin(c, t))
<1>1. /\ Len(c) \in Nat /\ Len(d) \in Nat /\ Len(Ds) \in Nat /\ Len(c) <= Len(d) /\ Len(d) <= Len(Ds)
      /\ d \in Seq(1 .. 3) /\ DOMAIN Ds = 1 .. Len(Ds)
  BY DecisionsType DEF Extends, IsPath
<1>2. Len(c) <= Len(Ds)
  BY <1>1
<1>3. /\ IsFiniteSet(Leaving(c, t)) /\ IsFiniteSet(Arriving(c, t))
      /\ IsFiniteSet(Leaving(d, t)) /\ IsFiniteSet(Arriving(d, t))
  BY <1>1, <1>2, MoversType
<1> DEFINE P(S) == {Ds[i].player : i \in S}
<1>4. ASSUME NEW S, S \subseteq 1 .. Len(Ds)
      PROVE  IsFiniteSet(P(S)) /\ Cardinality(P(S)) \in Nat /\ Cardinality(S) \in Nat /\ Cardinality(P(S)) <= Cardinality(S)
  <2>1. IsFiniteSet(1 .. Len(Ds))
    BY <1>1, FS_Interval
  <2>2. IsFiniteSet(S)
    BY <2>1, <1>4, FS_Subset
  <2> DEFINE f == [i \in S |-> Ds[i].player]
  <2>3. DOMAIN f = S /\ {f[i] : i \in S} = P(S)
    OBVIOUS
  <2> HIDE DEF f, P
  <2> QED BY <2>2, <2>3, ImageIsSmaller, FS_CardinalityType
<1>5. MayLeave(c, t) \subseteq 1 .. Len(Ds) /\ MayJoin(c, t) \subseteq 1 .. Len(Ds)
  BY <1>1 DEF MayLeave, MayJoin
<1>6. \A i \in 1 .. Len(d) : \/ i \in 1 .. Len(c) /\ d[i] = c[i]
                             \/ i \in 1 .. Len(Ds) /\ i >= Len(c) + 1 /\ d[i] \in Ds[i].destinations
  BY <1>1 DEF Extends, IsPath
<1>7. Leaving(d, t) \subseteq Leaving(c, t) \cup P(MayLeave(c, t))
  <2> SUFFICES ASSUME NEW i \in 1 .. Len(d), Ds[i].origin = t, d[i] # t
               PROVE  Ds[i].player \in Leaving(c, t) \cup P(MayLeave(c, t))
    BY DEF Leaving
  <2>1. CASE i \in 1 .. Len(c) /\ d[i] = c[i]
    BY <2>1 DEF Leaving
  <2>2. CASE i \in 1 .. Len(Ds) /\ i >= Len(c) + 1 /\ d[i] \in Ds[i].destinations
    <3>1. i \in MayLeave(c, t)
      BY <2>2, <1>1 DEF MayLeave
    <3> QED BY <3>1
  <2> QED BY <2>1, <2>2, <1>6
<1>8. Arriving(d, t) \subseteq Arriving(c, t) \cup P(MayJoin(c, t))
  <2> SUFFICES ASSUME NEW i \in 1 .. Len(d), Ds[i].origin # t, d[i] = t
               PROVE  Ds[i].player \in Arriving(c, t) \cup P(MayJoin(c, t))
    BY DEF Arriving
  <2>1. CASE i \in 1 .. Len(c) /\ d[i] = c[i]
    BY <2>1 DEF Arriving
  <2>2. CASE i \in 1 .. Len(Ds) /\ i >= Len(c) + 1 /\ d[i] \in Ds[i].destinations
    <3>1. i \in MayJoin(c, t)
      BY <2>2, <1>1 DEF MayJoin
    <3> QED BY <3>1
  <2> QED BY <2>1, <2>2, <1>6
<1> HIDE DEF P
<1>9. ASSUME NEW A, NEW B, NEW C, IsFiniteSet(A), IsFiniteSet(B), IsFiniteSet(C), C \subseteq A \cup B
      PROVE  Cardinality(C) <= Cardinality(A) + Cardinality(B)
  <2>1. /\ IsFiniteSet(A \cup B)
        /\ Cardinality(A \cup B) = Cardinality(A) + Cardinality(B) - Cardinality(A \cap B)
    BY <1>9, FS_Union
  <2>2. C \in SUBSET (A \cup B)
    BY <1>9
  <2>3. Cardinality(C) <= Cardinality(A \cup B)
    BY <2>1, <2>2, FS_Subset
  <2>4. IsFiniteSet(A \cap B)
    BY <1>9, FS_Intersection
  <2>5. /\ Cardinality(A) \in Nat /\ Cardinality(B) \in Nat /\ Cardinality(C) \in Nat
        /\ Cardinality(A \cap B) \in Nat /\ Cardinality(A \cup B) \in Nat
    BY <1>9, <2>1, <2>4, FS_CardinalityType
  <2> QED BY <2>1, <2>3, <2>5
<1>10. /\ IsFiniteSet(P(MayLeave(c, t))) /\ IsFiniteSet(P(MayJoin(c, t)))
       /\ Cardinality(P(MayLeave(c, t))) \in Nat /\ Cardinality(P(MayJoin(c, t))) \in Nat
       /\ Cardinality(MayLeave(c, t)) \in Nat /\ Cardinality(MayJoin(c, t)) \in Nat
       /\ Cardinality(P(MayLeave(c, t))) <= Cardinality(MayLeave(c, t))
       /\ Cardinality(P(MayJoin(c, t))) <= Cardinality(MayJoin(c, t))
  BY <1>4, <1>5
<1>11. /\ Cardinality(Leaving(d, t)) <= Cardinality(Leaving(c, t)) + Cardinality(P(MayLeave(c, t)))
       /\ Cardinality(Arriving(d, t)) <= Cardinality(Arriving(c, t)) + Cardinality(P(MayJoin(c, t)))
  BY <1>3, <1>7, <1>8, <1>9, <1>10
<1>12. /\ Cardinality(Leaving(c, t)) \in Nat /\ Cardinality(Arriving(c, t)) \in Nat
       /\ Cardinality(Leaving(d, t)) \in Nat /\ Cardinality(Arriving(d, t)) \in Nat
  BY <1>3, FS_CardinalityType
<1> QED BY <1>10, <1>11, <1>12

(* What no plan without drops can be beyond. *)
LEMMA AdmittedFits ==
    ASSUME NEW roster, IsRoster(roster), NEW a \in Nat, NEW b \in Nat,
           NEW sent \in [Kinds -> Nat], NEW received \in [Kinds -> Nat],
           Admits(CapacityPlan(roster, a, sent, b, received), TRUE)
    PROVE  Len(roster.players) - a + b - OverKinds(roster.slots) <= roster.cap
<1> DEFINE retained == [k \in Kinds |-> Retained(roster, sent, k)]
           candidates == [k \in Kinds |-> retained[k] + received[k]]
           occupied == [k \in Kinds |-> Least(candidates[k], roster.slots[k])]
           active == Len(roster.players) - a + b - OverKinds(occupied)
<1>1. roster.slots \in [Kinds -> Nat] /\ roster.cap \in Nat /\ Len(roster.players) \in Nat
  BY DEF IsRoster
<1>2. ASSUME NEW k \in Kinds
      PROVE  Retained(roster, sent, k) \in Nat
  <2>1. OfKind(roster.kindOf, Owned(roster), k) \subseteq Owned(roster)
    BY DEF OfKind
  <2>2. Cardinality(OfKind(roster.kindOf, Owned(roster), k)) \in Nat
    BY <2>1, RosterType, FS_Subset, FS_CardinalityType
  <2>3. sent[k] \in Nat
    OBVIOUS
  <2> QED BY <2>2, <2>3 DEF Retained, AtLeastZero
<1>3. "IR" \in Kinds /\ "ROOKIE_RESERVE" \in Kinds
  BY DEF Kinds
<1>4. \A k \in Kinds : occupied[k] \in Nat /\ occupied[k] <= roster.slots[k]
  BY <1>1, <1>2 DEF Least
<1>5. CapacityPlan(roster, a, sent, b, received).required = AtLeastZero(active - roster.cap)
  BY DEF CapacityPlan
<1>6. AtLeastZero(active - roster.cap) = 0
  BY <1>5 DEF Admits
<1> HIDE DEF occupied
<1>7. OverKinds(occupied) <= OverKinds(roster.slots) /\ OverKinds(occupied) \in Nat /\ OverKinds(roster.slots) \in Nat
  BY <1>1, <1>3, <1>4 DEF OverKinds
<1> QED BY <1>1, <1>6, <1>7 DEF AtLeastZero

-----------------------------------------------------------------------------
(* Nothing is given up too early: what _impossible and the limits of        *)
(* _advance cut off has no completion.                                         *)

(* Arithmetic of the limits. *)
LEMMA SumsOfThree ==
    ASSUME NEW f, NEW g, NEW h,
           \A t \in 1 .. 3 : f[t] \in Nat /\ g[t] \in Nat /\ h[t] \in Nat /\ f[t] + g[t] <= h[t]
    PROVE  /\ OverTeams(f) \in Nat /\ OverTeams(g) \in Nat /\ OverTeams(h) \in Nat
           /\ OverTeams(f) + OverTeams(g) <= OverTeams(h)
<1>1. /\ f[1] \in Nat /\ g[1] \in Nat /\ h[1] \in Nat /\ f[1] + g[1] <= h[1]
      /\ f[2] \in Nat /\ g[2] \in Nat /\ h[2] \in Nat /\ f[2] + g[2] <= h[2]
      /\ f[3] \in Nat /\ g[3] \in Nat /\ h[3] \in Nat /\ f[3] + g[3] <= h[3]
  OBVIOUS
<1> QED BY ONLY <1>1 DEF OverTeams

LEMMA Shortage ==
    ASSUME NEW a \in Nat, NEW least \in Nat, NEW b \in Nat, a <= b, least <= b
    PROVE  AtLeastZero(least - a) \in Nat /\ a + AtLeastZero(least - a) <= b
BY DEF AtLeastZero

(* The numbers of the state a path leads to. *)
LEMMA ReachCounts ==
    ASSUME NEW c
    PROVE  /\ Reach(c).index = Len(c) + 1
           /\ \A t \in 1 .. 3 : /\ Reach(c).outgoing[t] = Cardinality(Leaving(c, t))
                                /\ Reach(c).incoming[t] = Cardinality(Arriving(c, t))
                                /\ Reach(c).outReserve[t] = Signature(Leaving(c, t), Placements)
                                /\ Reach(c).inReserve[t] = Signature(Arriving(c, t), Placements)
           /\ OverTeams(Reach(c).outgoing)
                = Cardinality(Leaving(c, 1)) + Cardinality(Leaving(c, 2)) + Cardinality(Leaving(c, 3))
           /\ OverTeams(Reach(c).incoming)
                = Cardinality(Arriving(c, 1)) + Cardinality(Arriving(c, 2)) + Cardinality(Arriving(c, 3))
BY DEF Reach, OverTeams

(* What a good path keeps of sizes, limits and, without drops, of rosters. *)
LEMMA GoodType ==
    ASSUME AmongThree, NEW d, IsGood(d)
    PROVE  /\ d \in Seq(1 .. 3) /\ Len(d) = Len(Ds) /\ IsPath(d)
           /\ \A t \in 1 .. 3 :
                /\ Cardinality(Leaving(d, t)) \in request.rules.minOutgoing .. request.rules.maxOutgoing
                /\ Cardinality(Arriving(d, t)) \in request.rules.minIncoming .. request.rules.maxIncoming
                /\ request.rules.noDrops =>
                     Len(request.rosters[t].players) - Cardinality(Leaving(d, t)) + Cardinality(Arriving(d, t))
                       - OverKinds(request.rosters[t].slots) <= request.rosters[t].cap
           /\ request.rules.maxTotal # None => OverTeams(Reach(d).outgoing) <= request.rules.maxTotal
<1>1. d \in Seq(1 .. 3) /\ Len(d) = Len(Ds) /\ IsPath(d) /\ Len(d) <= Len(Ds)
  BY DEF IsGood, IsPath
<1>2. Teams(request) = 1 .. 3
  BY RequestType DEF AmongThree
<1>3. Complete(request, Reach(d))
  BY DEF IsGood
<1>4. Within(OverTeams(Reach(d).outgoing), request.rules.maxTotal)
  BY <1>3 DEF Complete
<1>5. ASSUME NEW t \in 1 .. 3
      PROVE /\ Cardinality(Leaving(d, t)) \in request.rules.minOutgoing .. request.rules.maxOutgoing
            /\ Cardinality(Arriving(d, t)) \in request.rules.minIncoming .. request.rules.maxIncoming
            /\ request.rules.noDrops =>
                     Len(request.rosters[t].players) - Cardinality(Leaving(d, t)) + Cardinality(Arriving(d, t))
                       - OverKinds(request.rosters[t].slots) <= request.rosters[t].cap
  <2> DEFINE s == Reach(d)
             roster == request.rosters[t]
  <2>1. /\ s.outgoing[t] \in request.rules.minOutgoing .. request.rules.maxOutgoing
        /\ s.incoming[t] \in request.rules.minIncoming .. request.rules.maxIncoming
        /\ Admits(CapacityPlan(roster, s.outgoing[t], s.outReserve[t], s.incoming[t], s.inReserve[t]),
                  request.rules.noDrops)
    BY <1>2, <1>3 DEF Complete
  <2>2. /\ s.outgoing[t] = Cardinality(Leaving(d, t)) /\ s.incoming[t] = Cardinality(Arriving(d, t))
    BY ReachCounts
  <2>3. s \in States(request)
    BY <1>1, ReachType
  <2> HIDE DEF s, roster
  <2>4. /\ s.outgoing[t] \in Nat /\ s.incoming[t] \in Nat
        /\ s.outReserve[t] \in [Kinds -> Nat] /\ s.inReserve[t] \in [Kinds -> Nat]
    BY <2>3 DEF States
  <2>5. IsRoster(roster)
    BY <1>2, RequestType DEF AmongThree, roster
  <2>6. request.rules.noDrops =>
          Len(roster.players) - s.outgoing[t] + s.incoming[t] - OverKinds(roster.slots) <= roster.cap
    <3> SUFFICES ASSUME request.rules.noDrops
                 PROVE  Len(roster.players) - s.outgoing[t] + s.incoming[t] - OverKinds(roster.slots) <= roster.cap
      OBVIOUS
    <3>1. Admits(CapacityPlan(roster, s.outgoing[t], s.outReserve[t], s.incoming[t], s.inReserve[t]), TRUE)
      BY <2>1 DEF Admits
    <3> QED BY <2>4, <2>5, <3>1, AdmittedFits
  <2> QED BY <2>1, <2>2, <2>6 DEF roster
<1> QED BY <1>1, <1>4, <1>5 DEF Within

(* _impossible gives up no state that some trade goes through. *)
LEMMA NoTradeIsGivenUp ==
    ASSUME AmongThree, NEW c \in Seq(1 .. 3), NEW d, IsGood(d), Extends(d, c)
    PROVE  ~ Impossible(request, Ds, Reach(c))
<1> DEFINE rules == request.rules
           Out(t) == Cardinality(Leaving(c, t))
           In(t) == Cardinality(Arriving(c, t))
           LastOut(t) == Cardinality(Leaving(d, t))
           LastIn(t) == Cardinality(Arriving(d, t))
           Movers(t) == Cardinality(MayLeave(c, t))
           Receivers(t) == Cardinality(MayJoin(c, t))
<1>0. /\ d \in Seq(1 .. 3) /\ Len(d) <= Len(Ds) /\ IsPath(d)
      /\ Len(c) \in Nat /\ Len(d) \in Nat /\ Len(Ds) \in Nat /\ Len(c) <= Len(d)
  BY GoodType, DecisionsType DEF Extends
<1>c. Len(c) <= Len(Ds)
  BY <1>0
<1>1. Teams(request) = 1 .. 3
  BY RequestType DEF AmongThree
<1>2. \A t \in 1 .. 3 :
        /\ Out(t) \in Nat /\ In(t) \in Nat /\ LastOut(t) \in Nat /\ LastIn(t) \in Nat
        /\ Out(t) <= LastOut(t) /\ In(t) <= LastIn(t)
  BY <1>0, MoversGrow
<1>3. \A t \in 1 .. 3 :
        /\ Movers(t) \in Nat /\ Receivers(t) \in Nat
        /\ LastOut(t) <= Out(t) + Movers(t) /\ LastIn(t) <= In(t) + Receivers(t)
  BY <1>0, MoversAreAtMost
<1>4. /\ rules.minOutgoing \in Nat /\ rules.minIncoming \in Nat
      /\ rules.maxOutgoing \in Nat /\ rules.maxIncoming \in Nat
      /\ rules.maxTotal # None => rules.maxTotal \in Nat
  BY RulesType DEF AmongThree
<1>5. \A t \in 1 .. 3 :
        /\ LastOut(t) \in rules.minOutgoing .. rules.maxOutgoing
        /\ LastIn(t) \in rules.minIncoming .. rules.maxIncoming
        /\ rules.noDrops =>
             Len(request.rosters[t].players) - LastOut(t) + LastIn(t)
               - OverKinds(request.rosters[t].slots) <= request.rosters[t].cap
  BY GoodType
<1>6. rules.maxTotal # None => OverTeams(Reach(d).outgoing) <= rules.maxTotal
  BY GoodType
<1>7. \A t \in 1 .. 3 : Reach(c).outgoing[t] = Out(t) /\ Reach(c).incoming[t] = In(t)
  BY ReachCounts
<1>9. Impossible(request, Ds, Reach(c)) <=>
        \/ \E t \in 1 .. 3 :
             \/ Out(t) + Movers(t) < rules.minOutgoing
             \/ In(t) + Receivers(t) < rules.minIncoming
        \/ /\ rules.maxTotal # None
           /\ LET MissingOut == OverTeams([t \in 1 .. 3 |-> AtLeastZero(rules.minOutgoing - Out(t))])
                  MissingIn == OverTeams([t \in 1 .. 3 |-> AtLeastZero(rules.minIncoming - In(t))])
              IN OverTeams(Reach(c).outgoing) + (IF MissingOut > MissingIn THEN MissingOut ELSE MissingIn)
                   > rules.maxTotal
        \/ /\ rules.noDrops
           /\ \E t \in 1 .. 3 :
                Len(request.rosters[t].players) - Out(t) - Least(Movers(t), rules.maxOutgoing - Out(t)) + In(t)
                  - OverKinds(request.rosters[t].slots) > request.rosters[t].cap
  <2>1. [t \in 1 .. 3 |-> AtLeastZero(rules.minOutgoing - Reach(c).outgoing[t])]
          = [t \in 1 .. 3 |-> AtLeastZero(rules.minOutgoing - Out(t))]
    BY <1>7
  <2>2. [t \in 1 .. 3 |-> AtLeastZero(rules.minIncoming - Reach(c).incoming[t])]
          = [t \in 1 .. 3 |-> AtLeastZero(rules.minIncoming - In(t))]
    BY <1>7
  <2>3. \A t : /\ Movers(t) = Cardinality({i \in {i \in DOMAIN Ds : i >= Reach(c).index} :
                                             Ds[i].origin = t /\ Ds[i].destinations \ {t} # {}})
               /\ Receivers(t) = Cardinality({i \in {i \in DOMAIN Ds : i >= Reach(c).index} :
                                             Ds[i].origin # t /\ t \in Ds[i].destinations})
    BY ReachCounts DEF MayLeave, MayJoin
  <2> HIDE DEF Movers, Receivers, Out, In
  <2> QED BY <1>1, <1>7, <2>1, <2>2, <2>3 DEF Impossible
<1>10. \A t \in 1 .. 3 : Len(request.rosters[t].players) \in Nat /\ OverKinds(request.rosters[t].slots) \in Nat
                         /\ request.rosters[t].cap \in Nat
  <2>1. \A t \in 1 .. 3 : IsRoster(request.rosters[t])
    BY <1>1, RequestType DEF AmongThree
  <2>2. "IR" \in Kinds /\ "ROOKIE_RESERVE" \in Kinds
    BY DEF Kinds
  <2> SUFFICES ASSUME NEW t \in 1 .. 3
               PROVE  /\ Len(request.rosters[t].players) \in Nat /\ OverKinds(request.rosters[t].slots) \in Nat
                      /\ request.rosters[t].cap \in Nat
    OBVIOUS
  <2> DEFINE roster == request.rosters[t]
  <2>3. roster.players \in Seq(Owned(roster)) /\ roster.slots \in [Kinds -> Nat] /\ roster.cap \in Nat
    BY <2>1 DEF IsRoster
  <2> HIDE DEF roster
  <2>4. roster.slots["IR"] \in Nat /\ roster.slots["ROOKIE_RESERVE"] \in Nat
    BY <2>2, <2>3
  <2>5. Len(roster.players) \in Nat /\ OverKinds(roster.slots) \in Nat /\ roster.cap \in Nat
    BY <2>3, <2>4 DEF OverKinds
  <2> QED BY <2>5 DEF roster
<1> HIDE DEF rules, Out, In, LastOut, LastIn, Movers, Receivers
<1>11. ~ \E t \in 1 .. 3 :
             \/ Out(t) + Movers(t) < rules.minOutgoing
             \/ In(t) + Receivers(t) < rules.minIncoming
  <2> SUFFICES ASSUME NEW t \in 1 .. 3
               PROVE  ~(Out(t) + Movers(t) < rules.minOutgoing) /\ ~(In(t) + Receivers(t) < rules.minIncoming)
    OBVIOUS
  <2>1. /\ Out(t) \in Nat /\ In(t) \in Nat /\ LastOut(t) \in Nat /\ LastIn(t) \in Nat
    BY <1>2
  <2>2. /\ Movers(t) \in Nat /\ Receivers(t) \in Nat
        /\ LastOut(t) <= Out(t) + Movers(t) /\ LastIn(t) <= In(t) + Receivers(t)
    BY <1>3
  <2>3. /\ LastOut(t) \in rules.minOutgoing .. rules.maxOutgoing
        /\ LastIn(t) \in rules.minIncoming .. rules.maxIncoming
    BY <1>5
  <2>4. rules.minOutgoing <= LastOut(t) /\ rules.minIncoming <= LastIn(t)
    BY <2>3, <1>4
  <2> QED BY <2>1, <2>2, <2>4, <1>4, SMTT(40)
<1>12. ASSUME rules.maxTotal # None
       PROVE  LET MissingOut == OverTeams([t \in 1 .. 3 |-> AtLeastZero(rules.minOutgoing - Out(t))])
                  MissingIn == OverTeams([t \in 1 .. 3 |-> AtLeastZero(rules.minIncoming - In(t))])
              IN ~(OverTeams(Reach(c).outgoing) + (IF MissingOut > MissingIn THEN MissingOut ELSE MissingIn)
                   > rules.maxTotal)
  <2> DEFINE Short == [t \in 1 .. 3 |-> AtLeastZero(rules.minOutgoing - Out(t))]
             Few == [t \in 1 .. 3 |-> AtLeastZero(rules.minIncoming - In(t))]
             s == Reach(c)
             l == Reach(d)
  <2>1. ASSUME NEW t \in 1 .. 3
        PROVE  /\ s.outgoing[t] \in Nat /\ Short[t] \in Nat /\ l.outgoing[t] \in Nat
               /\ s.outgoing[t] + Short[t] <= l.outgoing[t]
               /\ s.incoming[t] \in Nat /\ Few[t] \in Nat /\ l.incoming[t] \in Nat
               /\ s.incoming[t] + Few[t] <= l.incoming[t]
    <3>1. /\ Out(t) \in Nat /\ In(t) \in Nat /\ LastOut(t) \in Nat /\ LastIn(t) \in Nat
          /\ Out(t) <= LastOut(t) /\ In(t) <= LastIn(t)
      BY <1>2
    <3>2. /\ LastOut(t) \in rules.minOutgoing .. rules.maxOutgoing
          /\ LastIn(t) \in rules.minIncoming .. rules.maxIncoming
      BY <1>5
    <3>3. rules.minOutgoing <= LastOut(t) /\ rules.minIncoming <= LastIn(t)
      BY <3>2, <1>4
    <3>4. /\ s.outgoing[t] = Out(t) /\ s.incoming[t] = In(t)
          /\ l.outgoing[t] = LastOut(t) /\ l.incoming[t] = LastIn(t)
      BY ReachCounts DEF Out, In, LastOut, LastIn
    <3>5. /\ Short[t] = AtLeastZero(rules.minOutgoing - Out(t))
          /\ Few[t] = AtLeastZero(rules.minIncoming - In(t))
      OBVIOUS
    <3> HIDE DEF Short, Few, s, l
    <3>6. Short[t] \in Nat /\ Out(t) + Short[t] <= LastOut(t)
      BY <3>1, <3>3, <3>5, <1>4, Shortage
    <3>7. Few[t] \in Nat /\ In(t) + Few[t] <= LastIn(t)
      BY <3>1, <3>3, <3>5, <1>4, Shortage
    <3> QED BY <3>1, <3>4, <3>6, <3>7
  <2> HIDE DEF Short, Few, s, l
  <2>2. /\ OverTeams(s.outgoing) \in Nat /\ OverTeams(Short) \in Nat /\ OverTeams(l.outgoing) \in Nat
        /\ OverTeams(s.outgoing) + OverTeams(Short) <= OverTeams(l.outgoing)
    BY <2>1, SumsOfThree
  <2>3. /\ OverTeams(s.incoming) \in Nat /\ OverTeams(Few) \in Nat /\ OverTeams(l.incoming) \in Nat
        /\ OverTeams(s.incoming) + OverTeams(Few) <= OverTeams(l.incoming)
    BY <2>1, SumsOfThree
  <2>4. OverTeams(s.incoming) = OverTeams(s.outgoing) /\ OverTeams(l.incoming) = OverTeams(l.outgoing)
    BY <1>0, <1>c, AllMovesCount DEF s, l
  <2>5. OverTeams(l.outgoing) <= rules.maxTotal /\ rules.maxTotal \in Nat
    BY <1>4, <1>6, <1>12 DEF l
  <2>6. ~(OverTeams(s.outgoing) + (IF OverTeams(Short) > OverTeams(Few) THEN OverTeams(Short) ELSE OverTeams(Few))
            > rules.maxTotal)
    BY <2>2, <2>3, <2>4, <2>5
  <2> QED BY <2>6 DEF s, Short, Few
<1>13. ASSUME rules.noDrops, NEW t \in 1 .. 3
       PROVE  ~(Len(request.rosters[t].players) - Out(t) - Least(Movers(t), rules.maxOutgoing - Out(t)) + In(t)
                  - OverKinds(request.rosters[t].slots) > request.rosters[t].cap)
  <2> DEFINE len == Len(request.rosters[t].players)
             slots == OverKinds(request.rosters[t].slots)
             cap == request.rosters[t].cap
  <2>a. /\ Out(t) \in Nat /\ In(t) \in Nat /\ LastOut(t) \in Nat /\ LastIn(t) \in Nat
        /\ Out(t) <= LastOut(t) /\ In(t) <= LastIn(t)
    BY <1>2
  <2>b. Movers(t) \in Nat /\ LastOut(t) <= Out(t) + Movers(t)
    BY <1>3
  <2>c. LastOut(t) \in rules.minOutgoing .. rules.maxOutgoing
    BY <1>5
  <2>d. LastOut(t) <= rules.maxOutgoing /\ rules.maxOutgoing \in Nat
    BY <2>c, <1>4
  <2>e. len \in Nat /\ slots \in Nat /\ cap \in Nat
    BY <1>10
  <2>2. len - LastOut(t) + LastIn(t) - slots <= cap
    BY <1>5, <1>13
  <2> HIDE DEF len, slots, cap
  <2>3. ~(len - Out(t) - Least(Movers(t), rules.maxOutgoing - Out(t)) + In(t) - slots > cap)
    <3> DEFINE most == rules.maxOutgoing
               least == Least(Movers(t), most - Out(t))
    <3>1. LastOut(t) - Out(t) <= least /\ least \in Int
      <4>1. most \in Nat /\ LastOut(t) <= most
        BY <2>d
      <4> HIDE DEF most
      <4> QED BY <2>a, <2>b, <4>1 DEF Least
    <3> HIDE DEF most, least
    <3>2. ~(len - Out(t) - least + In(t) - slots > cap)
      BY <2>a, <2>e, <2>2, <3>1, SMTT(40)
    <3> QED BY <3>2 DEF most, least
  <2> QED BY <2>3 DEF len, slots, cap
<1> QED BY <1>9, <1>11, <1>12, <1>13

(* The limits on sizes that _advance looks at refuse no step of a trade. *)
LEMMA TradesHaveRoom ==
    ASSUME AmongThree, NEW c \in Seq(1 .. 3), NEW d, IsGood(d), Extends(d, c), Len(c) < Len(Ds),
           d[Len(c) + 1] # Ds[Len(c) + 1].origin
    PROVE  HasRoom(request.rules, Reach(c), Ds[Len(c) + 1].origin, d[Len(c) + 1])
<1> DEFINE n == Len(c) + 1
           to == d[n]
           own == Ds[n].origin
           e == Append(c, to)
           rules == request.rules
<1>1. /\ Len(c) \in Nat /\ Len(Ds) \in Nat /\ n \in 1 .. Len(Ds) /\ Len(d) = Len(Ds) /\ d \in Seq(1 .. 3)
      /\ Len(c) <= Len(Ds) /\ Len(d) <= Len(Ds)
  BY GoodType, DecisionsType
<1>2. to \in 1 .. 3 /\ own \in 1 .. 3
  BY <1>1, DecisionsType
<1>3. /\ e \in Seq(1 .. 3) /\ Len(e) = n /\ e[n] = to /\ \A i \in 1 .. Len(c) : e[i] = c[i]
  BY <1>2
<1>4. Extends(d, e)
  <2>1. Len(e) <= Len(d)
    BY <1>1, <1>3
  <2>2. \A i \in 1 .. Len(e) : i \in 1 .. Len(c) \/ i = n
    BY <1>1, <1>3
  <2>3. \A i \in 1 .. Len(c) : d[i] = c[i]
    BY DEF Extends
  <2> HIDE DEF e, n
  <2>4. \A i \in 1 .. Len(e) : d[i] = e[i]
    BY <1>3, <2>2, <2>3
  <2> QED BY <2>1, <2>4 DEF Extends
<1>5. /\ Leaving(e, own) = Leaving(c, own) \cup {Ds[n].player} /\ Ds[n].player \notin Leaving(c, own)
      /\ Arriving(e, to) = Arriving(c, to) \cup {Ds[n].player} /\ Ds[n].player \notin Arriving(c, to)
      /\ \A t \in 1 .. 3 : t # own => Leaving(e, t) = Leaving(c, t)
  <2>1. \A t \in 1 .. 3 :
          /\ Leaving(e, t) = Leaving(c, t) \cup IF own = t /\ to # t THEN {Ds[n].player} ELSE {}
          /\ Arriving(e, t) = Arriving(c, t) \cup IF own # t /\ to = t THEN {Ds[n].player} ELSE {}
          /\ Ds[n].player \notin Leaving(c, t) /\ Ds[n].player \notin Arriving(c, t)
    <3> HIDE DEF to
    <3> QED BY <1>2, OneMoves
  <2>2. to # own
    OBVIOUS
  <2> HIDE DEF to, own, e, n
  <2> QED BY <1>2, <2>1, <2>2
<1> HIDE DEF e, to, own
<1>6. \A t \in 1 .. 3 :
        /\ IsFiniteSet(Leaving(c, t)) /\ IsFiniteSet(Arriving(c, t))
        /\ Cardinality(Leaving(c, t)) \in Nat /\ Cardinality(Arriving(c, t)) \in Nat
  BY <1>1, MoversType
<1>7. /\ Cardinality(Leaving(e, own)) = Cardinality(Leaving(c, own)) + 1
      /\ Cardinality(Arriving(e, to)) = Cardinality(Arriving(c, to)) + 1
  <2>1. IsFiniteSet(Leaving(c, own)) /\ IsFiniteSet(Arriving(c, to))
    BY <1>2, <1>6
  <2> QED BY <1>5, <2>1, FS_AddElement, ZenonT(60)
<1>8. \A t \in 1 .. 3 :
        /\ Cardinality(Leaving(e, t)) \in Nat /\ Cardinality(Arriving(e, t)) \in Nat
        /\ Cardinality(Leaving(d, t)) \in Nat /\ Cardinality(Arriving(d, t)) \in Nat
        /\ Cardinality(Leaving(e, t)) <= Cardinality(Leaving(d, t))
        /\ Cardinality(Arriving(e, t)) <= Cardinality(Arriving(d, t))
  BY <1>1, <1>3, <1>4, MoversGrow
<1>9. /\ Cardinality(Leaving(d, own)) <= rules.maxOutgoing
      /\ Cardinality(Arriving(d, to)) <= rules.maxIncoming
      /\ rules.maxTotal # None => OverTeams(Reach(d).outgoing) <= rules.maxTotal
  <2>1. rules.maxTotal # None => OverTeams(Reach(d).outgoing) <= rules.maxTotal
    BY GoodType
  <2>2. /\ Cardinality(Leaving(d, own)) \in rules.minOutgoing .. rules.maxOutgoing
        /\ Cardinality(Arriving(d, to)) \in rules.minIncoming .. rules.maxIncoming
    BY <1>2, GoodType
  <2>3. /\ rules.minOutgoing \in Nat /\ rules.minIncoming \in Nat
        /\ rules.maxOutgoing \in Nat /\ rules.maxIncoming \in Nat
    BY RulesType DEF AmongThree
  <2> HIDE DEF rules
  <2> QED BY <2>1, <2>2, <2>3
<1>10. rules.maxOutgoing \in Nat /\ rules.maxIncoming \in Nat /\ (rules.maxTotal # None => rules.maxTotal \in Nat)
  BY RulesType DEF AmongThree
<1>11. Reach(c).outgoing[own] < rules.maxOutgoing /\ Reach(c).incoming[to] < rules.maxIncoming
  <2>1. Reach(c).outgoing[own] = Cardinality(Leaving(c, own)) /\ Reach(c).incoming[to] = Cardinality(Arriving(c, to))
    BY <1>2, ReachCounts
  <2>2. /\ Cardinality(Leaving(c, own)) \in Nat /\ Cardinality(Arriving(c, to)) \in Nat
        /\ Cardinality(Leaving(d, own)) \in Nat /\ Cardinality(Arriving(d, to)) \in Nat
        /\ Cardinality(Leaving(e, own)) <= Cardinality(Leaving(d, own))
        /\ Cardinality(Arriving(e, to)) <= Cardinality(Arriving(d, to))
    BY <1>2, <1>6, <1>8
  <2>3. Cardinality(Leaving(c, own)) < rules.maxOutgoing
    BY <1>7, <1>9, <1>10, <2>2
  <2>4. Cardinality(Arriving(c, to)) < rules.maxIncoming
    BY <1>7, <1>9, <1>10, <2>2
  <2> QED BY <2>1, <2>3, <2>4
<1>12. rules.maxTotal # None => OverTeams(Reach(c).outgoing) < rules.maxTotal
  <2> DEFINE one == [t \in 1 .. 3 |-> IF t = own THEN 1 ELSE 0]
             s == Reach(c)
             l == Reach(d)
             x == OverTeams(s.outgoing)
             y == OverTeams(l.outgoing)
  <2>1. ASSUME NEW t \in 1 .. 3
        PROVE  s.outgoing[t] \in Nat /\ one[t] \in Nat /\ l.outgoing[t] \in Nat /\ s.outgoing[t] + one[t] <= l.outgoing[t]
    <3>1. s.outgoing[t] = Cardinality(Leaving(c, t)) /\ l.outgoing[t] = Cardinality(Leaving(d, t))
      BY ReachCounts
    <3>2. /\ Cardinality(Leaving(c, t)) \in Nat /\ Cardinality(Leaving(d, t)) \in Nat
          /\ Cardinality(Leaving(e, t)) <= Cardinality(Leaving(d, t))
          /\ Cardinality(Leaving(e, t)) \in Nat
      BY <1>6, <1>8
    <3>3. Cardinality(Leaving(e, t)) = Cardinality(Leaving(c, t)) + one[t] /\ one[t] \in Nat
      <4>1. CASE t = own
        <5>1. one[t] = 1
          BY <4>1
        <5> QED BY <4>1, <5>1, <1>7
      <4>2. CASE t # own
        <5>1. one[t] = 0 /\ Leaving(e, t) = Leaving(c, t)
          BY <4>2, <1>5
        <5> HIDE DEF one
        <5> QED BY <5>1, <3>2
      <4> QED BY <4>1, <4>2
    <3> HIDE DEF one, s, l
    <3> QED BY <3>1, <3>2, <3>3
  <2>2. OverTeams(one) = 1
    BY <1>2 DEF OverTeams
  <2> HIDE DEF one, s, l
  <2>3. x \in Nat /\ OverTeams(one) \in Nat /\ y \in Nat /\ x + OverTeams(one) <= y
    BY <2>1, SumsOfThree
  <2> HIDE DEF x, y
  <2>4. x < y /\ x \in Nat /\ y \in Nat
    BY <2>2, <2>3
  <2>5. rules.maxTotal # None => y <= rules.maxTotal
    BY <1>9 DEF y, l
  <2>6. rules.maxTotal # None => x < rules.maxTotal
    BY <1>10, <2>4, <2>5
  <2> QED BY <2>6 DEF x, s
<1> QED BY <1>11, <1>12 DEF HasRoom, own, to

-----------------------------------------------------------------------------
(* Sequences that list a set, each member once, and what they have left.    *)

(* The rest of a sequence, and of two joined. *)
LEMMA FromType ==
    ASSUME NEW X, NEW s \in Seq(X), NEW n \in Nat
    PROVE  /\ From(s, n) \in Seq(X) /\ Len(s) \in Nat
           /\ Len(From(s, n)) = IF n < Len(s) THEN Len(s) - n ELSE 0
           /\ \A i \in 1 .. Len(From(s, n)) : From(s, n)[i] = s[n + i]
           /\ From(s, 0) = s
<1>1. Len(s) \in Nat /\ \A i \in 1 .. Len(s) : s[i] \in X
  OBVIOUS
<1>2. \A i \in n + 1 .. Len(s) : s[i] \in X
  BY <1>1
<1>3. /\ SubSeq(s, n + 1, Len(s)) \in Seq(X)
      /\ Len(SubSeq(s, n + 1, Len(s))) = IF n + 1 <= Len(s) THEN Len(s) - (n + 1) + 1 ELSE 0
      /\ \A i \in 1 .. Len(s) - (n + 1) + 1 : SubSeq(s, n + 1, Len(s))[i] = s[(n + 1) + i - 1]
  <2>1. n + 1 \in Int /\ Len(s) \in Int
    BY <1>1
  <2> QED BY <2>1, <1>2, SubSeqProperties
<1>4. From(s, 0) = s
  BY SubSeqFull DEF From
<1> QED BY <1>1, <1>3, <1>4 DEF From

LEMMA JoinType ==
    ASSUME NEW X, NEW s \in Seq(X), NEW t \in Seq(X)
    PROVE  /\ s \o t \in Seq(X) /\ Len(s) \in Nat /\ Len(t) \in Nat /\ Len(s \o t) = Len(s) + Len(t)
           /\ \A i \in 1 .. Len(s) + Len(t) : (s \o t)[i] = IF i <= Len(s) THEN s[i] ELSE t[i - Len(s)]
OBVIOUS

LEMMA SameSequence ==
    ASSUME NEW X, NEW s \in Seq(X), NEW t \in Seq(X), Len(s) = Len(t),
           \A i \in 1 .. Len(s) : s[i] = t[i]
    PROVE  s = t
OBVIOUS

LEMMA FromJoin ==
    ASSUME NEW X, NEW s \in Seq(X), NEW t \in Seq(X), NEW n \in Nat
    PROVE  /\ n >= Len(s) => n - Len(s) \in Nat /\ From(s \o t, n) = From(t, n - Len(s))
           /\ n < Len(s) => From(s \o t, n) = From(s, n) \o t
<1> DEFINE j == s \o t
<1>1. /\ j \in Seq(X) /\ Len(s) \in Nat /\ Len(t) \in Nat /\ Len(j) = Len(s) + Len(t)
      /\ \A i \in 1 .. Len(s) + Len(t) : j[i] = IF i <= Len(s) THEN s[i] ELSE t[i - Len(s)]
  BY JoinType
<1> HIDE DEF j
<1>2. /\ From(j, n) \in Seq(X)
      /\ Len(From(j, n)) = IF n < Len(s) + Len(t) THEN Len(s) + Len(t) - n ELSE 0
      /\ \A i \in 1 .. Len(From(j, n)) : From(j, n)[i] = (j)[n + i]
  <2>1. /\ From(j, n) \in Seq(X)
        /\ Len(From(j, n)) = IF n < Len(j) THEN Len(j) - n ELSE 0
        /\ \A i \in 1 .. Len(From(j, n)) : From(j, n)[i] = (j)[n + i]
    <3>1. j \in Seq(X)
      BY <1>1
    <3> QED BY ONLY <3>1, n \in Nat, FromType
  <2> QED BY <1>1, <2>1
<1>3. CASE n >= Len(s)
  <2> DEFINE k == n - Len(s)
  <2>1. k \in Nat
    BY <1>1, <1>3
  <2>2. /\ From(t, k) \in Seq(X) /\ Len(From(t, k)) = (IF k < Len(t) THEN Len(t) - k ELSE 0)
        /\ \A i \in 1 .. Len(From(t, k)) : From(t, k)[i] = t[k + i]
    BY <2>1, FromType
  <2>3. Len(From(j, n)) = Len(From(t, k))
    BY <1>1, <1>2, <1>3, <2>2
  <2>4. ASSUME NEW i \in 1 .. Len(From(t, k))
        PROVE  From(j, n)[i] = From(t, k)[i]
    <3>1. n + i \in 1 .. Len(s) + Len(t) /\ ~(n + i <= Len(s)) /\ n + i - Len(s) = k + i
      BY <1>1, <1>3, <2>1, <2>2
    <3>2. From(j, n)[i] = (j)[n + i] /\ From(t, k)[i] = t[k + i]
      BY <1>2, <2>2, <2>3
    <3> HIDE DEF k
    <3> QED BY <1>1, <3>1, <3>2
  <2> HIDE DEF k
  <2>5. From(j, n) = From(t, k)
    BY <1>2, <2>2, <2>3, <2>4, SameSequence
  <2>6. n < Len(s) => FALSE
    BY <1>1, <1>3
  <2> QED BY <2>1, <2>5, <2>6 DEF k, j
<1>4. CASE n < Len(s)
  <2> DEFINE f == From(s, n)
             r == f \o t
  <2>1. /\ f \in Seq(X) /\ Len(f) = Len(s) - n
        /\ \A i \in 1 .. Len(f) : f[i] = s[n + i]
    BY <1>4, FromType
  <2> HIDE DEF f
  <2>2. /\ r \in Seq(X) /\ Len(r) = Len(s) - n + Len(t)
        /\ \A i \in 1 .. Len(s) - n + Len(t) : r[i] = IF i <= Len(s) - n THEN f[i] ELSE t[i - (Len(s) - n)]
    <3>1. /\ r \in Seq(X) /\ Len(r) = Len(f) + Len(t)
          /\ \A i \in 1 .. Len(f) + Len(t) : r[i] = IF i <= Len(f) THEN f[i] ELSE t[i - Len(f)]
      BY <2>1, JoinType
    <3> HIDE DEF r
    <3> QED BY <2>1, <3>1
  <2>3. Len(From(j, n)) = Len(r)
    BY <1>1, <1>2, <1>4, <2>2
  <2>4. ASSUME NEW i \in 1 .. Len(r)
        PROVE  From(j, n)[i] = r[i]
    <3>1. /\ n + i \in 1 .. Len(s) + Len(t) /\ (n + i <= Len(s) <=> i <= Len(s) - n)
          /\ n + i - Len(s) = i - (Len(s) - n)
          /\ i \in Nat /\ i \in 1 .. Len(s) - n + Len(t)
      BY <1>1, <1>4, <2>2
    <3>2. From(j, n)[i] = (j)[n + i] /\ (i <= Len(s) - n => f[i] = s[n + i])
      <4>1. i \in 1 .. Len(From(j, n))
        BY <2>3
      <4>2. i <= Len(s) - n => i \in 1 .. Len(f)
        BY <1>1, <1>4, <2>1, <3>1
      <4> HIDE DEF r
      <4> QED BY <1>2, <2>1, <4>1, <4>2
    <3> HIDE DEF r
    <3>3. r[i] = IF i <= Len(s) - n THEN f[i] ELSE t[i - (Len(s) - n)]
      BY <2>2, <3>1
    <3>4. j[n + i] = IF n + i <= Len(s) THEN s[n + i] ELSE t[n + i - Len(s)]
      BY <1>1, <3>1
    <3> QED BY <3>1, <3>2, <3>3, <3>4
  <2> HIDE DEF r
  <2>5. From(j, n) = r
    BY <1>2, <2>2, <2>3, <2>4, SameSequence
  <2>6. n >= Len(s) => FALSE
    BY <1>1, <1>4
  <2> QED BY <2>5, <2>6 DEF r, f, j
<1> QED BY <1>1, <1>3, <1>4 DEF j

\* A sequence that lists a set without repeating.
ListsSet(s, C) ==
  /\ s \in Seq(Seq(1 .. 3)) /\ IsInjective(s)
  /\ {s[i] : i \in 1 .. Len(s)} = C

(* Lists of sets that are apart join to a list of both. *)
LEMMA ListsJoin ==
    ASSUME NEW C, NEW D, C \cap D = {}, NEW s, ListsSet(s, C), NEW t, ListsSet(t, D)
    PROVE  ListsSet(s \o t, C \cup D)
<1>1. /\ s \in Seq(Seq(1 .. 3)) /\ t \in Seq(Seq(1 .. 3))
      /\ IsInjective(s) /\ IsInjective(t)
      /\ C = {s[i] : i \in 1 .. Len(s)} /\ D = {t[i] : i \in 1 .. Len(t)}
      /\ Len(s) \in Nat /\ Len(t) \in Nat
  <2>1. s \in Seq(Seq(1 .. 3)) /\ t \in Seq(Seq(1 .. 3))
    BY DEF ListsSet
  <2>2. Len(s) \in Nat /\ Len(t) \in Nat
    BY <2>1
  <2> QED BY <2>1, <2>2 DEF ListsSet
<1> DEFINE j == s \o t
<1>2. /\ j \in Seq(Seq(1 .. 3)) /\ Len(j) = Len(s) + Len(t) /\ DOMAIN j = 1 .. Len(s) + Len(t)
      /\ \A i \in 1 .. Len(s) + Len(t) : j[i] = IF i <= Len(s) THEN s[i] ELSE t[i - Len(s)]
  BY <1>1
<1>3. \A i \in 1 .. Len(j) : \/ i \in 1 .. Len(s) /\ j[i] = s[i]
                             \/ i - Len(s) \in 1 .. Len(t) /\ j[i] = t[i - Len(s)]
  BY <1>1, <1>2
<1>4. /\ \A i \in 1 .. Len(s) : i \in 1 .. Len(j) /\ j[i] = s[i]
      /\ \A i \in 1 .. Len(t) : i + Len(s) \in 1 .. Len(j) /\ j[i + Len(s)] = t[i]
  BY <1>1, <1>2
<1> HIDE DEF j
<1>5. {j[i] : i \in 1 .. Len(j)} = C \cup D
  <2>1. \A i \in 1 .. Len(j) : j[i] \in C \cup D
    BY <1>1, <1>3
  <2>2. \A x \in C : \E i \in 1 .. Len(j) : j[i] = x
    BY <1>1, <1>4
  <2>3. \A x \in D : \E i \in 1 .. Len(j) : j[i] = x
    BY <1>1, <1>4
  <2> QED BY <2>1, <2>2, <2>3
<1>6. IsInjective(j)
  <2> SUFFICES ASSUME NEW i \in 1 .. Len(j), NEW k \in 1 .. Len(j), j[i] = j[k]
               PROVE  i = k
    BY <1>2 DEF IsInjective
  <2>0. DOMAIN s = 1 .. Len(s) /\ DOMAIN t = 1 .. Len(t)
    BY <1>1
  <2>a. (\A x, y \in 1 .. Len(s) : s[x] = s[y] => x = y) /\ (\A x, y \in 1 .. Len(t) : t[x] = t[y] => x = y)
    BY <2>0, <1>1 DEF IsInjective
  <2>b. \A x \in 1 .. Len(s), y \in 1 .. Len(t) : s[x] # t[y]
    BY <1>1
  <2>1. CASE i \in 1 .. Len(s) /\ j[i] = s[i]
    BY <2>1, <2>a, <2>b, <1>3
  <2>2. CASE i - Len(s) \in 1 .. Len(t) /\ j[i] = t[i - Len(s)]
    <3>1. k - Len(s) \in 1 .. Len(t) /\ j[k] = t[k - Len(s)]
      BY <2>2, <2>b, <1>3
    <3>2. i - Len(s) = k - Len(s)
      BY <2>2, <3>1, <2>a
    <3>3. i \in Int /\ k \in Int /\ Len(s) \in Int
      BY <1>1
    <3> QED BY <3>2, <3>3
  <2> QED BY <2>1, <2>2, <1>3
<1> QED BY <1>2, <1>5, <1>6 DEF ListsSet, j

LEMMA ListsNothing ==
    ASSUME NEW s
    PROVE  ListsSet(<<>>, {}) /\ (ListsSet(s, {}) => s = <<>> /\ Len(s) = 0)
<1>1. ListsSet(<<>>, {})
  BY DEF ListsSet, IsInjective
<1>2. ASSUME ListsSet(s, {})
      PROVE  s = <<>> /\ Len(s) = 0
  <2>1. s \in Seq(Seq(1 .. 3)) /\ ~ \E i \in 1 .. Len(s) : TRUE
    BY <1>2 DEF ListsSet
  <2>2. Len(s) \in Nat /\ 1 \notin 1 .. Len(s)
    BY <2>1
  <2>3. Len(s) = 0
    BY <2>2
  <2> QED BY <2>1, <2>3
<1> QED BY <1>1, <1>2

-----------------------------------------------------------------------------
(* The iterator lists the completions of every path.                        *)

\* The iterator at a choice c, its k-th next destination and n candidates to skip; the next choice.
Frame(c, k, n) == [state |-> Reach(c), place |-> k, skip |-> n, chosen |-> c]

Longer(c, k) == Append(c, Place[Ds[Len(c) + 1].origin][k])

Opens(c, k) == HasChild(request, Ds, Reach(c), k)

(* A path goes on in the places its state opens. *)
LEMMA LongerType ==
    ASSUME AmongThree, NEW c \in Seq(1 .. 3), Len(c) < Len(Ds), NEW k \in 1 .. 3
    PROVE  /\ Longer(c, k) \in Seq(1 .. 3) /\ Len(Longer(c, k)) = Len(c) + 1 /\ Len(Longer(c, k)) <= Len(Ds)
           /\ Longer(c, k)[Len(c) + 1] = Place[Ds[Len(c) + 1].origin][k]
           /\ \A i \in 1 .. Len(c) : Longer(c, k)[i] = c[i]
           /\ Child(request, Ds, Reach(c), k) = Reach(Longer(c, k))
           /\ Opens(c, k) => Place[Ds[Len(c) + 1].origin][k] \in Ds[Len(c) + 1].destinations
           /\ IsPath(c) /\ Opens(c, k) => IsPath(Longer(c, k))
<1> DEFINE to == Place[Ds[Len(c) + 1].origin][k]
           e == Append(c, to)
<1>1. /\ Len(c) \in Nat /\ Len(Ds) \in Nat /\ Len(c) + 1 \in 1 .. Len(Ds) /\ Len(c) + 1 <= Len(Ds)
  BY DecisionsType
<1>2. to \in 1 .. 3
  <2>1. Ds[Len(c) + 1].origin \in 1 .. 3
    BY <1>1, DecisionsType
  <2> QED BY <2>1 DEF Place
<1>3. Reach(c).index = Len(c) + 1
  BY ReachCounts
<1>4. Child(request, Ds, Reach(c), k) = Advance(request, Reach(c), Ds[Len(c) + 1], to)
  BY <1>3 DEF Child
<1>5. Opens(c, k) => to \in Ds[Len(c) + 1].destinations
  BY <1>3 DEF Opens, HasChild, IsOpen
<1> HIDE DEF to
<1>6. Child(request, Ds, Reach(c), k) = Reach(e)
  BY <1>2, <1>4, ReachAdvances
<1>7. e \in Seq(1 .. 3) /\ Len(e) = Len(c) + 1 /\ e[Len(c) + 1] = to /\ \A i \in 1 .. Len(c) : e[i] = c[i]
  BY <1>2
<1> HIDE DEF e
<1>8. ASSUME IsPath(c), Opens(c, k)
      PROVE  IsPath(e)
  <2>1. \A i \in 1 .. Len(e) : i \in 1 .. Len(c) \/ i = Len(c) + 1
    BY <1>1, <1>7
  <2>2. \A i \in 1 .. Len(e) : e[i] \in Ds[i].destinations
    BY <1>5, <1>7, <1>8, <2>1 DEF IsPath
  <2> QED BY <1>1, <1>7, <2>2 DEF IsPath
<1> QED BY <1>1, <1>5, <1>6, <1>7, <1>8 DEF Longer, to, e

(* The frames after a path's frame, and what the iterator makes of them. *)
LEMMA NextFrame ==
    ASSUME NEW f \in Frames(request), NEW m
    PROVE  [f EXCEPT !.place = @ + 1, !.skip = m]
             = [state |-> f.state, place |-> f.place + 1, skip |-> m, chosen |-> f.chosen]
<1> DEFINE h == [f EXCEPT !.place = @ + 1, !.skip = m]
<1>1. h.state = f.state /\ h.place = f.place + 1 /\ h.skip = m /\ h.chosen = f.chosen
  BY DEF Frames
<1>2. h \in [state : States(request), place : Int, skip : {m}, chosen : Seq(1 .. 3)]
  <2>1. f.place \in 1 .. 4
    BY DEF Frames
  <2>2. f.place + 1 \in Int
    BY <2>1
  <2> QED BY <2>2 DEF Frames
<1> HIDE DEF h
<1>3. h = [state |-> h.state, place |-> h.place, skip |-> h.skip, chosen |-> h.chosen]
  BY <1>2
<1> QED BY <1>1, <1>3 DEF h

LEMMA Unfolds ==
    ASSUME AmongThree, NEW it, Iterates(Ds, it), NEW c \in Seq(1 .. 3), Len(c) <= Len(Ds), NEW n \in Nat
    PROVE  /\ Len(c) = Len(Ds) => it[Frame(c, 1, n)] = IF Complete(request, Reach(c)) THEN <<c>> ELSE <<>>
           /\ Len(c) < Len(Ds) =>
                /\ it[Frame(c, 4, n)] = <<>>
                /\ \A k \in 1 .. 3 :
                     it[Frame(c, k, n)] =
                       IF ~Opens(c, k) THEN it[Frame(c, k + 1, n)]
                       ELSE IF n >= Below(request, Ds, Reach(Longer(c, k)))
                       THEN it[Frame(c, k + 1, n - Below(request, Ds, Reach(Longer(c, k))))]
                       ELSE it[Frame(Longer(c, k), 1, n)] \o it[Frame(c, k + 1, 0)]
<1>1. Len(c) \in Nat /\ Len(Ds) \in Nat /\ Reach(c).index = Len(c) + 1 /\ Reach(c) \in States(request)
  BY DecisionsType, ReachCounts, ReachType
<1>2. \A k \in 1 .. 4 : Frame(c, k, n) \in Frames(request)
  BY <1>1 DEF Frame, Frames
<1>3. \A k \in 1 .. 4 : it[Frame(c, k, n)] = PathsBody(Ds, Frame(c, k, n), it)
  BY <1>2 DEF Iterates
<1>4. \A k : /\ Frame(c, k, n).state = Reach(c) /\ Frame(c, k, n).place = k /\ Frame(c, k, n).skip = n
             /\ Frame(c, k, n).chosen = c
  BY DEF Frame
<1>5. ASSUME Len(c) = Len(Ds)
      PROVE  it[Frame(c, 1, n)] = IF Complete(request, Reach(c)) THEN <<c>> ELSE <<>>
  <2>0. Frame(c, 1, n).state.index = Reach(c).index
    BY <1>4
  <2>1. Frame(c, 1, n).state.index > Len(Ds)
    BY <1>1, <1>5, <2>0
  <2>2. 1 \in 1 .. 4
    OBVIOUS
  <2>3. it[Frame(c, 1, n)] = PathsBody(Ds, Frame(c, 1, n), it)
    BY <1>3, <2>2
  <2> QED BY <1>4, <2>1, <2>3 DEF PathsBody
<1>6. ASSUME Len(c) < Len(Ds)
      PROVE  it[Frame(c, 4, n)] = <<>>
  <2>0. Frame(c, 4, n).state.index = Reach(c).index
    BY <1>4
  <2>1. ~(Frame(c, 4, n).state.index > Len(Ds))
    BY <1>1, <1>6, <2>0
  <2>2. 4 \in 1 .. 4
    OBVIOUS
  <2>3. it[Frame(c, 4, n)] = PathsBody(Ds, Frame(c, 4, n), it)
    BY <1>3, <2>2
  <2> QED BY <1>4, <2>1, <2>3 DEF PathsBody
<1>7. ASSUME Len(c) < Len(Ds), NEW k \in 1 .. 3
      PROVE  it[Frame(c, k, n)] =
                       IF ~Opens(c, k) THEN it[Frame(c, k + 1, n)]
                       ELSE IF n >= Below(request, Ds, Reach(Longer(c, k)))
                       THEN it[Frame(c, k + 1, n - Below(request, Ds, Reach(Longer(c, k))))]
                       ELSE it[Frame(Longer(c, k), 1, n)] \o it[Frame(c, k + 1, 0)]
  <2> DEFINE f == Frame(c, k, n)
  <2>0. f.state.index = Reach(c).index
    BY <1>4
  <2>1. ~(f.state.index > Len(Ds))
    <3> HIDE DEF f
    <3> QED BY <1>1, <1>7, <2>0
  <2>2. k \in 1 .. 4 /\ k # 4
    OBVIOUS
  <2>3. it[f] = PathsBody(Ds, f, it)
    BY <1>3, <2>2
  <2>4. Child(request, Ds, Reach(c), k) = Reach(Longer(c, k))
    BY <1>7, LongerType
  <2>5. /\ f.state = Reach(c) /\ f.place = k /\ f.skip = n /\ f.chosen = c
    BY <1>4
  <2>8. \A m : [f EXCEPT !.place = @ + 1, !.skip = m] = Frame(c, k + 1, m)
    <3>1. f \in Frames(request)
      BY <1>2, <2>2
    <3> HIDE DEF f
    <3> QED BY <2>5, <3>1, NextFrame DEF Frame
  <2>6. [state |-> Reach(Longer(c, k)), place |-> 1, skip |-> n,
         chosen |-> Append(c, Place[Ds[Reach(c).index].origin][k])] = Frame(Longer(c, k), 1, n)
    BY <1>1 DEF Frame, Longer
  <2> HIDE DEF f
  <2>7. PathsBody(Ds, f, it) =
                       IF ~Opens(c, k) THEN it[Frame(c, k + 1, n)]
                       ELSE IF n >= Below(request, Ds, Reach(Longer(c, k)))
                       THEN it[Frame(c, k + 1, n - Below(request, Ds, Reach(Longer(c, k))))]
                       ELSE it[Frame(Longer(c, k), 1, n)] \o it[Frame(c, k + 1, 0)]
    BY <2>1, <2>2, <2>4, <2>5, <2>6, <2>8, ZenonT(60) DEF PathsBody, Opens
  <2> QED BY <2>3, <2>7 DEF f
<1> QED BY <1>5, <1>6, <1>7

\* What the iterator yields from each count of candidates to skip is the rest of one list of the set.
ListsFrom(it, c, k, C, m) ==
  \E s : /\ ListsSet(s, C) /\ Len(s) = m
         /\ \A n \in Nat : it[Frame(c, k, n)] = From(s, n)

\* All that is below a choice.
Lists(it, c) ==
  \E s : /\ ListsSet(s, Completions(c)) /\ Len(s) = Below(request, Ds, Reach(c))
         /\ \A n \in Nat : (Len(c) < Len(Ds) \/ n < Len(s)) => it[Frame(c, 1, n)] = From(s, n)

(* What is behind the last place of a path, and behind one more place. *)
LEMMA EndLists ==
    ASSUME AmongThree, NEW it, Iterates(Ds, it), NEW c \in Seq(1 .. 3), Len(c) < Len(Ds)
    PROVE  ListsFrom(it, c, 4, {}, 0)
<1>0. Len(c) <= Len(Ds)
  BY DecisionsType
<1>1. \A n \in Nat : it[Frame(c, 4, n)] = <<>>
  BY <1>0, Unfolds
<1>2. \A n \in Nat : From(<<>>, n) = <<>>
  BY SubSeqEmpty DEF From
<1>3. ListsSet(<<>>, {})
  BY ListsNothing
<1>4. Len(<<>>) = 0
  OBVIOUS
<1> QED BY <1>1, <1>2, <1>3, <1>4 DEF ListsFrom

LEMMA StepLists ==
    ASSUME AmongThree, NEW it, Iterates(Ds, it), NEW c \in Seq(1 .. 3), Len(c) < Len(Ds), NEW k \in 1 .. 3,
           NEW C, NEW m \in Nat, ListsFrom(it, c, k + 1, C, m),
           Opens(c, k) => Lists(it, Longer(c, k)),
           ~Opens(c, k) => Completions(Longer(c, k)) = {},
           Completions(Longer(c, k)) \cap C = {}
    PROVE  LET count == IF Opens(c, k) THEN Below(request, Ds, Reach(Longer(c, k))) ELSE 0
           IN count \in Nat /\ ListsFrom(it, c, k, Completions(Longer(c, k)) \cup C, count + m)
<1>0. Len(c) <= Len(Ds)
  BY DecisionsType
<1>1. PICK s : ListsSet(s, C) /\ Len(s) = m /\ \A n \in Nat : it[Frame(c, k + 1, n)] = From(s, n)
  BY DEF ListsFrom
<1>2. s \in Seq(Seq(1 .. 3))
  BY <1>1 DEF ListsSet
<1>3. ASSUME ~Opens(c, k)
      PROVE  ListsFrom(it, c, k, Completions(Longer(c, k)) \cup C, 0 + m)
  <2>1. \A n \in Nat : it[Frame(c, k, n)] = it[Frame(c, k + 1, n)]
    BY <1>0, <1>3, Unfolds
  <2>2. Completions(Longer(c, k)) \cup C = C /\ 0 + m = m
    BY <1>3
  <2> QED BY <1>1, <2>1, <2>2 DEF ListsFrom
<1>4. ASSUME Opens(c, k)
      PROVE  LET count == Below(request, Ds, Reach(Longer(c, k)))
             IN count \in Nat /\ ListsFrom(it, c, k, Completions(Longer(c, k)) \cup C, count + m)
  <2> DEFINE count == Below(request, Ds, Reach(Longer(c, k)))
             e == Longer(c, k)
             D == Completions(e)
  <2>1. PICK t : ListsSet(t, D) /\ Len(t) = count
                 /\ \A n \in Nat : (Len(e) < Len(Ds) \/ n < Len(t)) => it[Frame(e, 1, n)] = From(t, n)
    BY <1>4 DEF Lists
  <2>2. t \in Seq(Seq(1 .. 3)) /\ count \in Nat
    <3>1. t \in Seq(Seq(1 .. 3))
      BY <2>1 DEF ListsSet
    <3>2. Len(t) \in Nat
      BY <3>1
    <3> QED BY <2>1, <3>1, <3>2
  <2>3. ASSUME NEW n \in Nat
        PROVE  it[Frame(c, k, n)] = From(t \o s, n)
    <3>1. it[Frame(c, k, n)] = IF n >= count THEN it[Frame(c, k + 1, n - count)]
                               ELSE it[Frame(e, 1, n)] \o it[Frame(c, k + 1, 0)]
      BY <1>0, <1>4, Unfolds, ZenonT(60)
    <3> HIDE DEF count, e, D
    <3>2. CASE n >= count
      <4>1. n - count \in Nat
        BY <2>2, <3>2
      <4>2. From(t \o s, n) = From(s, n - count)
        BY <1>2, <2>1, <2>2, <3>2, FromJoin, ZenonT(60)
      <4> QED BY <1>1, <3>1, <3>2, <4>1, <4>2
    <3>3. CASE ~(n >= count)
      <4>1. n < Len(t)
        BY <2>1, <2>2, <3>3
      <4>2. From(t \o s, n) = From(t, n) \o s
        BY <1>2, <2>2, <4>1, FromJoin
      <4>3. it[Frame(e, 1, n)] = From(t, n)
        BY <2>1, <4>1
      <4>4. it[Frame(c, k + 1, 0)] = s
        BY <1>1, <1>2, FromType
      <4> QED BY <3>1, <3>3, <4>2, <4>3, <4>4
    <3> QED BY <3>2, <3>3
  <2> HIDE DEF count, e, D
  <2>4. ListsSet(t \o s, D \cup C)
    <3>1. D \cap C = {}
      BY DEF D, e
    <3> QED BY <1>1, <2>1, <3>1, ListsJoin
  <2>5. Len(t \o s) = count + m
    BY <1>1, <1>2, <2>1, <2>2, JoinType
  <2>6. ListsFrom(it, c, k, D \cup C, count + m)
    BY <2>3, <2>4, <2>5 DEF ListsFrom
  <2> QED BY <2>2, <2>6 DEF count, e, D
<1> QED BY <1>3, <1>4

(* The count below a path that is not given up is the sum over the paths that go on from it. *)
LEMMA BelowUnfolds ==
    ASSUME AmongThree, NEW c \in Seq(1 .. 3), Len(c) <= Len(Ds)
    PROVE  /\ Below(request, Ds, Reach(c)) \in Nat
           /\ Impossible(request, Ds, Reach(c)) => Below(request, Ds, Reach(c)) = 0
           /\ ~Impossible(request, Ds, Reach(c)) /\ Len(c) = Len(Ds) =>
                Below(request, Ds, Reach(c)) = IF Complete(request, Reach(c)) THEN 1 ELSE 0
           /\ ~Impossible(request, Ds, Reach(c)) /\ Len(c) < Len(Ds) =>
                Below(request, Ds, Reach(c)) =
                  OverTeams([k \in 1 .. 3 |-> IF Opens(c, k) THEN Below(request, Ds, Reach(Longer(c, k))) ELSE 0])
<1>1. Len(c) \in Nat /\ Len(Ds) \in Nat /\ Reach(c).index = Len(c) + 1 /\ Reach(c) \in States(request)
  BY DecisionsType, ReachCounts, ReachType
<1> DEFINE s == Reach(c)
<1>2. /\ Below(request, Ds, s) \in Nat
      /\ Below(request, Ds, s) =
               IF Impossible(request, Ds, s) THEN 0
               ELSE IF s.index > Len(Ds) THEN IF Complete(request, s) THEN 1 ELSE 0
               ELSE OverTeams([k \in 1 .. 3 |-> IF HasChild(request, Ds, s, k)
                                 THEN Below(request, Ds, Child(request, Ds, s, k)) ELSE 0])
  BY <1>1, ChildType, CountRecursion
<1>3. ASSUME Len(c) < Len(Ds)
      PROVE  [k \in 1 .. 3 |-> IF HasChild(request, Ds, s, k) THEN Below(request, Ds, Child(request, Ds, s, k)) ELSE 0]
               = [k \in 1 .. 3 |-> IF Opens(c, k) THEN Below(request, Ds, Reach(Longer(c, k))) ELSE 0]
  <2>1. \A k \in 1 .. 3 : Child(request, Ds, s, k) = Reach(Longer(c, k)) /\ (HasChild(request, Ds, s, k) <=> Opens(c, k))
    BY <1>3, LongerType DEF Opens
  <2> HIDE DEF s
  <2> QED BY <2>1
<1>4. Len(c) = Len(Ds) => s.index > Len(Ds)
  BY <1>1
<1>5. Len(c) < Len(Ds) => ~(s.index > Len(Ds))
  BY <1>1
<1> HIDE DEF s
<1> QED BY <1>2, <1>3, <1>4, <1>5 DEF s

(* A whole path lists itself if it is good; a path lists what its places list. *)
LEMMA LeafLists ==
    ASSUME AmongThree, NEW it, Iterates(Ds, it), NEW c, IsPath(c), Len(c) = Len(Ds)
    PROVE  Lists(it, c)
<1>1. /\ c \in Seq(1 .. 3) /\ Len(c) <= Len(Ds) /\ Len(c) \in Nat /\ Len(Ds) \in Nat /\ ~(Len(c) < Len(Ds))
  BY DecisionsType DEF IsPath
<1>2. \A n \in Nat : it[Frame(c, 1, n)] = IF Complete(request, Reach(c)) THEN <<c>> ELSE <<>>
  BY <1>1, Unfolds
<1>3. \A d \in Completions(c) : d = c /\ IsGood(d)
  <2> SUFFICES ASSUME NEW d \in Completions(c)
               PROVE  d = c /\ IsGood(d)
    OBVIOUS
  <2>1. d \in Seq(1 .. 3) /\ IsGood(d) /\ Len(d) = Len(c) /\ \A i \in 1 .. Len(c) : d[i] = c[i]
    BY DEF Completions, Extends, IsGood
  <2> QED BY <1>1, <2>1, SameSequence
<1>4. CASE Complete(request, Reach(c))
  <2>1. IsGood(c) /\ Extends(c, c)
    BY <1>1, <1>4 DEF IsGood, Extends
  <2>2. Completions(c) = {c}
    BY <1>1, <1>3, <2>1 DEF Completions
  <2>3. ~Impossible(request, Ds, Reach(c))
    BY <1>1, <2>1, NoTradeIsGivenUp
  <2>4. Below(request, Ds, Reach(c)) = 1
    BY <1>1, <1>4, <2>3, BelowUnfolds
  <2>5. ListsSet(<<c>>, {c}) /\ Len(<<c>>) = 1
    <3>1. <<c>> \in Seq(Seq(1 .. 3)) /\ Len(<<c>>) = 1 /\ DOMAIN <<c>> = 1 .. 1 /\ <<c>>[1] = c
      BY <1>1
    <3>2. IsInjective(<<c>>)
      BY <3>1 DEF IsInjective
    <3>3. {<<c>>[i] : i \in 1 .. Len(<<c>>)} = {c}
      BY <3>1
    <3> QED BY <3>1, <3>2, <3>3 DEF ListsSet
  <2>6. \A n \in Nat : n < Len(<<c>>) => it[Frame(c, 1, n)] = From(<<c>>, n)
    <3> SUFFICES ASSUME NEW n \in Nat, n < 1
                 PROVE  it[Frame(c, 1, n)] = From(<<c>>, n)
      BY <2>5
    <3>1. n = 0
      OBVIOUS
    <3>2. From(<<c>>, 0) = <<c>>
      <4>1. <<c>> \in Seq(Seq(1 .. 3))
        BY <1>1
      <4> QED BY <4>1, FromType
    <3> QED BY <1>2, <1>4, <3>1, <3>2
  <2> QED BY <1>1, <2>2, <2>4, <2>5, <2>6 DEF Lists
<1>5. CASE ~Complete(request, Reach(c))
  <2>1. Completions(c) = {}
    BY <1>3, <1>5 DEF IsGood
  <2>2. Below(request, Ds, Reach(c)) = 0
    BY <1>1, <1>5, BelowUnfolds
  <2>3. ListsSet(<<>>, {}) /\ Len(<<>>) = 0
    BY ListsNothing
  <2>4. \A n \in Nat : ~(n < 0)
    OBVIOUS
  <2> QED BY <1>1, <2>1, <2>2, <2>3, <2>4 DEF Lists
<1> QED BY <1>4, <1>5

(* The ways to go on from a choice. *)
LEMMA LongerChoices ==
    ASSUME AmongThree, NEW c, IsPath(c), Len(c) < Len(Ds)
    PROVE  /\ \A k \in 1 .. 3 : ~Opens(c, k) => Completions(Longer(c, k)) = {}
           /\ \A j, k \in 1 .. 3 : j # k => Completions(Longer(c, j)) \cap Completions(Longer(c, k)) = {}
           /\ Completions(c) =
                Completions(Longer(c, 1)) \cup Completions(Longer(c, 2)) \cup Completions(Longer(c, 3))
<1> DEFINE n == Len(c) + 1
           own == Ds[n].origin
<1>1. /\ c \in Seq(1 .. 3) /\ Len(c) <= Len(Ds) /\ Len(c) \in Nat /\ Len(Ds) \in Nat /\ n \in 1 .. Len(Ds)
      /\ own \in 1 .. 3
  BY DecisionsType DEF IsPath
<1>2. /\ \A k \in 1 .. 3 : Place[own][k] \in 1 .. 3
      /\ \A j, k \in 1 .. 3 : j # k => Place[own][j] # Place[own][k]
      /\ \A to \in 1 .. 3 : \E k \in 1 .. 3 : to = Place[own][k]
  <2>1. own = 1 \/ own = 2 \/ own = 3
    BY <1>1
  <2> HIDE DEF own
  <2> QED BY <2>1 DEF Place
<1>3. \A k \in 1 .. 3 :
        /\ Longer(c, k) \in Seq(1 .. 3) /\ Len(Longer(c, k)) = n
        /\ Longer(c, k)[n] = Place[own][k]
        /\ \A i \in 1 .. Len(c) : Longer(c, k)[i] = c[i]
  BY <1>1, LongerType
<1>4. ASSUME NEW d, IsGood(d)
      PROVE  /\ d \in Seq(1 .. 3) /\ Len(d) = Len(Ds) /\ d[n] \in 1 .. 3 /\ d[n] \in Ds[n].destinations
             /\ Len(c) <= Len(d) /\ n <= Len(d)
  <2>1. d \in Seq(1 .. 3) /\ Len(d) = Len(Ds) /\ \A i \in 1 .. Len(d) : d[i] \in Ds[i].destinations
    BY <1>4 DEF IsGood, IsPath
  <2>2. Len(c) <= Len(d) /\ n <= Len(d)
    BY <1>1, <2>1
  <2> HIDE DEF n
  <2> QED BY <1>1, <2>1, <2>2
<1>5. ASSUME NEW d, IsGood(d), NEW k \in 1 .. 3
      PROVE  Extends(d, Longer(c, k)) <=> Extends(d, c) /\ d[n] = Place[own][k]
  <2>1. \A i \in 1 .. n : i \in 1 .. Len(c) \/ i = n
    BY <1>1
  <2>2. \A i \in 1 .. Len(c) : i \in 1 .. n
    BY <1>1
  <2>3. n \in 1 .. n
    BY <1>1
  <2>4. Len(c) <= Len(d) /\ n <= Len(d)
    BY <1>4, <1>5
  <2> HIDE DEF n, own
  <2>5. Extends(d, Longer(c, k)) <=> \A i \in 1 .. n : d[i] = Longer(c, k)[i]
    BY <1>3, <2>4 DEF Extends
  <2>6. Extends(d, c) <=> \A i \in 1 .. Len(c) : d[i] = c[i]
    BY <2>4 DEF Extends
  <2> QED BY <1>3, <2>1, <2>2, <2>3, <2>5, <2>6
<1>6. ASSUME NEW k \in 1 .. 3, NEW d, IsGood(d), Extends(d, Longer(c, k))
      PROVE  Opens(c, k)
  <2>1. Extends(d, c) /\ d[n] = Place[own][k]
    BY <1>5, <1>6
  <2>2. d[n] \in Ds[n].destinations
    BY <1>4, <1>6
  <2>3. d[n] # own => HasRoom(request.rules, Reach(c), own, d[n])
    BY <1>1, <1>6, <2>1, TradesHaveRoom
  <2>4. Reach(c).index = n
    BY ReachCounts
  <2> HIDE DEF n, own
  <2>5. IsOpen(request, Reach(c), Ds[n], d[n])
    BY <2>2, <2>3 DEF IsOpen, own
  <2> QED BY <2>1, <2>4, <2>5 DEF Opens, HasChild, own
<1> HIDE DEF n, own
<1>7. \A k \in 1 .. 3 : ~Opens(c, k) => Completions(Longer(c, k)) = {}
  BY <1>6 DEF Completions
<1>8. ASSUME NEW j \in 1 .. 3, NEW k \in 1 .. 3, j # k
      PROVE  Completions(Longer(c, j)) \cap Completions(Longer(c, k)) = {}
  BY <1>2, <1>5, <1>8 DEF Completions
<1>9. ASSUME NEW d
      PROVE  d \in Completions(c) <=> \E k \in 1 .. 3 : d \in Completions(Longer(c, k))
  <2>1. CASE d \in Seq(1 .. 3) /\ IsGood(d)
    <3>1. Extends(d, c) <=> \E k \in 1 .. 3 : Extends(d, Longer(c, k))
      BY <1>2, <1>4, <1>5, <2>1
    <3> QED BY <2>1, <3>1 DEF Completions
  <2>2. CASE ~(d \in Seq(1 .. 3) /\ IsGood(d))
    BY <2>2 DEF Completions
  <2> QED BY <2>1, <2>2
<1>10. \A P : (\E k \in 1 .. 3 : k \in P) <=> 1 \in P \/ 2 \in P \/ 3 \in P
  OBVIOUS
<1>11. Completions(c) =
                Completions(Longer(c, 1)) \cup Completions(Longer(c, 2)) \cup Completions(Longer(c, 3))
  <2>1. \A k \in 1 .. 3 : k = 1 \/ k = 2 \/ k = 3
    OBVIOUS
  <2> QED BY <1>9, <2>1
<1> QED BY <1>7, <1>8, <1>11

LEMMA BranchLists ==
    ASSUME AmongThree, NEW it, Iterates(Ds, it), NEW c, IsPath(c), Len(c) < Len(Ds),
           \A k \in 1 .. 3 : Opens(c, k) => Lists(it, Longer(c, k))
    PROVE  Lists(it, c)
<1> DEFINE x == [k \in 1 .. 3 |-> IF Opens(c, k) THEN Below(request, Ds, Reach(Longer(c, k))) ELSE 0]
           C(k) == Completions(Longer(c, k))
<1>1. /\ c \in Seq(1 .. 3) /\ Len(c) <= Len(Ds)
      /\ \A k \in 1 .. 3 : /\ ~Opens(c, k) => C(k) = {}
                           /\ \A j \in 1 .. 3 : j # k => C(j) \cap C(k) = {}
      /\ Completions(c) = C(1) \cup C(2) \cup C(3)
  BY LongerChoices, DecisionsType DEF IsPath
<1>2. ListsFrom(it, c, 4, {}, 0)
  BY <1>1, EndLists
<1>3. x[3] \in Nat /\ ListsFrom(it, c, 3, C(3) \cup {}, x[3] + 0)
  <2>1. 3 \in 1 .. 3 /\ 3 + 1 = 4 /\ 0 \in Nat /\ C(3) \cap {} = {}
    OBVIOUS
  <2>2. x[3] = IF Opens(c, 3) THEN Below(request, Ds, Reach(Longer(c, 3))) ELSE 0
    BY <2>1
  <2> HIDE DEF x
  <2> QED BY <1>1, <1>2, <2>1, <2>2, StepLists, ZenonT(60)
<1>4. x[2] \in Nat /\ ListsFrom(it, c, 2, C(2) \cup (C(3) \cup {}), x[2] + (x[3] + 0))
  <2>1. 2 \in 1 .. 3 /\ 3 \in 1 .. 3 /\ 2 + 1 = 3 /\ x[3] + 0 \in Nat
    BY <1>3
  <2>2. x[2] = IF Opens(c, 2) THEN Below(request, Ds, Reach(Longer(c, 2))) ELSE 0
    BY <2>1
  <2>3. C(2) \cap (C(3) \cup {}) = {}
    BY <1>1, <2>1
  <2> DEFINE U == C(3) \cup {}
             m == x[3] + 0
  <2>4. ListsFrom(it, c, 2 + 1, U, m) /\ m \in Nat /\ C(2) \cap U = {}
    BY <1>3, <2>1, <2>3
  <2> HIDE DEF x, U, m
  <2>5. x[2] \in Nat /\ ListsFrom(it, c, 2, C(2) \cup U, x[2] + m)
    BY <1>1, <2>1, <2>2, <2>4, StepLists
  <2> QED BY <2>5 DEF U, m
<1>5. x[1] \in Nat /\ ListsFrom(it, c, 1, C(1) \cup (C(2) \cup (C(3) \cup {})), x[1] + (x[2] + (x[3] + 0)))
  <2>1. 1 \in 1 .. 3 /\ 2 \in 1 .. 3 /\ 3 \in 1 .. 3 /\ 1 + 1 = 2 /\ x[2] + (x[3] + 0) \in Nat
    BY <1>3, <1>4
  <2>2. x[1] = IF Opens(c, 1) THEN Below(request, Ds, Reach(Longer(c, 1))) ELSE 0
    BY <2>1
  <2>3. C(1) \cap (C(2) \cup (C(3) \cup {})) = {}
    BY <1>1, <2>1
  <2> DEFINE U == C(2) \cup (C(3) \cup {})
             m == x[2] + (x[3] + 0)
  <2>4. ListsFrom(it, c, 1 + 1, U, m) /\ m \in Nat /\ C(1) \cap U = {}
    BY <1>4, <2>1, <2>3
  <2> HIDE DEF x, U, m
  <2>5. x[1] \in Nat /\ ListsFrom(it, c, 1, C(1) \cup U, x[1] + m)
    BY <1>1, <2>1, <2>2, <2>4, StepLists
  <2> QED BY <2>5 DEF U, m
<1>6. C(1) \cup (C(2) \cup (C(3) \cup {})) = Completions(c)
  BY <1>1
<1>7. x[1] + (x[2] + (x[3] + 0)) = OverTeams(x)
  <2> HIDE DEF x
  <2> QED BY <1>3, <1>4, <1>5 DEF OverTeams
<1>8. PICK s : /\ ListsSet(s, Completions(c)) /\ Len(s) = OverTeams(x)
               /\ \A n \in Nat : it[Frame(c, 1, n)] = From(s, n)
  <2> HIDE DEF x, C
  <2> QED BY <1>5, <1>6, <1>7 DEF ListsFrom
<1>9. Len(s) = Below(request, Ds, Reach(c))
  <2>1. CASE Impossible(request, Ds, Reach(c))
    <3>1. Completions(c) = {}
      BY <1>1, <2>1, NoTradeIsGivenUp DEF Completions
    <3>2. Len(s) = 0
      BY <1>8, <3>1, ListsNothing
    <3> QED BY <1>1, <2>1, <3>2, BelowUnfolds
  <2>2. CASE ~Impossible(request, Ds, Reach(c))
    BY <1>1, <1>8, <2>2, BelowUnfolds
  <2> QED BY <2>1, <2>2
<1> QED BY <1>8, <1>9 DEF Lists

(* Everything below every choice is listed. *)
LEMMA AllIsListed ==
    ASSUME AmongThree, NEW it, Iterates(Ds, it), NEW c, IsPath(c)
    PROVE  Lists(it, c)
<1> DEFINE S == {Len(Ds) - Len(b) : b \in {b \in Seq(1 .. 3) : IsPath(b) /\ ~Lists(it, b)}}
<1>1. \A b : IsPath(b) => b \in Seq(1 .. 3) /\ Len(b) \in Nat /\ Len(Ds) \in Nat /\ Len(b) <= Len(Ds)
  BY DecisionsType DEF IsPath
<1>2. S \subseteq Nat
  BY <1>1
<1> SUFFICES ASSUME ~Lists(it, c)
             PROVE  FALSE
  OBVIOUS
<1>3. Len(Ds) - Len(c) \in S
  BY <1>1
<1>4. PICK n \in S : \A m \in S : n <= m
  <2> HIDE DEF S
  <2> QED BY <1>2, <1>3, LeastNatural
<1>5. PICK b \in Seq(1 .. 3) : IsPath(b) /\ ~Lists(it, b) /\ n = Len(Ds) - Len(b)
  OBVIOUS
<1>6. Len(b) \in Nat /\ Len(Ds) \in Nat /\ Len(b) <= Len(Ds)
  BY <1>1, <1>5
<1>7. Len(b) < Len(Ds)
  BY <1>5, <1>6, LeafLists
<1>8. ASSUME NEW k \in 1 .. 3, Opens(b, k), ~Lists(it, Longer(b, k))
      PROVE  FALSE
  <2>1. /\ Longer(b, k) \in Seq(1 .. 3) /\ IsPath(Longer(b, k)) /\ Len(Longer(b, k)) = Len(b) + 1
    BY <1>5, <1>7, <1>8, LongerType
  <2>2. Len(Ds) - Len(Longer(b, k)) \in S
    BY <1>8, <2>1
  <2> HIDE DEF S
  <2>3. n <= Len(Ds) - (Len(b) + 1)
    BY <1>4, <2>1, <2>2
  <2> QED BY <1>5, <1>6, <2>3
<1> QED BY <1>5, <1>7, <1>8, BranchLists

(* From every index on, the iteration of the paths is the rest of one list of them, as long as *)
(* was counted. *)
LEMMA PathsAreListed ==
    ASSUME AmongThree
    PROVE  \E s : /\ ListsSet(s, {d \in Seq(1 .. 3) : IsGood(d)})
                  /\ Len(s) = ThreeTeamsCount(request)
                  /\ \A n \in Nat : Paths(request, Ds, n) = From(s, n)
<1>1. Len(Ds) \in Nat /\ \A i \in 1 .. Len(Ds) : Ds[i].origin \in 1 .. 3
  BY DecisionsType
<1>2. PICK it : Iterates(Ds, it)
  BY <1>1, ChildType, PathsRecursion
<1> DEFINE c == <<>>
<1>3. IsPath(c) /\ c \in Seq(1 .. 3) /\ Len(c) = 0
  BY <1>1 DEF IsPath
<1>4. Reach(c) = Start
  BY ReachStart
<1>5. Completions(c) = {d \in Seq(1 .. 3) : IsGood(d)}
  BY <1>3 DEF Completions, Extends
<1> HIDE DEF c
<1>6. PICK s : /\ ListsSet(s, Completions(c)) /\ Len(s) = Below(request, Ds, Start)
               /\ \A n \in Nat : (Len(c) < Len(Ds) \/ n < Len(s)) => it[Frame(c, 1, n)] = From(s, n)
  BY <1>2, <1>3, <1>4, AllIsListed DEF Lists
<1>7. \A n \in Nat : Paths(request, Ds, n) = it[Frame(c, 1, n)]
  <2>1. \A n \in Nat : Frame(c, 1, n) = [state |-> Start, place |-> 1, skip |-> n, chosen |-> <<>>]
    BY <1>4 DEF Frame, c
  <2> QED BY <1>2, <2>1 DEF Iterates
<1>8. Below(request, Ds, Start) = ThreeTeamsCount(request)
  BY DEF ThreeTeamsCount, Ds
<1>9. CASE Len(Ds) # 0
  <2>1. Len(c) < Len(Ds)
    BY <1>1, <1>3, <1>9
  <2> QED BY <1>5, <1>6, <1>7, <1>8, <2>1
<1>10. CASE Len(Ds) = 0
  <2>1. ~IsGood(c)
    <3> SUFFICES ASSUME IsGood(c)
                 PROVE  FALSE
      OBVIOUS
    <3>1. Cardinality(Leaving(c, 1)) \in request.rules.minOutgoing .. request.rules.maxOutgoing
      <4>1. 1 \in 1 .. 3
        OBVIOUS
      <4> QED BY <4>1, GoodType
    <3>2. Leaving(c, 1) = {}
      BY <1>3 DEF Leaving
    <3>3. Cardinality(Leaving(c, 1)) = 0
      BY <3>2, FS_EmptySet
    <3> QED BY <3>1, <3>3, RulesType DEF AmongThree
  <2>2. ~Complete(request, Reach(c))
    BY <1>3, <1>10, <2>1 DEF IsGood
  <2>3. \A n \in Nat : it[Frame(c, 1, n)] = <<>>
    <3>1. Len(c) = Len(Ds) /\ Len(c) <= Len(Ds)
      BY <1>3, <1>10
    <3> SUFFICES ASSUME NEW n \in Nat
                 PROVE  it[Frame(c, 1, n)] = <<>>
      OBVIOUS
    <3>2. it[Frame(c, 1, n)] = IF Complete(request, Reach(c)) THEN <<c>> ELSE <<>>
      <4>1. c \in Seq(1 .. 3) /\ Len(c) <= Len(Ds) /\ Len(c) = Len(Ds) /\ Iterates(Ds, it)
        BY <1>2, <1>3, <3>1
      <4> QED BY ONLY <4>1, AmongThree, n \in Nat, Unfolds
    <3> QED BY <2>2, <3>2
  <2>4. Completions(c) = {}
    <3> SUFFICES ASSUME NEW d \in Seq(1 .. 3), IsGood(d)
                 PROVE  FALSE
      BY DEF Completions
    <3>1. Len(d) = 0
      BY <1>10 DEF IsGood
    <3>2. d = c
      BY <3>1, <1>3 DEF c
    <3> QED BY <2>1, <3>2
  <2>5. s = <<>>
    BY <1>6, <2>4, ListsNothing
  <2>6. \A n \in Nat : From(<<>>, n) = <<>>
    BY SubSeqEmpty DEF From
  <2> QED BY <1>5, <1>6, <1>7, <1>8, <2>3, <2>5, <2>6
<1> QED BY <1>9, <1>10

(* A finite set can be lined up. *)
LEMMA FiniteLine ==
    ASSUME NEW S, IsFiniteSet(S)
    PROVE  \E line : line \in Seq(Range(line)) /\ IsInjective(line) /\ Range(line) = S
<1>1. PICK n \in Nat : ExistsBijection(1 .. n, S)
  BY FS_NatBijection
<1>2. PICK f : f \in Bijection(1 .. n, S)
  BY <1>1 DEF ExistsBijection
<1>3. f \in [1 .. n -> S] /\ (\A i, j \in 1 .. n : f[i] = f[j] => i = j) /\ \A x \in S : \E i \in 1 .. n : f[i] = x
  BY <1>2 DEF Bijection, Injection, Surjection, IsInjective
<1>4. f \in Seq(S)
  BY <1>3
<1>5. Range(f) = S
  BY <1>3 DEF Range
<1>6. IsInjective(f)
  BY <1>3 DEF IsInjective
<1> QED BY <1>4, <1>5, <1>6

(* The plan for the players a team sends and receives admits them exactly if it can make room. *)
LEMMA SetsDecide ==
    ASSUME request \in Requests, NEW t \in Teams(request),
           NEW sent, sent \subseteq Owned(request.rosters[t]),
           NEW received, IsFiniteSet(received), received \cap Owned(request.rosters[t]) = {}
    PROVE  Admits(PlanFor(request.rosters[t], Placements, sent, received), request.rules.noDrops) <=>
             CanMakeRoom(request.rosters[t], Owned(request.rosters[t]) \ sent, received, request.rules.noDrops)
<1> DEFINE before == request.rosters[t]
<1>1. IsRoster(before) /\ request.rules.noDrops \in BOOLEAN
  BY RequestType
<1>2. PICK in : in \in Seq(Range(in)) /\ IsInjective(in) /\ Range(in) = received
  BY FiniteLine
<1> DEFINE line == before.players \o in
<1>3. before.players \in Seq(Range(before.players)) /\ Owned(before) = Range(before.players) /\ IsInjective(before.players)
  BY <1>1 DEF IsRoster, Owned
<1>4. before.slots \in [Kinds -> Nat]
  BY <1>1 DEF IsRoster
<1> HIDE DEF before
<1>5. line \in Seq(Range(line)) /\ IsInjective(line) /\ Owned(before) \cup received \subseteq Range(line)
  <2>1. Range(before.players) \cap Range(in) = {}
    BY <1>2, <1>3 DEF before
  <2>2. line \in Seq(Range(line)) /\ IsInjective(line)
    BY <1>2, <1>3, <2>1, JoinIsInjective
  <2>3. Range(before.players) \cup Range(in) \subseteq Range(line)
    BY <1>2, <1>3, LineHoldsAll
  <2> QED BY <1>2, <1>3, <2>2, <2>3
<1> HIDE DEF line
<1>6. Seating(Placements, before.slots, line)
  BY <1>4, <1>5, PlacementsType DEF Seating
<1>7. \A kind \in Kinds :
        OfKind(Placements, Owned(before), kind) = OfKind(before.kindOf, Owned(before), kind)
  BY PlacedAsBefore DEF before
<1>8. Trading(before, Placements, line, sent, received)
  BY <1>1, <1>5, <1>6, <1>7 DEF Trading, before
<1>9. \A kept : CanMakeRoom(before, kept, received, request.rules.noDrops)
        <=> \E cut \in IF request.rules.noDrops THEN {{}} ELSE SUBSET kept :
              MakesRoom(before, Placements, kept, received, cut)
  BY DEF CanMakeRoom, MakesRoom
<1>10. Kept(before, sent) = Owned(before) \ sent /\ Cuts(before, sent) = SUBSET Kept(before, sent)
  BY DEF Kept, Cuts
<1>11. Admits(PlanFor(before, Placements, sent, received), request.rules.noDrops)
          <=> \E cut \in IF request.rules.noDrops THEN {{}} ELSE Cuts(before, sent) :
                MakesRoom(before, Placements, Kept(before, sent), received, cut)
  BY <1>1, <1>8, PlanIsExact
<1>12. Admits(PlanFor(before, Placements, sent, received), request.rules.noDrops)
         <=> CanMakeRoom(before, Owned(before) \ sent, received, request.rules.noDrops)
  <2> DEFINE kept == Owned(before) \ sent
  <2>1. CanMakeRoom(before, kept, received, request.rules.noDrops)
          <=> \E cut \in IF request.rules.noDrops THEN {{}} ELSE SUBSET kept :
                MakesRoom(before, Placements, kept, received, cut)
    BY <1>9
  <2> QED BY <1>10, <1>11, <2>1
<1> QED BY <1>12 DEF before

-----------------------------------------------------------------------------
(* The move that a choice for every player makes.                           *)

\* The players of the three teams.
Everyone == UNION {Owned(request.rosters[t]) : t \in 1 .. 3}

\* Whose turn a player is, the move that a choice for every player makes.
IndexOf(p) == CHOOSE i \in 1 .. Len(Ds) : Ds[i].player = p

MoveMade(d) == [p \in Everyone |-> d[IndexOf(p)]]

(* Every player has his turn, and every turn its player. *)
LEMMA EveryoneDecides ==
    ASSUME AmongThree
    PROVE  /\ \A p \in Everyone : IndexOf(p) \in 1 .. Len(Ds) /\ Ds[IndexOf(p)].player = p
           /\ \A i \in 1 .. Len(Ds) : Ds[i].player \in Everyone /\ IndexOf(Ds[i].player) = i
<1>1. ASSUME NEW p \in Everyone
      PROVE  IndexOf(p) \in 1 .. Len(Ds) /\ Ds[IndexOf(p)].player = p
  <2>1. \E i \in 1 .. Len(Ds) : Ds[i].player = p
    BY DecisionsType DEF Everyone
  <2> QED BY <2>1 DEF IndexOf
<1>2. \A i \in 1 .. Len(Ds) : Ds[i].player \in Everyone
  BY DecisionsType DEF Everyone
<1>3. \A i \in 1 .. Len(Ds) : IndexOf(Ds[i].player) = i
  BY <1>1, <1>2, DecisionsType
<1> QED BY <1>1, <1>2, <1>3

(* Who leaves and who comes by a choice is who does by its move. *)
LEMMA MoveMadeType ==
    ASSUME AmongThree, NEW d \in Seq(1 .. 3), Len(d) = Len(Ds)
    PROVE  /\ MoveMade(d) \in [Everyone -> 1 .. 3]
           /\ \A i \in 1 .. Len(Ds) : MoveMade(d)[Ds[i].player] = d[i]
           /\ \A t \in 1 .. 3 : {p \in Owned(request.rosters[t]) : MoveMade(d)[p] # t} = Leaving(d, t)
           /\ \A t \in 1 .. 3 : {p \in Everyone \ Owned(request.rosters[t]) : MoveMade(d)[p] = t} = Arriving(d, t)
<1>1. \A i \in 1 .. Len(Ds) : d[i] \in 1 .. 3
  BY DecisionsType
<1>2. MoveMade(d) \in [Everyone -> 1 .. 3]
  BY <1>1, EveryoneDecides DEF MoveMade
<1>3. \A i \in 1 .. Len(Ds) : MoveMade(d)[Ds[i].player] = d[i]
  BY EveryoneDecides DEF MoveMade
<1>4. ASSUME NEW t \in 1 .. 3
      PROVE  /\ {p \in Owned(request.rosters[t]) : MoveMade(d)[p] # t} = Leaving(d, t)
             /\ {p \in Everyone \ Owned(request.rosters[t]) : MoveMade(d)[p] = t} = Arriving(d, t)
  <2>1. \A i \in 1 .. Len(Ds) : Ds[i].player \in Owned(request.rosters[t]) <=> t = Ds[i].origin
    BY DecisionsType
  <2>2. Owned(request.rosters[t]) \subseteq Everyone
    BY DEF Everyone
  <2>3. \A p \in Everyone : \E i \in 1 .. Len(Ds) : p = Ds[i].player
    BY EveryoneDecides
  <2>4. \A i \in 1 .. Len(Ds) : Ds[i].player \in Everyone
    BY EveryoneDecides
  <2>5. ASSUME NEW p
        PROVE  p \in {p_1 \in Owned(request.rosters[t]) : MoveMade(d)[p_1] # t} <=> p \in Leaving(d, t)
    BY <1>3, <2>1, <2>2, <2>3 DEF Leaving
  <2>6. ASSUME NEW p
        PROVE  p \in {p_1 \in Everyone \ Owned(request.rosters[t]) : MoveMade(d)[p_1] = t} <=> p \in Arriving(d, t)
    BY <1>3, <2>1, <2>3, <2>4 DEF Arriving
  <2> QED BY <2>5, <2>6
<1> QED BY <1>2, <1>3, <1>4

(* Every way to place the players is made by exactly one choice for each. *)
LEMMA MovesAreMade ==
    ASSUME AmongThree
    PROVE  /\ \A m \in [Everyone -> 1 .. 3] : \E d \in Seq(1 .. 3) : Len(d) = Len(Ds) /\ MoveMade(d) = m
           /\ \A d, e \in Seq(1 .. 3) :
                Len(d) = Len(Ds) /\ Len(e) = Len(Ds) /\ MoveMade(d) = MoveMade(e) => d = e
<1>0. Len(Ds) \in Nat
  BY DecisionsType
<1>1. ASSUME NEW m \in [Everyone -> 1 .. 3]
      PROVE  \E d \in Seq(1 .. 3) : Len(d) = Len(Ds) /\ MoveMade(d) = m
  <2> DEFINE d == [i \in 1 .. Len(Ds) |-> m[Ds[i].player]]
  <2>1. \A i \in 1 .. Len(Ds) : m[Ds[i].player] \in 1 .. 3
    BY EveryoneDecides
  <2>2. d \in Seq(1 .. 3) /\ Len(d) = Len(Ds)
    BY <1>0, <2>1
  <2>3. \A p \in Everyone : d[IndexOf(p)] = m[p]
    BY EveryoneDecides
  <2> HIDE DEF d
  <2>4. MoveMade(d) = m
    BY <2>3 DEF MoveMade
  <2> QED BY <2>2, <2>4
<1>2. ASSUME NEW d \in Seq(1 .. 3), NEW e \in Seq(1 .. 3),
             Len(d) = Len(Ds), Len(e) = Len(Ds), MoveMade(d) = MoveMade(e)
      PROVE  d = e
  <2>1. \A i \in 1 .. Len(Ds) : d[i] = e[i]
    BY <1>2, MoveMadeType
  <2> QED BY <1>2, <2>1, SameSequence
<1> QED BY <1>1, <1>2

\* What _player_decisions looks at, of a whole move.
MovesAreAllowed(d) ==
  /\ \A p \in Everyone \cap request.rules.locked : \A t \in 1 .. 3 :
       p \in Owned(request.rosters[t]) => MoveMade(d)[p] = t
  /\ \A p \in Universe(request, "outgoing") : PermitsMove(request.rules.outgoingFilter, p, p \in Leaving(d, 1))
  /\ \A p \in Universe(request, "incoming") : PermitsMove(request.rules.incomingFilter, p, p \in Arriving(d, 1))

(* The choices are allowed one by one exactly if the move is allowed as a whole. *)
LEMMA PathsAreAllowed ==
    ASSUME AmongThree, NEW d \in Seq(1 .. 3), Len(d) = Len(Ds)
    PROVE  IsPath(d) <=> MovesAreAllowed(d)
<1> DEFINE rules == request.rules
           Allowed(i) == /\ Ds[i].player \in rules.locked => d[i] = Ds[i].origin
                         /\ Ds[i].origin = 1 => PermitsMove(rules.outgoingFilter, Ds[i].player, d[i] # 1)
                         /\ Ds[i].origin # 1 => PermitsMove(rules.incomingFilter, Ds[i].player, d[i] = 1)
<1>1. /\ Len(Ds) \in Nat /\ \A i \in 1 .. Len(Ds) :
           /\ Ds[i].origin \in 1 .. 3 /\ Ds[i].destinations = Destinations(request, Ds[i].origin, Ds[i].player)
           /\ \A t \in 1 .. 3 : Ds[i].player \in Owned(request.rosters[t]) <=> t = Ds[i].origin
           /\ d[i] \in 1 .. 3
  BY DecisionsType
<1>2. \A i \in 1 .. Len(Ds) : d[i] \in Ds[i].destinations <=> Allowed(i)
  <2> TAKE i \in 1 .. Len(Ds)
  <2>1. d[i] \in 1 .. 3 /\ Ds[i].destinations = Destinations(request, Ds[i].origin, Ds[i].player)
    BY <1>1
  <2>2. Ds[i].origin = 1 => (d[i] # Ds[i].origin <=> d[i] # 1)
    OBVIOUS
  <2> QED
    <3>1. CASE Ds[i].origin = 1
      BY <2>1, <3>1 DEF Destinations
    <3>2. CASE Ds[i].origin # 1
      BY <2>1, <3>2 DEF Destinations
    <3> QED BY <3>1, <3>2
<1>3. IsPath(d) <=> \A i \in 1 .. Len(Ds) : Allowed(i)
  <2>1. IsPath(d) <=> \A i \in 1 .. Len(Ds) : d[i] \in Ds[i].destinations
    BY <1>1 DEF IsPath
  <2> HIDE DEF Allowed
  <2> QED BY <1>2, <2>1
<1>4. /\ \A i \in 1 .. Len(Ds) : MoveMade(d)[Ds[i].player] = d[i] /\ Ds[i].player \in Everyone
      /\ \A p \in Everyone : \E i \in 1 .. Len(Ds) : p = Ds[i].player
  BY MoveMadeType, EveryoneDecides
<1>5. \A i \in 1 .. Len(Ds) :
        /\ Ds[i].player \in Universe(request, "outgoing") <=> Ds[i].origin = 1
        /\ Ds[i].player \in Universe(request, "incoming") <=> Ds[i].origin # 1
  BY <1>1 DEF Universe
<1>6. \A side \in {"outgoing", "incoming"} : Universe(request, side) \subseteq Everyone
  BY DEF Universe, Everyone
<1>7. \A i \in 1 .. Len(Ds) :
        /\ Ds[i].origin = 1 => (Ds[i].player \in Leaving(d, 1) <=> d[i] # 1)
        /\ Ds[i].origin # 1 => (Ds[i].player \in Arriving(d, 1) <=> d[i] = 1)
  <2>1. \A i, j \in 1 .. Len(Ds) : Ds[i].player = Ds[j].player => i = j
    BY DecisionsType
  <2> QED BY <2>1 DEF Leaving, Arriving
<1>8. (\A p \in Everyone \cap rules.locked : \A t \in 1 .. 3 :
         p \in Owned(request.rosters[t]) => MoveMade(d)[p] = t)
        <=> \A i \in 1 .. Len(Ds) : Ds[i].player \in rules.locked => d[i] = Ds[i].origin
  BY <1>1, <1>4, SMTT(40)
<1>9. (\A p \in Universe(request, "outgoing") : PermitsMove(rules.outgoingFilter, p, p \in Leaving(d, 1)))
        <=> \A i \in 1 .. Len(Ds) : Ds[i].origin = 1 => PermitsMove(rules.outgoingFilter, Ds[i].player, d[i] # 1)
  <2>1. ASSUME NEW i \in 1 .. Len(Ds), Ds[i].origin = 1
        PROVE  PermitsMove(rules.outgoingFilter, Ds[i].player, Ds[i].player \in Leaving(d, 1))
                 <=> PermitsMove(rules.outgoingFilter, Ds[i].player, d[i] # 1)
    BY <1>7, <2>1 DEF PermitsMove
  <2>2. \A p \in Universe(request, "outgoing") : \E i \in 1 .. Len(Ds) : p = Ds[i].player /\ Ds[i].origin = 1
    BY <1>4, <1>5, <1>6
  <2>3. \A i \in 1 .. Len(Ds) : Ds[i].origin = 1 => Ds[i].player \in Universe(request, "outgoing")
    BY <1>5
  <2> HIDE DEF rules
  <2> QED BY <2>1, <2>2, <2>3
<1>10. (\A p \in Universe(request, "incoming") : PermitsMove(rules.incomingFilter, p, p \in Arriving(d, 1)))
        <=> \A i \in 1 .. Len(Ds) : Ds[i].origin # 1 => PermitsMove(rules.incomingFilter, Ds[i].player, d[i] = 1)
  <2>1. ASSUME NEW i \in 1 .. Len(Ds), Ds[i].origin # 1
        PROVE  PermitsMove(rules.incomingFilter, Ds[i].player, Ds[i].player \in Arriving(d, 1))
                 <=> PermitsMove(rules.incomingFilter, Ds[i].player, d[i] = 1)
    BY <1>7, <2>1 DEF PermitsMove
  <2>2. \A p \in Universe(request, "incoming") : \E i \in 1 .. Len(Ds) : p = Ds[i].player /\ Ds[i].origin # 1
    BY <1>4, <1>5, <1>6
  <2>3. \A i \in 1 .. Len(Ds) : Ds[i].origin # 1 => Ds[i].player \in Universe(request, "incoming")
    BY <1>5
  <2> HIDE DEF rules
  <2> QED BY <2>1, <2>2, <2>3
<1> QED BY <1>3, <1>8, <1>9, <1>10 DEF MovesAreAllowed

-----------------------------------------------------------------------------
(* Filters: judging players one by one, and evidence, is judging packages.   *)

(* A filter of one node is its rule. *)
LEMMA OneRule ==
    ASSUME NEW filter, IsFilter(filter), Len(filter) = 1, NEW H
    PROVE  /\ DOMAIN filter = {1} /\ Rules(filter) = {1}
           /\ Formula(filter, H) <=> 1 \in H
<1>1. filter \in Seq(Range(filter)) /\ DOMAIN filter = {1}
  BY DEF IsFilter
<1>2. filter[1].op = "rule"
  <2>1. filter[1].op = "rule" \/ filter[1].args \in Seq(1 .. 0) \ {<<>>}
    <3>1. filter[1].op = "rule" \/ filter[1].args \in Seq(1 .. 1 - 1) \ {<<>>}
      BY <1>1 DEF IsFilter
    <3> QED BY <3>1
  <2>2. ASSUME NEW a \in Seq(1 .. 0)
        PROVE  a = <<>>
    <3>1. Len(a) \in Nat /\ \A i \in 1 .. Len(a) : a[i] \in 1 .. 0
      OBVIOUS
    <3>2. Len(a) = 0
      <4>1. Len(a) # 0 => 1 \in 1 .. Len(a)
        BY <3>1
      <4>2. 1 .. 0 = {}
        OBVIOUS
      <4> QED BY <3>1, <4>1, <4>2
    <3> QED BY <3>2
  <2> QED BY <2>1, <2>2
<1>3. Rules(filter) = {1}
  BY <1>1, <1>2 DEF Rules
<1> DEFINE Value(g, i) ==
          LET node == filter[i]
              True == {j \in DOMAIN node.args : g[node.args[j]]}
          IN CASE node.op = "rule" -> i \in H
               [] node.op = "and"  -> True = DOMAIN node.args
               [] node.op = "or"   -> True # {}
               [] node.op = "xor"  -> Cardinality(True) = 1
               [] node.op = "not"  -> True = {}
           Def(g) == [i \in DOMAIN filter |-> Value(g, i)]
           v == [i \in {1} |-> i \in H]
           value == CHOOSE g : g = Def(g)
<1>4. \A g : Def(g) = v
  <2> TAKE g
  <2>1. ASSUME NEW i \in DOMAIN filter
        PROVE  Value(g, i) = (i \in H)
    <3>1. i = 1
      BY <1>1
    <3>2. filter[i].op = "rule" /\ filter[i].op # "and" /\ filter[i].op # "or" /\ filter[i].op # "xor" /\ filter[i].op # "not"
      BY <1>2, <3>1
    <3> QED BY <1>1, <3>1, <3>2
  <2> HIDE DEF Value
  <2> QED BY <1>1, <2>1
<1>5. Formula(filter, H) = value[Len(filter)]
  BY DEF Formula
<1> HIDE DEF Def, Value
<1>6. value = Def(value)
  <2>1. v = Def(v)
    BY <1>4
  <2> HIDE DEF v
  <2> QED BY <2>1
<1>7. value = v
  BY <1>4, <1>6
<1> HIDE DEF value
<1>8. value[Len(filter)] <=> 1 \in H
  BY <1>7
<1> QED BY <1>1, <1>3, <1>5, <1>8

(* A rule judged by the players it permits, the players it requires and the positions covered. *)
LEMMA RuleIsJudged ==
    ASSUME NEW rule, NEW package
    PROVE  RuleHolds(rule, package) <=>
             /\ \A p \in package : Permits(rule, p)
             /\ Required(rule) \subseteq package
             /\ Target(rule) \subseteq UNION {Covers(rule, p) : p \in package}
<1>1. /\ rule.mode = "include" => rule.ids \subseteq package
      /\ rule.mode = "only" => package = rule.ids
      /\ rule.mode = "exclude" => package \cap rule.ids = {}
      <=>
      /\ \A p \in package : /\ rule.mode = "only" => p \in rule.ids
                            /\ rule.mode = "exclude" => p \notin rule.ids
      /\ Required(rule) \subseteq package
  <2>1. CASE rule.mode = "include"
    BY <2>1 DEF Required
  <2>2. CASE rule.mode = "only"
    BY <2>2 DEF Required
  <2>3. CASE rule.mode = "exclude"
    BY <2>3 DEF Required
  <2>4. CASE rule.mode \notin {"include", "only", "exclude"}
    BY <2>4 DEF Required
  <2> QED BY <2>1, <2>2, <2>3, <2>4
<1>2. (rule.positionMode = "include" => \A q \in rule.positions : \E p \in package : q \in PositionsOf[p])
      <=> Target(rule) \subseteq UNION {Covers(rule, p) : p \in package}
  BY DEF Target, Covers
<1>3. /\ rule.positionMode = "only" => \A p \in package : PositionsOf[p] \cap rule.positions # {}
      /\ rule.positionMode = "exclude" => \A p \in package : PositionsOf[p] \cap rule.positions = {}
      <=>
      \A p \in package : /\ rule.positionMode = "only" => PositionsOf[p] \cap rule.positions # {}
                         /\ rule.positionMode = "exclude" => PositionsOf[p] \cap rule.positions = {}
  OBVIOUS
<1>4. (\A p \in package : Permits(rule, p)) <=>
        /\ \A p \in package : /\ rule.mode = "only" => p \in rule.ids
                              /\ rule.mode = "exclude" => p \notin rule.ids
        /\ \A p \in package : /\ rule.positionMode = "only" => PositionsOf[p] \cap rule.positions # {}
                              /\ rule.positionMode = "exclude" => PositionsOf[p] \cap rule.positions = {}
  BY DEF Permits
<1>5. RuleHolds(rule, package) <=>
        /\ /\ rule.mode = "include" => rule.ids \subseteq package
           /\ rule.mode = "only" => package = rule.ids
           /\ rule.mode = "exclude" => package \cap rule.ids = {}
        /\ rule.positionMode = "include" => \A q \in rule.positions : \E p \in package : q \in PositionsOf[p]
        /\ /\ rule.positionMode = "only" => \A p \in package : PositionsOf[p] \cap rule.positions # {}
           /\ rule.positionMode = "exclude" => \A p \in package : PositionsOf[p] \cap rule.positions = {}
  BY Zenon DEF RuleHolds
<1> QED BY <1>1, <1>2, <1>3, <1>4, <1>5, Zenon

(* What a player's evidence says of one rule of an expression. *)
LEMMA EvidenceMarks ==
    ASSUME NEW filter, NEW i \in Rules(filter), NEW U, Required(filter[i]) \subseteq U, NEW p
    PROVE  /\ \A q : <<i, "player", q>> \in EvidenceOf(filter, p, U) <=> q \in Required(filter[i]) /\ q = p
           /\ \A q : <<i, "position", q>> \in EvidenceOf(filter, p, U)
                       <=> ~Excluded(filter[i], p) /\ q \in Target(filter[i]) /\ q \in PositionsOf[p]
           /\ <<i, "forbidden player">> \in EvidenceOf(filter, p, U) <=> Excluded(filter[i], p)
           /\ <<i, "forbidden position">> \in EvidenceOf(filter, p, U) <=>
                /\ ~Excluded(filter[i], p)
                /\ \/ filter[i].positionMode = "only" /\ Covers(filter[i], p) = {}
                   \/ filter[i].positionMode = "exclude" /\ Covers(filter[i], p) # {}
<1> DEFINE Trusts(j) == ~Excluded(filter[j], p) /\ Required(filter[j]) \subseteq U
           Refuses(j) == Trusts(j) /\ (\/ filter[j].positionMode = "only" /\ ~(Covers(filter[j], p) # {})
                                       \/ filter[j].positionMode = "exclude" /\ Covers(filter[j], p) # {})
           A(j) == {<<j, "player", q>> : q \in Required(filter[j]) \cap {p}}
           B(j) == IF Excluded(filter[j], p) THEN {<<j, "forbidden player">>} ELSE {}
           C(j) == IF Trusts(j) THEN {<<j, "position", q>> : q \in Target(filter[j]) \cap PositionsOf[p]} ELSE {}
           D(j) == IF Refuses(j) THEN {<<j, "forbidden position">>} ELSE {}
           E == EvidenceOf(filter, p, U)
<1>1. E = UNION {A(j) \cup B(j) \cup C(j) \cup D(j) : j \in Rules(filter)}
  BY DEF EvidenceOf
<1>2. Required(filter[i]) \subseteq U
  OBVIOUS
<1>3. \A j, q : /\ <<i, "player", q>> \in A(j) <=> j = i /\ q \in Required(filter[i]) /\ q = p
                /\ <<i, "player", q>> \notin B(j) /\ <<i, "player", q>> \notin C(j) /\ <<i, "player", q>> \notin D(j)
  OBVIOUS
<1>4. \A j, q : /\ <<i, "position", q>> \in C(j) <=> j = i /\ Trusts(i) /\ q \in Target(filter[i]) /\ q \in PositionsOf[p]
                /\ <<i, "position", q>> \notin A(j) /\ <<i, "position", q>> \notin B(j) /\ <<i, "position", q>> \notin D(j)
  OBVIOUS
<1>5. \A j : /\ <<i, "forbidden player">> \in B(j) <=> j = i /\ Excluded(filter[i], p)
             /\ <<i, "forbidden player">> \notin A(j) /\ <<i, "forbidden player">> \notin C(j)
             /\ <<i, "forbidden player">> \notin D(j)
  OBVIOUS
<1>6. \A j : /\ <<i, "forbidden position">> \in D(j) <=> j = i /\ Refuses(i)
             /\ <<i, "forbidden position">> \notin A(j) /\ <<i, "forbidden position">> \notin B(j)
             /\ <<i, "forbidden position">> \notin C(j)
  OBVIOUS
<1> HIDE DEF A, B, C, D, E
<1>7. \A x : x \in E <=> \E j \in Rules(filter) : x \in A(j) \/ x \in B(j) \/ x \in C(j) \/ x \in D(j)
  BY <1>1
<1>8. \A q : <<i, "player", q>> \in E <=> q \in Required(filter[i]) /\ q = p
  BY <1>3, <1>7
<1>9. \A q : <<i, "position", q>> \in E <=> Trusts(i) /\ q \in Target(filter[i]) /\ q \in PositionsOf[p]
  BY <1>4, <1>7
<1>10. <<i, "forbidden player">> \in E <=> Excluded(filter[i], p)
  BY <1>5, <1>7
<1>11. <<i, "forbidden position">> \in E <=> Refuses(i)
  BY <1>6, <1>7
<1> QED BY <1>2, <1>8, <1>9, <1>10, <1>11 DEF E

(* An expression's evidence says of each of its rules whether it holds. *)
LEMMA ExpressionRule ==
    ASSUME NEW filter, NEW i \in Rules(filter), NEW U, Required(filter[i]) \subseteq U,
           NEW package, package \subseteq U
    PROVE  LET E == UNION {EvidenceOf(filter, p, U) : p \in package}
           IN (RequiredEvidence(filter, i) \subseteq E /\ ForbiddenEvidence(i) \cap E = {})
                <=> RuleHolds(filter[i], package)
<1> DEFINE E == UNION {EvidenceOf(filter, p, U) : p \in package}
           rule == filter[i]
           Refuses(p) == \/ rule.positionMode = "only" /\ Covers(rule, p) = {}
                         \/ rule.positionMode = "exclude" /\ Covers(rule, p) # {}
<1> DEFINE Ev(p) == EvidenceOf(filter, p, U)
<1>1. \A x : x \in E <=> \E p \in package : x \in Ev(p)
  OBVIOUS
<1>2. \A p : /\ \A q : <<i, "player", q>> \in Ev(p) <=> q \in Required(rule) /\ q = p
             /\ \A q : <<i, "position", q>> \in Ev(p)
                         <=> ~Excluded(rule, p) /\ q \in Target(rule) /\ q \in PositionsOf[p]
             /\ <<i, "forbidden player">> \in Ev(p) <=> Excluded(rule, p)
             /\ <<i, "forbidden position">> \in Ev(p) <=> ~Excluded(rule, p) /\ Refuses(p)
  BY EvidenceMarks
<1> HIDE DEF E, Ev
<1>20. \A p, q : <<i, "player", q>> \in Ev(p) <=> q \in Required(rule) /\ q = p
  BY <1>2
<1>21. \A p, q : <<i, "position", q>> \in Ev(p)
                   <=> ~Excluded(rule, p) /\ q \in Target(rule) /\ q \in PositionsOf[p]
  BY <1>2
<1>22. \A p : <<i, "forbidden player">> \in Ev(p) <=> Excluded(rule, p)
  BY <1>2
<1>3. \A q : <<i, "player", q>> \in E <=> q \in Required(rule) /\ q \in package
  <2> TAKE q
  <2>1. <<i, "player", q>> \in E <=> \E p \in package : <<i, "player", q>> \in Ev(p)
    BY <1>1
  <2> HIDE DEF rule
  <2> QED BY <1>20, <2>1
<1>4. \A q : <<i, "position", q>> \in E
               <=> \E p \in package : ~Excluded(rule, p) /\ q \in Target(rule) /\ q \in PositionsOf[p]
  <2> TAKE q
  <2>1. <<i, "position", q>> \in E <=> \E p \in package : <<i, "position", q>> \in Ev(p)
    BY <1>1
  <2> HIDE DEF rule
  <2> QED BY <1>21, <2>1
<1>5. <<i, "forbidden player">> \in E <=> \E p \in package : Excluded(rule, p)
  <2> HIDE DEF rule
  <2> QED BY <1>1, <1>22
<1>6. <<i, "forbidden position">> \in E <=> \E p \in package : ~Excluded(rule, p) /\ Refuses(p)
  <2> HIDE DEF Refuses
  <2> QED BY <1>1, <1>2
<1>7. ForbiddenEvidence(i) \cap E = {} <=> \A p \in package : ~Excluded(rule, p) /\ ~Refuses(p)
  <2>1. ForbiddenEvidence(i) \cap E = {} <=> <<i, "forbidden player">> \notin E /\ <<i, "forbidden position">> \notin E
    BY DEF ForbiddenEvidence
  <2> HIDE DEF Refuses
  <2> QED BY <2>1, <1>5, <1>6
<1>8. RequiredEvidence(filter, i) \subseteq E
        <=> /\ \A q \in Required(rule) : <<i, "player", q>> \in E
            /\ \A q \in Target(rule) : <<i, "position", q>> \in E
  BY DEF RequiredEvidence
<1>9. \A p : Permits(rule, p) <=> ~Excluded(rule, p) /\ ~Refuses(p)
  <2> TAKE p
  <2>1. Excluded(rule, p) <=> ~ (/\ rule.mode = "only" => p \in rule.ids
                                 /\ rule.mode = "exclude" => p \notin rule.ids)
    BY DEF Excluded
  <2>2. Refuses(p) <=> ~ (/\ rule.positionMode = "only" => PositionsOf[p] \cap rule.positions # {}
                          /\ rule.positionMode = "exclude" => PositionsOf[p] \cap rule.positions = {})
    BY DEF Covers
  <2> HIDE DEF Refuses
  <2> QED BY <2>1, <2>2 DEF Permits
<1>10. (\A q \in Required(rule) : <<i, "player", q>> \in E)
         <=> Required(rule) \subseteq package
  BY <1>3
<1>11. ASSUME \A p \in package : ~Excluded(rule, p)
       PROVE  (\A q \in Target(rule) : <<i, "position", q>> \in E)
                <=> Target(rule) \subseteq UNION {Covers(rule, p) : p \in package}
  <2>1. \A p : \A q \in Target(rule) : q \in PositionsOf[p] <=> q \in Covers(rule, p)
    BY DEF Covers, Target
  <2>2. \A q : q \in UNION {Covers(rule, p) : p \in package} <=> \E p \in package : q \in Covers(rule, p)
    OBVIOUS
  <2>3. \A q \in Target(rule) : <<i, "position", q>> \in E <=> \E p \in package : q \in PositionsOf[p]
    BY <1>4, <1>11
  <2> QED BY <2>1, <2>2, <2>3
<1>12. RuleHolds(rule, package) <=>
         /\ \A p \in package : Permits(rule, p)
         /\ Required(rule) \subseteq package
         /\ Target(rule) \subseteq UNION {Covers(rule, p) : p \in package}
  BY RuleIsJudged
<1> HIDE DEF Refuses, rule
<1>13. (RequiredEvidence(filter, i) \subseteq E /\ ForbiddenEvidence(i) \cap E = {})
         <=> RuleHolds(rule, package)
  BY <1>7, <1>8, <1>9, <1>10, <1>11, <1>12, Zenon
<1> QED BY <1>13 DEF E, rule

\* A filter whose rules name players of a universe.
Named(filter, U) == IsFilter(filter) /\ \A i \in Rules(filter) : filter[i].ids \subseteq U

\* What is told of a player, for the filter of a side.
Told(filter, p, U) ==
  IF filter = <<>> THEN {} ELSE IF IsLegacy(filter) THEN Covers(filter[1], p) ELSE EvidenceOf(filter, p, U)

(* Judging the players one by one and their evidence together is judging the package. *)
LEMMA FilterIsExact ==
    ASSUME NEW filter, NEW U, Named(filter, U), NEW package, package \subseteq U
    PROVE  /\ \A p \in U : PermitsMove(filter, p, p \in package)
           /\ Matches(filter, UNION {Told(filter, p, U) : p \in package})
           <=> FilterHolds(filter, package)
<1> DEFINE E == UNION {Told(filter, p, U) : p \in package}
<1>1. CASE filter = <<>>
  <2>1. ~IsLegacy(filter)
    BY <1>1 DEF IsLegacy
  <2> QED BY <1>1, <2>1 DEF PermitsMove, Matches, FilterHolds
<1>2. CASE filter # <<>> /\ IsLegacy(filter)
  <2>1. Rules(filter) = {1} /\ \A H : Formula(filter, H) <=> 1 \in H
    BY <1>2, OneRule DEF Named, IsLegacy
  <2>2. FilterHolds(filter, package) <=> RuleHolds(filter[1], package)
    <3>1. FilterHolds(filter, package) <=> Formula(filter, {i \in Rules(filter) : RuleHolds(filter[i], package)})
      BY <1>2 DEF FilterHolds
    <3>2. 1 \in {i \in Rules(filter) : RuleHolds(filter[i], package)} <=> RuleHolds(filter[1], package)
      BY <2>1
    <3> HIDE DEF Rules, RuleHolds
    <3> QED BY <2>1, <3>1, <3>2
  <2>3. Required(filter[1]) \subseteq U
    BY <2>1 DEF Named, Required
  <2>4. RuleHolds(filter[1], package) <=>
          /\ \A p \in package : Permits(filter[1], p)
          /\ \A p \in U : p \notin package => p \notin Required(filter[1])
          /\ Target(filter[1]) \subseteq UNION {Covers(filter[1], p) : p \in package}
    <3>1. Required(filter[1]) \subseteq package <=> \A p \in U : p \notin package => p \notin Required(filter[1])
      BY <2>3
    <3> HIDE DEF Required, Permits, Target, Covers, RuleHolds
    <3> QED BY <3>1, RuleIsJudged
  <2>5. \A p : Told(filter, p, U) = Covers(filter[1], p)
    BY <1>2 DEF Told
  <2>6. Matches(filter, E) <=> Target(filter[1]) \subseteq UNION {Covers(filter[1], p) : p \in package}
    <3>1. E = UNION {Covers(filter[1], p) : p \in package}
      BY <2>5
    <3> HIDE DEF E
    <3> QED BY <1>2, <3>1 DEF Matches
  <2>7. (\A p \in U : PermitsMove(filter, p, p \in package)) <=>
          /\ \A p \in package : Permits(filter[1], p)
          /\ \A p \in U : p \notin package => p \notin Required(filter[1])
    <3>1. \A p : PermitsMove(filter, p, p \in package)
                   <=> IF p \in package THEN Permits(filter[1], p) ELSE p \notin Required(filter[1])
      BY <1>2 DEF PermitsMove
    <3> HIDE DEF PermitsMove, Permits, Required
    <3> QED BY <3>1
  <2> HIDE DEF E
  <2> QED BY <2>2, <2>4, <2>6, <2>7, Zenon DEF E
<1>3. CASE filter # <<>> /\ ~IsLegacy(filter)
  <2>1. \A p \in U : PermitsMove(filter, p, p \in package)
    BY <1>3 DEF PermitsMove
  <2>2. E = UNION {EvidenceOf(filter, p, U) : p \in package}
    BY <1>3 DEF Told
  <2>3. \A i \in Rules(filter) :
          (RequiredEvidence(filter, i) \subseteq E /\ ForbiddenEvidence(i) \cap E = {})
            <=> RuleHolds(filter[i], package)
    <3> TAKE i \in Rules(filter)
    <3>1. Required(filter[i]) \subseteq U
      BY DEF Named, Required
    <3>2. LET F == UNION {EvidenceOf(filter, p, U) : p \in package}
          IN (RequiredEvidence(filter, i) \subseteq F /\ ForbiddenEvidence(i) \cap F = {})
               <=> RuleHolds(filter[i], package)
      BY <3>1, ExpressionRule
    <3> HIDE DEF E
    <3> QED BY <2>2, <3>2
  <2> HIDE DEF E
  <2> DEFINE H == {i \in Rules(filter) : RequiredEvidence(filter, i) \subseteq E /\ ForbiddenEvidence(i) \cap E = {}}
             K == {i \in Rules(filter) : RuleHolds(filter[i], package)}
  <2>4. H = K
    BY <2>3
  <2>5. Matches(filter, E) = Formula(filter, H)
    BY <1>3, Zenon DEF Matches, EvidenceMatches
  <2>6. FilterHolds(filter, package) <=> Formula(filter, K)
    BY <1>3, Zenon DEF FilterHolds
  <2> HIDE DEF H, K
  <2>7. Matches(filter, E) <=> FilterHolds(filter, package)
    BY <2>4, <2>5, <2>6
  <2> QED BY <2>1, <2>7 DEF E
<1> QED BY <1>1, <1>2, <1>3

-----------------------------------------------------------------------------
(* What the iterator completes is what a trade is.                          *)

\* The sizes of one team's part of a move.
Sized(d, t) ==
  LET rules == request.rules
      out == Cardinality(Leaving(d, t))
      in == Cardinality(Arriving(d, t))
  IN /\ out \in rules.minOutgoing .. rules.maxOutgoing
     /\ in \in rules.minIncoming .. rules.maxIncoming
     /\ rules.balancedOnly => out = in
     /\ Within(Distance(out, in), rules.maxImbalance)

\* Whether the team can make room, the locked players stay, and few enough move.
Roomy(d, t) ==
  CanMakeRoom(request.rosters[t], Owned(request.rosters[t]) \ Leaving(d, t), Arriving(d, t), request.rules.noDrops)

Home(d) ==
  \A p \in Everyone \cap request.rules.locked : \A t \in 1 .. 3 :
    p \in Owned(request.rosters[t]) => MoveMade(d)[p] = t

Few(d) == Within(Cardinality(UNION {Leaving(d, t) : t \in 1 .. 3}), request.rules.maxTotal)

(* What is known of a three-team request. *)
LEMMA ThreeTeams ==
    ASSUME AmongThree
    PROVE  /\ Teams(request) = 1 .. 3 /\ request \in Requests /\ Len(request.rosters) # 2
           /\ Everyone = UNION {Owned(request.rosters[t]) : t \in Teams(request)}
           /\ request.rules.excluded = {}
           /\ Named(request.rules.outgoingFilter, Universe(request, "outgoing"))
           /\ Named(request.rules.incomingFilter, Universe(request, "incoming"))
<1>1. Teams(request) = 1 .. 3 /\ request \in Requests /\ Len(request.rosters) = 3
  BY RequestType DEF AmongThree
<1>2. Everyone = UNION {Owned(request.rosters[t]) : t \in Teams(request)}
  BY <1>1 DEF Everyone
<1>3. IsFilter(request.rules.outgoingFilter) /\ IsFilter(request.rules.incomingFilter)
  BY <1>1, RulesAssumption
<1>4. /\ request.rules.excluded = {}
      /\ \A i \in Rules(request.rules.outgoingFilter) :
           request.rules.outgoingFilter[i].ids \subseteq Universe(request, "outgoing")
      /\ \A i \in Rules(request.rules.incomingFilter) :
           request.rules.incomingFilter[i].ids \subseteq Universe(request, "incoming")
  BY <1>1, ThreeTeamAssumption
<1> QED BY <1>1, <1>2, <1>3, <1>4 DEF Named

(* When the move of a choice is a trade, told by who leaves and who comes. *)
LEMMA TradeMeans ==
    ASSUME AmongThree, NEW d \in Seq(1 .. 3), Len(d) = Len(Ds)
    PROVE  MoveMade(d) \in Trades <=>
             /\ Home(d) /\ Few(d)
             /\ FilterHolds(request.rules.outgoingFilter, Leaving(d, 1))
             /\ FilterHolds(request.rules.incomingFilter, Arriving(d, 1))
             /\ \A t \in 1 .. 3 : Sized(d, t) /\ Roomy(d, t)
<1> DEFINE m == MoveMade(d)
           rules == request.rules
           OutOf(n, t) == {p \in Owned(request.rosters[t]) : n[p] # t}
           InOf(players, n, t) == {p \in players \ Owned(request.rosters[t]) : n[p] = t}
           Out(n, t) == OutOf(n, t)
           In(n, t) == InOf(Everyone, n, t)
           SizesOf(players, n, t) ==
             LET out == Cardinality(OutOf(n, t))
                 in == Cardinality(InOf(players, n, t))
             IN /\ out \in rules.minOutgoing .. rules.maxOutgoing
                /\ in \in rules.minIncoming .. rules.maxIncoming
                /\ <<out, in>> \notin rules.excluded
                /\ rules.balancedOnly => out = in
                /\ Within(Distance(out, in), rules.maxImbalance)
           SizedBy(n, t) == SizesOf(Everyone, n, t)
           HomeOf(players, teams, n) ==
             \A p \in players \cap rules.locked : \A t \in teams :
               p \in Owned(request.rosters[t]) => n[p] = t
           HomeBy(n) == HomeOf(Everyone, 1 .. 3, n)
           FewOf(teams, n) == Within(Cardinality(UNION {OutOf(n, t) : t \in teams}), rules.maxTotal)
           FewBy(n) == FewOf(1 .. 3, n)
           RoomOf(players, n, t) ==
             CanMakeRoom(request.rosters[t], Owned(request.rosters[t]) \ OutOf(n, t), InOf(players, n, t),
                         rules.noDrops)
           RoomyBy(n, t) == RoomOf(Everyone, n, t)
           TradesOf(players, teams, judged) ==
             {n \in [players -> teams] :
               /\ HomeOf(players, teams, n)
               /\ \A t \in judged : SizesOf(players, n, t)
               /\ FewOf(teams, n)
               /\ FilterHolds(rules.outgoingFilter, OutOf(n, 1))
               /\ FilterHolds(rules.incomingFilter, InOf(players, n, 1))
               /\ \A t \in teams : RoomOf(players, n, t)}
<1>1. Trades = {n \in [Everyone -> 1 .. 3] :
                 /\ HomeBy(n)
                 /\ \A t \in 1 .. 3 : SizedBy(n, t)
                 /\ FewBy(n)
                 /\ FilterHolds(rules.outgoingFilter, Out(n, 1))
                 /\ FilterHolds(rules.incomingFilter, In(n, 1))
                 /\ \A t \in 1 .. 3 : RoomyBy(n, t)}
  <2>1. Trades = TradesOf(UNION {Owned(request.rosters[t]) : t \in Teams(request)}, Teams(request),
                          IF Len(request.rosters) = 2 THEN {1} ELSE Teams(request))
    BY Zenon DEF Trades
  <2>2. Teams(request) = 1 .. 3 /\ Len(request.rosters) # 2
        /\ Everyone = UNION {Owned(request.rosters[t]) : t \in Teams(request)}
    BY ThreeTeams
  <2>3. (IF Len(request.rosters) = 2 THEN {1} ELSE Teams(request)) = 1 .. 3
    BY <2>2
  <2> HIDE DEF TradesOf
  <2>4. Trades = TradesOf(Everyone, 1 .. 3, 1 .. 3)
    BY <2>1, <2>2, <2>3, Zenon
  <2> QED BY <2>4, Zenon DEF TradesOf
<1>2. /\ m \in [Everyone -> 1 .. 3]
      /\ \A t \in 1 .. 3 : Out(m, t) = Leaving(d, t) /\ In(m, t) = Arriving(d, t)
  BY MoveMadeType
<1>3. HomeBy(m) = Home(d)
  BY DEF Home
<1>4. \A t \in 1 .. 3 : SizedBy(m, t) <=> Sized(d, t)
  <2> TAKE t \in 1 .. 3
  <2>1. Out(m, t) = Leaving(d, t) /\ In(m, t) = Arriving(d, t)
    BY <1>2
  <2>2. rules.excluded = {}
    BY ThreeTeams
  <2>3. OutOf(m, t) = Leaving(d, t) /\ InOf(Everyone, m, t) = Arriving(d, t)
    BY <2>1
  <2>4. <<Cardinality(Leaving(d, t)), Cardinality(Arriving(d, t))>> \notin rules.excluded
    BY <2>2
  <2> HIDE DEF OutOf, InOf, m, rules
  <2>5. SizesOf(Everyone, m, t) <=>
          /\ Cardinality(Leaving(d, t)) \in rules.minOutgoing .. rules.maxOutgoing
          /\ Cardinality(Arriving(d, t)) \in rules.minIncoming .. rules.maxIncoming
          /\ <<Cardinality(Leaving(d, t)), Cardinality(Arriving(d, t))>> \notin rules.excluded
          /\ rules.balancedOnly => Cardinality(Leaving(d, t)) = Cardinality(Arriving(d, t))
          /\ Within(Distance(Cardinality(Leaving(d, t)), Cardinality(Arriving(d, t))), rules.maxImbalance)
    BY <2>3, Zenon
  <2> HIDE DEF SizesOf
  <2>6. SizedBy(m, t) <=>
          /\ Cardinality(Leaving(d, t)) \in rules.minOutgoing .. rules.maxOutgoing
          /\ Cardinality(Arriving(d, t)) \in rules.minIncoming .. rules.maxIncoming
          /\ rules.balancedOnly => Cardinality(Leaving(d, t)) = Cardinality(Arriving(d, t))
          /\ Within(Distance(Cardinality(Leaving(d, t)), Cardinality(Arriving(d, t))), rules.maxImbalance)
    BY <2>4, <2>5, Zenon
  <2> QED BY <2>6, Zenon DEF Sized, rules
<1>5. FewBy(m) <=> Few(d)
  <2>1. UNION {Out(m, t) : t \in 1 .. 3} = UNION {Leaving(d, t) : t \in 1 .. 3}
    BY <1>2
  <2> QED BY <2>1 DEF Few
<1>6. \A t \in 1 .. 3 : RoomyBy(m, t) <=> Roomy(d, t)
  <2> TAKE t \in 1 .. 3
  <2>1. Out(m, t) = Leaving(d, t) /\ In(m, t) = Arriving(d, t)
    BY <1>2
  <2> QED BY <2>1 DEF Roomy
<1>7. Out(m, 1) = Leaving(d, 1) /\ In(m, 1) = Arriving(d, 1)
  BY <1>2
<1> HIDE DEF m, Out, In, SizedBy, HomeBy, FewBy, RoomyBy, rules, OutOf, InOf, SizesOf, HomeOf, FewOf, RoomOf, TradesOf
<1>8. m \in Trades <=>
        /\ HomeBy(m)
        /\ \A t \in 1 .. 3 : SizedBy(m, t)
        /\ FewBy(m)
        /\ FilterHolds(rules.outgoingFilter, Out(m, 1))
        /\ FilterHolds(rules.incomingFilter, In(m, 1))
        /\ \A t \in 1 .. 3 : RoomyBy(m, t)
  BY <1>1, <1>2, Zenon
<1>9. m \in Trades <=>
        /\ Home(d)
        /\ \A t \in 1 .. 3 : Sized(d, t)
        /\ Few(d)
        /\ FilterHolds(rules.outgoingFilter, Leaving(d, 1))
        /\ FilterHolds(rules.incomingFilter, Arriving(d, 1))
        /\ \A t \in 1 .. 3 : Roomy(d, t)
  BY <1>3, <1>4, <1>5, <1>6, <1>7, <1>8, Zenon
<1> QED BY <1>9, Zenon DEF m, rules

(* When _complete accepts a choice, told the same way. *)
LEMMA CompleteMeans ==
    ASSUME AmongThree, NEW d \in Seq(1 .. 3), Len(d) = Len(Ds)
    PROVE  Complete(request, Reach(d)) <=>
             /\ Few(d)
             /\ Matches(request.rules.outgoingFilter, Reach(d).outMask)
             /\ Matches(request.rules.incomingFilter, Reach(d).inMask)
             /\ \A t \in 1 .. 3 : Sized(d, t) /\ Roomy(d, t)
<1> DEFINE rules == request.rules
           state == Reach(d)
           Plans(t) == Admits(CapacityPlan(request.rosters[t], state.outgoing[t], state.outReserve[t],
                                           state.incoming[t], state.inReserve[t]), rules.noDrops)
           Sizes(t) == /\ state.outgoing[t] \in rules.minOutgoing .. rules.maxOutgoing
                       /\ state.incoming[t] \in rules.minIncoming .. rules.maxIncoming
                       /\ rules.balancedOnly => state.outgoing[t] = state.incoming[t]
                       /\ Within(Distance(state.outgoing[t], state.incoming[t]), rules.maxImbalance)
<1>1. Complete(request, state) <=>
        /\ \A t \in 1 .. 3 : Sizes(t) /\ Plans(t)
        /\ Within(OverTeams(state.outgoing), rules.maxTotal)
        /\ Matches(rules.outgoingFilter, state.outMask)
        /\ Matches(rules.incomingFilter, state.inMask)
  <2>1. Teams(request) = 1 .. 3
    BY ThreeTeams
  <2> HIDE DEF state
  <2>2. Complete(request, state) <=>
        /\ \A t \in Teams(request) : Sizes(t) /\ Plans(t)
        /\ Within(OverTeams(state.outgoing), rules.maxTotal)
        /\ Matches(rules.outgoingFilter, state.outMask)
        /\ Matches(rules.incomingFilter, state.inMask)
    BY Zenon DEF Complete
  <2> QED BY <2>1, <2>2, Zenon
<1>2. \A t \in 1 .. 3 : /\ state.outgoing[t] = Cardinality(Leaving(d, t))
                        /\ state.incoming[t] = Cardinality(Arriving(d, t))
                        /\ state.outReserve[t] = Signature(Leaving(d, t), Placements)
                        /\ state.inReserve[t] = Signature(Arriving(d, t), Placements)
  BY ReachCounts
<1>3. OverTeams(state.outgoing) = Cardinality(UNION {Leaving(d, t) : t \in 1 .. 3})
  <2>1. Len(d) <= Len(Ds)
    BY DecisionsType
  <2> QED BY <2>1, AllMovesCount
<1> HIDE DEF state
<1>4. \A t \in 1 .. 3 : Sizes(t) <=> Sized(d, t)
  BY <1>2, Zenon DEF Sized
<1>5. \A t \in 1 .. 3 : Plans(t) <=> Roomy(d, t)
  <2> TAKE t \in 1 .. 3
  <2>1. Plans(t) <=> Admits(PlanFor(request.rosters[t], Placements, Leaving(d, t), Arriving(d, t)), rules.noDrops)
    BY <1>2, Zenon DEF PlanFor
  <2>2. Len(d) <= Len(Ds)
    BY DecisionsType
  <2>3. /\ Leaving(d, t) \subseteq Owned(request.rosters[t]) /\ IsFiniteSet(Arriving(d, t))
        /\ Arriving(d, t) \cap Owned(request.rosters[t]) = {}
    BY <2>2, MoversType
  <2>4. t \in Teams(request) /\ request \in Requests
    BY ThreeTeams
  <2>5. Admits(PlanFor(request.rosters[t], Placements, Leaving(d, t), Arriving(d, t)), rules.noDrops) <=> Roomy(d, t)
    BY <2>3, <2>4, SetsDecide DEF Roomy
  <2> HIDE DEF Plans
  <2> QED BY <2>1, <2>5
<1>6. Within(OverTeams(state.outgoing), rules.maxTotal) <=> Few(d)
  BY <1>3 DEF Few
<1> HIDE DEF Sizes, Plans
<1>7. Complete(request, state) <=>
        /\ Few(d)
        /\ Matches(rules.outgoingFilter, state.outMask)
        /\ Matches(rules.incomingFilter, state.inMask)
        /\ \A t \in 1 .. 3 : Sized(d, t) /\ Roomy(d, t)
  BY <1>1, <1>4, <1>5, <1>6, Zenon
<1> QED BY <1>7 DEF state

(* A choice for every player is good exactly if the move it makes is a trade. *)
LEMMA GoodMeansTrade ==
    ASSUME AmongThree, NEW d \in Seq(1 .. 3), Len(d) = Len(Ds)
    PROVE  IsGood(d) <=> MoveMade(d) \in Trades
<1> DEFINE out == request.rules.outgoingFilter
           in == request.rules.incomingFilter
           U == Universe(request, "outgoing")
           V == Universe(request, "incoming")
           P == \A p \in U : PermitsMove(out, p, p \in Leaving(d, 1))
           Q == \A p \in V : PermitsMove(in, p, p \in Arriving(d, 1))
<1>1. IsGood(d) <=> Home(d) /\ P /\ Q /\ Complete(request, Reach(d))
  <2>1. IsPath(d) <=> MovesAreAllowed(d)
    BY PathsAreAllowed
  <2>2. MovesAreAllowed(d) <=> Home(d) /\ P /\ Q
    BY Zenon DEF MovesAreAllowed, Home
  <2>3. IsGood(d) <=> IsPath(d) /\ Complete(request, Reach(d))
    BY DEF IsGood
  <2> HIDE DEF P, Q
  <2> QED BY <2>1, <2>2, <2>3
<1>2. Complete(request, Reach(d)) <=>
        /\ Few(d) /\ Matches(out, Reach(d).outMask) /\ Matches(in, Reach(d).inMask)
        /\ \A t \in 1 .. 3 : Sized(d, t) /\ Roomy(d, t)
  BY CompleteMeans
<1>3. MoveMade(d) \in Trades <=>
        /\ Home(d) /\ Few(d) /\ FilterHolds(out, Leaving(d, 1)) /\ FilterHolds(in, Arriving(d, 1))
        /\ \A t \in 1 .. 3 : Sized(d, t) /\ Roomy(d, t)
  BY TradeMeans
<1>4. Leaving(d, 1) \subseteq U /\ Arriving(d, 1) \subseteq V
  <2>1. Len(d) <= Len(Ds)
    BY DecisionsType
  <2>2. /\ Leaving(d, 1) \subseteq Owned(request.rosters[1])
        /\ Arriving(d, 1) \cap Owned(request.rosters[1]) = {}
        /\ Arriving(d, 1) \subseteq UNION {Owned(request.rosters[u]) : u \in 1 .. 3}
    BY <2>1, MoversType
  <2> QED BY <2>2 DEF Universe
<1>5. P /\ Matches(out, Reach(d).outMask) <=> FilterHolds(out, Leaving(d, 1))
  <2>1. Reach(d).outMask = UNION {Evidence(request, "outgoing", p) : p \in Leaving(d, 1)}
    BY DEF Reach
  <2>2. \A p : Evidence(request, "outgoing", p) = Told(out, p, U)
    BY DEF Evidence, Told
  <2>3. Reach(d).outMask = UNION {Told(out, p, U) : p \in Leaving(d, 1)}
    BY <2>1, <2>2
  <2>4. Named(out, U)
    BY ThreeTeams
  <2> HIDE DEF out, U
  <2> QED BY <1>4, <2>3, <2>4, FilterIsExact
<1>6. Q /\ Matches(in, Reach(d).inMask) <=> FilterHolds(in, Arriving(d, 1))
  <2>1. Reach(d).inMask = UNION {Evidence(request, "incoming", p) : p \in Arriving(d, 1)}
    BY DEF Reach
  <2>2. \A p : Evidence(request, "incoming", p) = Told(in, p, V)
    BY DEF Evidence, Told
  <2>3. Reach(d).inMask = UNION {Told(in, p, V) : p \in Arriving(d, 1)}
    BY <2>1, <2>2
  <2>4. Named(in, V)
    BY ThreeTeams
  <2> HIDE DEF in, V
  <2> QED BY <1>4, <2>3, <2>4, FilterIsExact
<1> HIDE DEF P, Q, out, in, U, V
<1> QED BY <1>1, <1>2, <1>3, <1>5, <1>6, Zenon

-----------------------------------------------------------------------------
(* The candidate that a choice for every player is made into.                *)

\* What _candidate makes of one more choice.
Appended(d, i, routes) ==
  [r \in Routes(request) |-> IF r = <<Ds[i].origin, d[i]>> THEN Append(routes[r], Ds[i].player) ELSE routes[r]]

(* The routes of a candidate are filled player by player. *)
LEMMA RoutesRecursion ==
    ASSUME AmongThree, NEW d \in Seq(1 .. 3), Len(d) = Len(Ds)
    PROVE  \E f \in [0 .. Len(Ds) -> [Routes(request) -> Seq(Everyone)]] :
             /\ f[0] = [r \in Routes(request) |-> <<>>]
             /\ \A i \in 1 .. Len(Ds) : i - 1 \in 0 .. Len(Ds) /\ f[i] = Appended(d, i, f[i - 1])
             /\ Routed(request, Ds, d) = f[Len(Ds)]
<1> DEFINE D == 0 .. Len(Ds)
           V == [Routes(request) -> Seq(Everyone)]
           nothing == [r \in Routes(request) |-> <<>>]
           Body(i, f) == IF i = 0 THEN nothing ELSE Appended(d, i, f[i - 1])
           Def(f) == [i \in D |-> Body(i, f)]
           routes == CHOOSE f : f = Def(f)
           rank == [i \in D |-> i]
           Step == [x \in D \X [D -> V] |-> Body(x[1], x[2])]
<1>1. Len(Ds) \in Nat /\ \A i \in 1 .. Len(Ds) : Ds[i].player \in Everyone
  BY DecisionsType, EveryoneDecides
<1>2. nothing \in V
  OBVIOUS
<1>3. ASSUME NEW i \in D, i # 0
      PROVE  i \in 1 .. Len(Ds) /\ i - 1 \in D /\ i - 1 < i
  BY <1>1, <1>3
<1> HIDE DEF D, nothing
<1>4. ASSUME NEW i \in 1 .. Len(Ds), NEW c \in V
      PROVE  Appended(d, i, c) \in V
  <2>1. \A r \in Routes(request) : c[r] \in Seq(Everyone) /\ Append(c[r], Ds[i].player) \in Seq(Everyone)
    BY <1>1
  <2> QED BY <2>1 DEF Appended
<1> HIDE DEF V
<1>5. ASSUME NEW i \in D, NEW f \in [D -> V]
      PROVE  Body(i, f) \in V
  BY <1>2, <1>3, <1>4
<1>6. ASSUME NEW i \in D, NEW f \in [D -> V], NEW g \in [D -> V],
             \A j \in D : rank[j] < rank[i] => f[j] = g[j]
      PROVE  Body(i, f) = Body(i, g)
  BY <1>3, <1>6
<1>7. LooksBelow(D, V, rank, Step)
  <2>1. rank \in [D -> Nat]
    BY DEF D
  <2> HIDE DEF Body, rank
  <2>2. Step \in [D \X [D -> V] -> V]
    BY <1>5
  <2>3. ASSUME NEW i \in D, NEW f \in [D -> V], NEW g \in [D -> V],
               \A j \in D : rank[j] < rank[i] => f[j] = g[j]
        PROVE  Step[<<i, f>>] = Step[<<i, g>>]
    <3>1. Body(i, f) = Body(i, g)
      BY <1>6, <2>3
    <3> QED BY <3>1
  <2> HIDE DEF Step
  <2> QED BY <2>1, <2>2, <2>3 DEF LooksBelow
<1>8. PICK f \in [D -> V] : f = Def(f)
  <2>1. PICK f \in [D -> V] : \A x \in D : f[x] = Step[<<x, f>>]
    <3> HIDE DEF Step, rank
    <3>1. IsInhabited(V)
      BY <1>2 DEF IsInhabited
    <3>2. IsInhabited(Solutions(D, V, Step))
      BY <1>7, <3>1, RecursionExists
    <3> QED BY <3>2 DEF Solutions, IsInhabited
  <2> HIDE DEF Body
  <2>2. f = Def(f)
    BY <2>1
  <2> QED BY <2>2
<1>9. routes = Def(routes)
  <2> HIDE DEF Def
  <2> QED BY <1>8
<1>10. Routed(request, Ds, d) = routes[Len(Ds)]
  BY DEF Routed, D, nothing, Appended
<1> HIDE DEF routes
<1>11. /\ rank \in [D -> Nat] /\ Len(Ds) \in D
       /\ \A i \in D : routes[i] = Body(i, routes) /\ f[i] = Body(i, f)
  <2>1. rank \in [D -> Nat] /\ Len(Ds) \in D
    BY <1>1 DEF D
  <2> HIDE DEF Body
  <2>2. \A g : \A i \in D : Def(g)[i] = Body(i, g)
    OBVIOUS
  <2> HIDE DEF Def
  <2> QED BY <1>8, <1>9, <2>1, <2>2
<1>12. \A i \in D : routes[i] = f[i]
  <2> SUFFICES ASSUME NEW z \in D, routes[z] # f[z]
               PROVE  FALSE
    OBVIOUS
  <2> DEFINE S == {i \in D : routes[i] # f[i]}
  <2>1. S \subseteq Nat /\ z \in S
    BY DEF D
  <2> HIDE DEF S
  <2>2. PICK n \in S : \A m \in S : n <= m
    BY <2>1, LeastNatural
  <2>3. n \in D /\ routes[n] # f[n]
    BY DEF S
  <2>4. n # 0
    BY <1>11, <2>3
  <2>5. n - 1 \in D /\ n - 1 < n /\ n \in Int
    BY <1>3, <2>3, <2>4 DEF D
  <2>6. ~(n <= n - 1)
    BY <2>5
  <2>7. routes[n - 1] = f[n - 1]
    BY <2>2, <2>5, <2>6 DEF S
  <2>8. Body(n, routes) = Body(n, f)
    BY <2>7
  <2> QED BY <1>11, <2>3, <2>8
<1>13. Routed(request, Ds, d) = f[Len(Ds)]
  BY <1>10, <1>11, <1>12
<1>14. f[0] = nothing /\ 0 \in D
  <2>1. 0 \in D
    BY <1>1 DEF D
  <2> QED BY <1>11, <2>1
<1>15. \A i \in 1 .. Len(Ds) : i - 1 \in D /\ f[i] = Appended(d, i, f[i - 1])
  <2> TAKE i \in 1 .. Len(Ds)
  <2>1. i \in D /\ i # 0
    BY <1>1 DEF D
  <2>2. Body(i, f) = Appended(d, i, f[i - 1])
    BY <2>1
  <2> HIDE DEF Body
  <2> QED BY <1>3, <1>11, <2>1, <2>2
<1> QED BY <1>13, <1>14, <1>15 DEF D, V, nothing

\* Who goes from one team to another by the first choices.
Going(d, n, r) == {Ds[j].player : j \in {j \in 1 .. n : Ds[j].origin = r[1] /\ d[j] = r[2]}}

(* One more choice adds its player to one route, if he moves. *)
LEMMA GoingGrows ==
    ASSUME AmongThree, NEW d \in Seq(1 .. 3), NEW n \in 1 .. Len(Ds), NEW r \in Routes(request)
    PROVE  /\ Going(d, n, r) = Going(d, n - 1, r) \cup IF r = <<Ds[n].origin, d[n]>> THEN {Ds[n].player} ELSE {}
           /\ Ds[n].player \notin Going(d, n - 1, r)
<1>1. n \in Nat /\ Len(Ds) \in Nat /\ 1 .. n = (1 .. n - 1) \cup {n} /\ n \notin 1 .. n - 1
  BY DecisionsType
<1>2. r = <<r[1], r[2]>>
  BY DEF Routes
<1>3. r = <<Ds[n].origin, d[n]>> <=> Ds[n].origin = r[1] /\ d[n] = r[2]
  BY <1>2
<1> DEFINE Before == {j \in 1 .. n - 1 : Ds[j].origin = r[1] /\ d[j] = r[2]}
<1>4. {j \in 1 .. n : Ds[j].origin = r[1] /\ d[j] = r[2]}
        = Before \cup IF Ds[n].origin = r[1] /\ d[n] = r[2] THEN {n} ELSE {}
  BY <1>1
<1> HIDE DEF Before
<1>5. {Ds[j].player : j \in Before \cup {n}} = {Ds[j].player : j \in Before} \cup {Ds[n].player}
  OBVIOUS
<1>6. Going(d, n, r) = {Ds[j].player : j \in Before} \cup IF r = <<Ds[n].origin, d[n]>> THEN {Ds[n].player} ELSE {}
  <2>1. CASE Ds[n].origin = r[1] /\ d[n] = r[2]
    BY <1>3, <1>4, <1>5, <2>1 DEF Going
  <2>2. CASE ~(Ds[n].origin = r[1] /\ d[n] = r[2])
    BY <1>3, <1>4, <2>2 DEF Going
  <2> QED BY <2>1, <2>2
<1>7. \A j \in 1 .. n - 1 : j \in 1 .. Len(Ds) /\ j # n
  BY <1>1
<1>8. \A j \in 1 .. n - 1 : Ds[j].player # Ds[n].player
  BY <1>7, DecisionsType
<1> QED BY <1>6, <1>8 DEF Going, Before

\* A line of different players.
Queue(s, S) == s \in Seq(S) /\ IsInjective(s) /\ Range(s) = S

(* A line grows by a player who is not in it, and lines of different players join. *)
LEMMA QueueGrows ==
    ASSUME NEW s, NEW S, Queue(s, S), NEW p, p \notin S
    PROVE  Queue(Append(s, p), S \cup {p})
<1>1. /\ s \in Seq(S) /\ Len(s) \in Nat /\ \A i \in 1 .. Len(s) : s[i] \in S
      /\ \A i, j \in 1 .. Len(s) : s[i] = s[j] => i = j
      /\ \A x \in S : \E i \in 1 .. Len(s) : x = s[i]
  BY DEF Queue, IsInjective, Range
<1> DEFINE e == Append(s, p)
<1>2. /\ s \in Seq(S \cup {p}) /\ e \in Seq(S \cup {p}) /\ DOMAIN e = 1 .. Len(s) + 1
      /\ \A i \in 1 .. Len(s) : e[i] = s[i]
      /\ e[Len(s) + 1] = p
  BY <1>1, SeqMonotonic
<1>3. \A i \in 1 .. Len(s) + 1 : i \in 1 .. Len(s) \/ i = Len(s) + 1
  BY <1>1
<1>4. /\ Len(s) + 1 \in 1 .. Len(s) + 1 /\ \A i \in 1 .. Len(s) : i \in 1 .. Len(s) + 1
  BY <1>1
<1> HIDE DEF e
<1>5. IsInjective(e)
  BY <1>1, <1>2, <1>3 DEF IsInjective
<1>6. Range(e) = S \cup {p}
  <2>1. Range(e) = {e[i] : i \in 1 .. Len(s) + 1}
    BY <1>2 DEF Range
  <2>2. ASSUME NEW i \in 1 .. Len(s) + 1
        PROVE  e[i] \in S \cup {p}
    BY <1>1, <1>2, <1>3
  <2>3. ASSUME NEW x \in S \cup {p}
        PROVE  \E i \in 1 .. Len(s) + 1 : x = e[i]
    <3>1. CASE x \in S
      <4>1. PICK i \in 1 .. Len(s) : x = s[i]
        BY <1>1, <3>1
      <4>2. i \in 1 .. Len(s) + 1 /\ x = e[i]
        BY <1>2, <1>4, <4>1
      <4> QED BY <4>2
    <3>2. CASE x = p
      BY <1>2, <1>4, <3>2
    <3> QED BY <3>1, <3>2
  <2> QED BY <2>1, <2>2, <2>3
<1> QED BY <1>2, <1>5, <1>6 DEF Queue, e

LEMMA QueuesJoin ==
    ASSUME NEW s, NEW S, Queue(s, S), NEW t, NEW T, Queue(t, T), S \cap T = {}
    PROVE  Queue(s \o t, S \cup T)
<1> DEFINE U == S \cup T
           j == s \o t
<1>1. /\ s \in Seq(S) /\ t \in Seq(T) /\ s \in Seq(U) /\ t \in Seq(U)
      /\ Range(s) = S /\ Range(t) = T /\ IsInjective(s) /\ IsInjective(t)
  BY SeqMonotonic DEF Queue
<1>2. j \in Seq(U) /\ IsInjective(j)
  <2>1. s \in Seq(Range(s)) /\ t \in Seq(Range(t)) /\ Range(s) \cap Range(t) = {}
    BY <1>1
  <2>2. IsInjective(s \o t)
    BY <1>1, <2>1, JoinIsInjective
  <2>3. s \o t \in Seq(U)
    BY <1>1
  <2> QED BY <2>2, <2>3
<1>3. Range(j) = U
  <2>1. S \cup T \subseteq Range(s \o t)
    BY <1>1, LineHoldsAll
  <2>2. Range(s \o t) \subseteq U
    BY <1>2, SeqOfItsRange
  <2> QED BY <2>1, <2>2
<1> QED BY <1>2, <1>3 DEF Queue

(* Every route of a candidate holds, once each, the players whose choice it is. *)
LEMMA RoutesAreFilled ==
    ASSUME AmongThree, NEW d \in Seq(1 .. 3), Len(d) = Len(Ds)
    PROVE  LET c == Routed(request, Ds, d)
           IN /\ c \in [Routes(request) -> Seq(Everyone)]
              /\ \A r \in Routes(request) : Queue(c[r], Going(d, Len(Ds), r))
<1>1. Len(Ds) \in Nat
  BY DecisionsType
<1>2. PICK f \in [0 .. Len(Ds) -> [Routes(request) -> Seq(Everyone)]] :
             /\ f[0] = [r \in Routes(request) |-> <<>>]
             /\ \A i \in 1 .. Len(Ds) : i - 1 \in 0 .. Len(Ds) /\ f[i] = Appended(d, i, f[i - 1])
             /\ Routed(request, Ds, d) = f[Len(Ds)]
  BY RoutesRecursion
<1> DEFINE Loaded(n) == \A r \in Routes(request) : Queue(f[n][r], Going(d, n, r))
<1>3. Loaded(0)
  <2>1. \A r \in Routes(request) : Going(d, 0, r) = {}
    BY DEF Going
  <2>2. Queue(<<>>, {})
    BY DEF Queue, IsInjective, Range
  <2> QED BY <1>2, <2>1, <2>2
<1>4. ASSUME NEW n \in 1 .. Len(Ds), Loaded(n - 1)
      PROVE  Loaded(n)
  <2> SUFFICES ASSUME NEW r \in Routes(request)
               PROVE  Queue(f[n][r], Going(d, n, r))
    OBVIOUS
  <2>1. f[n][r] = IF r = <<Ds[n].origin, d[n]>> THEN Append(f[n - 1][r], Ds[n].player) ELSE f[n - 1][r]
    BY <1>2, ZenonT(60) DEF Appended
  <2>2. Queue(f[n - 1][r], Going(d, n - 1, r))
    BY <1>4
  <2>3. /\ Going(d, n, r) = Going(d, n - 1, r) \cup IF r = <<Ds[n].origin, d[n]>> THEN {Ds[n].player} ELSE {}
        /\ Ds[n].player \notin Going(d, n - 1, r)
    BY GoingGrows
  <2>4. CASE r = <<Ds[n].origin, d[n]>>
    <3>1. Queue(Append(f[n - 1][r], Ds[n].player), Going(d, n - 1, r) \cup {Ds[n].player})
      BY <2>2, <2>3, QueueGrows
    <3> QED BY <2>1, <2>3, <2>4, <3>1
  <2>5. CASE r # <<Ds[n].origin, d[n]>>
    BY <2>1, <2>2, <2>3, <2>5
  <2> QED BY <2>4, <2>5
<1> HIDE DEF Loaded
<1>5. \A n \in 0 .. Len(Ds) : Loaded(n)
  <2> SUFFICES ASSUME NEW z \in 0 .. Len(Ds), ~Loaded(z)
               PROVE  FALSE
    OBVIOUS
  <2> DEFINE S == {i \in 0 .. Len(Ds) : ~Loaded(i)}
  <2>1. S \subseteq Nat /\ z \in S
    OBVIOUS
  <2> HIDE DEF S
  <2>2. PICK n \in S : \A m \in S : n <= m
    BY <2>1, LeastNatural
  <2>3. n \in 0 .. Len(Ds) /\ ~Loaded(n)
    BY DEF S
  <2>4. n # 0
    BY <1>3, <2>3
  <2>5. n - 1 \in 0 .. Len(Ds) /\ ~(n <= n - 1) /\ n \in 1 .. Len(Ds)
    BY <1>1, <2>3, <2>4
  <2>6. Loaded(n - 1)
    BY <2>2, <2>5 DEF S
  <2> QED BY <1>4, <2>3, <2>5, <2>6
<1>6. Loaded(Len(Ds)) /\ f[Len(Ds)] \in [Routes(request) -> Seq(Everyone)]
  BY <1>1, <1>2, <1>5
<1> QED BY <1>2, <1>6 DEF Loaded

\* Who goes from one team to another.
Flow(d, t, u) == {p \in Leaving(d, t) : MoveMade(d)[p] = u}

(* Who goes from one team to another is who chooses to. *)
LEMMA FlowType ==
    ASSUME AmongThree, NEW d \in Seq(1 .. 3), Len(d) = Len(Ds), NEW t \in 1 .. 3, NEW u \in 1 .. 3
    PROVE  /\ \A p : p \in Flow(d, t, u) <=>
                \E j \in 1 .. Len(Ds) : p = Ds[j].player /\ Ds[j].origin = t /\ d[j] = u /\ t # u
           /\ t = u => Flow(d, t, u) = {}
<1>1. \A j \in 1 .. Len(Ds) : MoveMade(d)[Ds[j].player] = d[j]
  BY MoveMadeType
<1>2. \A p : p \in Leaving(d, t) <=> \E j \in 1 .. Len(Ds) : p = Ds[j].player /\ Ds[j].origin = t /\ d[j] # t
  BY DEF Leaving
<1>3. \A p : p \in Flow(d, t, u) <=>
                \E j \in 1 .. Len(Ds) : p = Ds[j].player /\ Ds[j].origin = t /\ d[j] = u /\ t # u
  BY <1>1, <1>2 DEF Flow
<1>5. t = u => Flow(d, t, u) = {}
  BY <1>3
<1> QED BY <1>3, <1>5

LEMMA FlowIsGoing ==
    ASSUME AmongThree, NEW d \in Seq(1 .. 3), Len(d) = Len(Ds), NEW t \in 1 .. 3, NEW u \in 1 .. 3, t # u
    PROVE  <<t, u>> \in Routes(request) /\ Flow(d, t, u) = Going(d, Len(Ds), <<t, u>>)
<1>3. \A p : p \in Flow(d, t, u) <=>
                \E j \in 1 .. Len(Ds) : p = Ds[j].player /\ Ds[j].origin = t /\ d[j] = u /\ t # u
  BY FlowType
<1>4. <<t, u>> \in Routes(request) /\ Flow(d, t, u) = Going(d, Len(Ds), <<t, u>>)
  <2>1. Teams(request) = 1 .. 3
    BY ThreeTeams
  <2>2. <<t, u>> \in Routes(request)
    BY <2>1 DEF Routes
  <2>3. \A p : p \in Going(d, Len(Ds), <<t, u>>) <=>
                 \E j \in 1 .. Len(Ds) : p = Ds[j].player /\ Ds[j].origin = t /\ d[j] = u
    BY DEF Going
  <2>4. \A p : p \in Going(d, Len(Ds), <<t, u>>) <=> p \in Flow(d, t, u)
    BY <1>3, <2>3
  <2> QED BY <2>2, <2>4
<1> QED BY <1>4

(* Nobody goes two ways, and whoever leaves or comes goes one of them. *)
LEMMA FlowsAreApart ==
    ASSUME AmongThree, NEW d \in Seq(1 .. 3), Len(d) = Len(Ds)
    PROVE  /\ \A t, u, v, w \in 1 .. 3 : t # v \/ u # w => Flow(d, t, u) \cap Flow(d, v, w) = {}
           /\ \A t \in 1 .. 3 : Leaving(d, t) = Flow(d, t, 1) \cup Flow(d, t, 2) \cup Flow(d, t, 3)
           /\ \A t \in 1 .. 3 : Arriving(d, t) = Flow(d, 1, t) \cup Flow(d, 2, t) \cup Flow(d, 3, t)
<1>1. \A t, u \in 1 .. 3 : \A p : p \in Flow(d, t, u) <=>
         \E j \in 1 .. Len(Ds) : p = Ds[j].player /\ Ds[j].origin = t /\ d[j] = u /\ t # u
  BY FlowType
<1>2. /\ \A j, k \in 1 .. Len(Ds) : Ds[j].player = Ds[k].player => j = k
      /\ \A j \in 1 .. Len(Ds) : Ds[j].origin \in 1 .. 3 /\ d[j] \in 1 .. 3
  BY DecisionsType
<1>3. ASSUME NEW t \in 1 .. 3, NEW u \in 1 .. 3, NEW v \in 1 .. 3, NEW w \in 1 .. 3, t # v \/ u # w
      PROVE  Flow(d, t, u) \cap Flow(d, v, w) = {}
  <2> SUFFICES ASSUME NEW p, p \in Flow(d, t, u), p \in Flow(d, v, w)
               PROVE  FALSE
    OBVIOUS
  <2>1. PICK j \in 1 .. Len(Ds) : p = Ds[j].player /\ Ds[j].origin = t /\ d[j] = u
    BY <1>1
  <2>2. PICK k \in 1 .. Len(Ds) : p = Ds[k].player /\ Ds[k].origin = v /\ d[k] = w
    BY <1>1
  <2> QED BY <1>2, <1>3, <2>1, <2>2
<1>4. ASSUME NEW t \in 1 .. 3
      PROVE  Leaving(d, t) = Flow(d, t, 1) \cup Flow(d, t, 2) \cup Flow(d, t, 3)
  <2>1. \A p : p \in Leaving(d, t) <=> \E j \in 1 .. Len(Ds) : p = Ds[j].player /\ Ds[j].origin = t /\ d[j] # t
    BY DEF Leaving
  <2>2. \A j \in 1 .. Len(Ds) : d[j] = 1 \/ d[j] = 2 \/ d[j] = 3
    BY <1>2
  <2>3. \A u \in 1 .. 3 : \A p : p \in Flow(d, t, u) <=>
         \E j \in 1 .. Len(Ds) : p = Ds[j].player /\ Ds[j].origin = t /\ d[j] = u /\ t # u
    BY <1>1
  <2>4. \A p : p \in Leaving(d, t) => \E u \in 1 .. 3 : p \in Flow(d, t, u)
    BY <1>2, <2>1, <2>3
  <2>5. \A u \in 1 .. 3 : \A p : p \in Flow(d, t, u) => p \in Leaving(d, t)
    BY DEF Flow
  <2> QED BY <2>4, <2>5
<1>5. ASSUME NEW t \in 1 .. 3
      PROVE  Arriving(d, t) = Flow(d, 1, t) \cup Flow(d, 2, t) \cup Flow(d, 3, t)
  <2>1. \A p : p \in Arriving(d, t) <=> \E j \in 1 .. Len(Ds) : p = Ds[j].player /\ Ds[j].origin # t /\ d[j] = t
    BY DEF Arriving
  <2>3. \A u \in 1 .. 3 : \A p : p \in Flow(d, u, t) <=>
         \E j \in 1 .. Len(Ds) : p = Ds[j].player /\ Ds[j].origin = u /\ d[j] = t /\ u # t
    BY <1>1
  <2>4. \A p : p \in Arriving(d, t) => \E u \in 1 .. 3 : p \in Flow(d, u, t)
    BY <1>2, <2>1, <2>3
  <2>5. \A u \in 1 .. 3 : \A p : p \in Flow(d, u, t) => p \in Arriving(d, t)
    BY <2>1, <2>3
  <2> QED BY <2>4, <2>5
<1> QED BY <1>3, <1>4, <1>5

(* Every team of a candidate sends and receives, once each, whom its move takes from it and to it. *)
LEMMA TeamsTrade ==
    ASSUME AmongThree, NEW d \in Seq(1 .. 3), Len(d) = Len(Ds), NEW t \in 1 .. 3
    PROVE  /\ Queue(Sent(Routed(request, Ds, d), t), Leaving(d, t))
           /\ Queue(Received(Routed(request, Ds, d), t), Arriving(d, t))
<1> DEFINE c == Routed(request, Ds, d)
<1>1. DOMAIN c = Routes(request) /\ \A r \in Routes(request) : Queue(c[r], Going(d, Len(Ds), r))
  BY RoutesAreFilled
<1> HIDE DEF c
<1>2. ASSUME NEW v \in 1 .. 3, NEW w \in 1 .. 3
      PROVE  Queue(Carried(c, <<v, w>>), Flow(d, v, w))
  <2>1. CASE v = w
    <3>1. <<v, w>> \notin Routes(request)
      BY <2>1 DEF Routes
    <3>2. Carried(c, <<v, w>>) = <<>>
      BY <1>1, <3>1 DEF Carried
    <3>3. Flow(d, v, w) = {}
      BY <2>1, FlowType
    <3>4. Queue(<<>>, {})
      BY DEF Queue, IsInjective, Range
    <3> QED BY <3>2, <3>3, <3>4
  <2>2. CASE v # w
    <3>1. <<v, w>> \in Routes(request) /\ Flow(d, v, w) = Going(d, Len(Ds), <<v, w>>)
      BY <2>2, FlowIsGoing
    <3>2. Carried(c, <<v, w>>) = c[<<v, w>>]
      BY <1>1, <3>1 DEF Carried
    <3> QED BY <1>1, <3>1, <3>2
  <2> QED BY <2>1, <2>2
<1>3. ASSUME NEW a, NEW A, Queue(a, A), NEW b, NEW B, Queue(b, B), NEW e, NEW E, Queue(e, E),
             A \cap B = {}, A \cap E = {}, B \cap E = {}
      PROVE  Queue(a \o b \o e, A \cup B \cup E)
  <2>1. Queue(a \o b, A \cup B)
    BY <1>3, QueuesJoin
  <2>2. (A \cup B) \cap E = {}
    BY <1>3
  <2> QED BY <1>3, <2>1, <2>2, QueuesJoin
<1>4. /\ Flow(d, t, 1) \cap Flow(d, t, 2) = {} /\ Flow(d, t, 1) \cap Flow(d, t, 3) = {}
      /\ Flow(d, t, 2) \cap Flow(d, t, 3) = {}
      /\ Flow(d, 1, t) \cap Flow(d, 2, t) = {} /\ Flow(d, 1, t) \cap Flow(d, 3, t) = {}
      /\ Flow(d, 2, t) \cap Flow(d, 3, t) = {}
  BY FlowsAreApart
<1>5. /\ Leaving(d, t) = Flow(d, t, 1) \cup Flow(d, t, 2) \cup Flow(d, t, 3)
      /\ Arriving(d, t) = Flow(d, 1, t) \cup Flow(d, 2, t) \cup Flow(d, 3, t)
  BY FlowsAreApart
<1>6. /\ Queue(Carried(c, <<t, 1>>), Flow(d, t, 1)) /\ Queue(Carried(c, <<1, t>>), Flow(d, 1, t))
      /\ Queue(Carried(c, <<t, 2>>), Flow(d, t, 2)) /\ Queue(Carried(c, <<2, t>>), Flow(d, 2, t))
      /\ Queue(Carried(c, <<t, 3>>), Flow(d, t, 3)) /\ Queue(Carried(c, <<3, t>>), Flow(d, 3, t))
  <2>1. \A v, w \in 1 .. 3 : Queue(Carried(c, <<v, w>>), Flow(d, v, w))
    BY <1>2
  <2>2. 1 \in 1 .. 3 /\ 2 \in 1 .. 3 /\ 3 \in 1 .. 3 /\ t \in 1 .. 3
    OBVIOUS
  <2> QED BY <2>1, <2>2, Zenon
<1>7. Queue(Carried(c, <<t, 1>>) \o Carried(c, <<t, 2>>) \o Carried(c, <<t, 3>>),
            Flow(d, t, 1) \cup Flow(d, t, 2) \cup Flow(d, t, 3))
  BY <1>3, <1>4, <1>6
<1>8. Queue(Carried(c, <<1, t>>) \o Carried(c, <<2, t>>) \o Carried(c, <<3, t>>),
            Flow(d, 1, t) \cup Flow(d, 2, t) \cup Flow(d, 3, t))
  BY <1>3, <1>4, <1>6
<1>9. Queue(Sent(c, t), Leaving(d, t))
  BY <1>5, <1>7, Zenon DEF Sent
<1>10. Queue(Received(c, t), Arriving(d, t))
  BY <1>5, <1>8, Zenon DEF Received
<1> QED BY <1>9, <1>10 DEF c

(* A line is as long as its set is large. *)
LEMMA QueueSize ==
    ASSUME NEW s, NEW S, Queue(s, S)
    PROVE  Range(s) = S /\ IsInjective(s) /\ s \in Seq(S) /\ Len(s) = Cardinality(S)
<1>1. s \in Seq(S) /\ IsInjective(s) /\ Range(s) = S /\ DOMAIN s = 1 .. Len(s) /\ Len(s) \in Nat
  BY DEF Queue
<1>2. IsFiniteSet(1 .. Len(s)) /\ Cardinality(1 .. Len(s)) = Len(s)
  <2>1. \A n \in Nat : IsFiniteSet(1 .. n) /\ Cardinality(1 .. n) = n
    BY FS_Interval
  <2> QED BY <1>1, <2>1
<1>3. Range(s) = At(s, DOMAIN s)
  BY DEF Range, At
<1> QED BY <1>1, <1>2, <1>3, Distinct

(* What a choice for every player is made into is a transfer that makes its move. *)
LEMMA RoutedIsTransfer ==
    ASSUME AmongThree, NEW d \in Seq(1 .. 3), Len(d) = Len(Ds)
    PROVE  /\ IsTransfer(Routed(request, Ds, d))
           /\ MoveOf(Routed(request, Ds, d)) = MoveMade(d)
<1> DEFINE c == Routed(request, Ds, d)
           out == [t \in Teams(request) |-> Sent(c, t)]
           in == [t \in Teams(request) |-> Received(c, t)]
<1>0. Teams(request) = 1 .. 3 /\ Len(request.rosters) # 2
      /\ Everyone = UNION {Owned(request.rosters[t]) : t \in Teams(request)}
  BY ThreeTeams
<1>1. \A t \in 1 .. 3 : /\ Queue(Sent(c, t), Leaving(d, t))
                        /\ Queue(Received(c, t), Arriving(d, t))
  BY TeamsTrade
<1> HIDE DEF c
<1>2. \A t \in 1 .. 3 :
        /\ out[t] = Sent(c, t) /\ in[t] = Received(c, t)
        /\ IsInjective(out[t]) /\ out[t] \in Seq(Leaving(d, t)) /\ Range(out[t]) = Leaving(d, t)
        /\ IsInjective(in[t]) /\ in[t] \in Seq(Arriving(d, t)) /\ Range(in[t]) = Arriving(d, t)
  <2> TAKE t \in 1 .. 3
  <2>1. out[t] = Sent(c, t) /\ in[t] = Received(c, t)
    BY <1>0
  <2>2. Queue(out[t], Leaving(d, t)) /\ Queue(in[t], Arriving(d, t))
    BY <1>1, <2>1
  <2> HIDE DEF out, in
  <2>3. IsInjective(out[t]) /\ out[t] \in Seq(Leaving(d, t)) /\ Range(out[t]) = Leaving(d, t)
    BY <2>2, QueueSize
  <2>4. IsInjective(in[t]) /\ in[t] \in Seq(Arriving(d, t)) /\ Range(in[t]) = Arriving(d, t)
    BY <2>2, QueueSize
  <2> QED BY <2>1, <2>3, <2>4
<1>3. \A t \in 1 .. 3 : /\ Leaving(d, t) \subseteq Owned(request.rosters[t])
                        /\ Arriving(d, t) \cap Owned(request.rosters[t]) = {}
  <2>1. Len(d) <= Len(Ds)
    BY DecisionsType
  <2> QED BY <2>1, MoversType
<1>4. /\ \A t \in 1 .. 3 : \A p \in Leaving(d, t) : \E u \in 1 .. 3 : p \in Arriving(d, u)
      /\ \A t \in 1 .. 3 : \A p \in Arriving(d, t) : \E u \in 1 .. 3 : p \in Leaving(d, u)
      /\ \A t, u \in 1 .. 3 : t # u => Arriving(d, t) \cap Arriving(d, u) = {}
  <2>1. /\ \A t, u, v, w \in 1 .. 3 : t # v \/ u # w => Flow(d, t, u) \cap Flow(d, v, w) = {}
        /\ \A t \in 1 .. 3 : Leaving(d, t) = Flow(d, t, 1) \cup Flow(d, t, 2) \cup Flow(d, t, 3)
        /\ \A t \in 1 .. 3 : Arriving(d, t) = Flow(d, 1, t) \cup Flow(d, 2, t) \cup Flow(d, 3, t)
    BY FlowsAreApart
  <2>2. \A t \in 1 .. 3 : \A p : p \in Leaving(d, t) <=> \E u \in 1 .. 3 : p \in Flow(d, t, u)
    BY <2>1
  <2>3. \A t \in 1 .. 3 : \A p : p \in Arriving(d, t) <=> \E u \in 1 .. 3 : p \in Flow(d, u, t)
    BY <2>1
  <2>4. \A t, u, v, w \in 1 .. 3 : \A p : p \in Flow(d, t, u) /\ p \in Flow(d, v, w) => t = v /\ u = w
    BY <2>1
  <2> QED BY <2>2, <2>3, <2>4
<1>5. IsTransfer(c)
  <2> SUFFICES ASSUME NEW t \in 1 .. 3
               PROVE  /\ IsInjective(out[t]) /\ IsInjective(in[t])
                      /\ out[t] \in Seq(Owned(request.rosters[t]))
                      /\ in[t] \in Seq(UNION {Range(out[u]) : u \in Teams(request)})
                      /\ Range(in[t]) \cap Owned(request.rosters[t]) = {}
                      /\ \A u \in 1 .. 3 : u # t => Range(in[t]) \cap Range(in[u]) = {}
                      /\ Range(out[t]) \subseteq UNION {Range(in[u]) : u \in Teams(request)}
    <3> HIDE DEF out, in
    <3>1. (\A t \in Teams(request) :
             /\ IsInjective(out[t]) /\ IsInjective(in[t])
             /\ Len(request.rosters) = 2 => out[t] # <<>>
             /\ out[t] \in Seq(Owned(request.rosters[t]))
             /\ in[t] \in Seq(UNION {Range(out[u]) : u \in Teams(request)})
             /\ Range(in[t]) \cap Owned(request.rosters[t]) = {}
             /\ \A u \in Teams(request) : u # t => Range(in[t]) \cap Range(in[u]) = {}
             /\ Range(out[t]) \subseteq UNION {Range(in[u]) : u \in Teams(request)}) => IsTransfer(c)
      BY Zenon DEF IsTransfer, out, in
    <3> QED BY <1>0, <3>1
  <2>1. \A u \in 1 .. 3 : Range(out[u]) = Leaving(d, u) /\ Range(in[u]) = Arriving(d, u)
    BY <1>2
  <2>2. IsInjective(out[t]) /\ IsInjective(in[t]) /\ out[t] \in Seq(Leaving(d, t)) /\ in[t] \in Seq(Arriving(d, t))
    BY <1>2
  <2> HIDE DEF out, in
  <2>3. out[t] \in Seq(Owned(request.rosters[t]))
    BY <1>3, <2>2, SeqMonotonic
  <2>4. Arriving(d, t) \subseteq UNION {Range(out[u]) : u \in Teams(request)}
    BY <1>0, <1>4, <2>1
  <2>5. in[t] \in Seq(UNION {Range(out[u]) : u \in Teams(request)})
    BY <2>2, <2>4, SeqMonotonic
  <2>6. Leaving(d, t) \subseteq UNION {Range(in[u]) : u \in Teams(request)}
    BY <1>0, <1>4, <2>1
  <2>7. /\ Range(in[t]) \cap Owned(request.rosters[t]) = {}
        /\ \A u \in 1 .. 3 : u # t => Range(in[t]) \cap Range(in[u]) = {}
    BY <1>3, <1>4, <2>1
  <2>8. Range(out[t]) \subseteq UNION {Range(in[u]) : u \in Teams(request)}
    BY <2>1, <2>6
  <2> QED BY <2>2, <2>3, <2>5, <2>7, <2>8
<1>6. MoveOf(c) = MoveMade(d)
  <2> DEFINE
         To(p) == IF \E t \in 1 .. 3 : p \in Range(Received(c, t))
                  THEN CHOOSE t \in 1 .. 3 : p \in Range(Received(c, t))
                  ELSE CHOOSE t \in 1 .. 3 : p \in Owned(request.rosters[t])
         ToOf(teams, p) == IF \E t \in teams : p \in Range(Received(c, t))
                           THEN CHOOSE t \in teams : p \in Range(Received(c, t))
                           ELSE CHOOSE t \in teams : p \in Owned(request.rosters[t])
         MovesOf(players, teams) == [p \in players |-> ToOf(teams, p)]
  <2>1. MoveOf(c) = [p \in Everyone |-> To(p)]
    <3>1. MoveOf(c) = MovesOf(UNION {Owned(request.rosters[t]) : t \in Teams(request)}, Teams(request))
      BY Zenon DEF MoveOf
    <3>2. MovesOf(Everyone, 1 .. 3) = [p \in Everyone |-> To(p)]
      OBVIOUS
    <3> HIDE DEF MovesOf
    <3>3. MoveOf(c) = MovesOf(Everyone, 1 .. 3)
      BY <1>0, <3>1, Zenon
    <3> QED BY <3>2, <3>3
  <2>2. \A t \in 1 .. 3 : Range(Received(c, t)) = Arriving(d, t)
    BY <1>2
  <2>3. ASSUME NEW p \in Everyone
        PROVE  To(p) = MoveMade(d)[p]
    <3>1. PICK j \in 1 .. Len(Ds) : p = Ds[j].player
      BY EveryoneDecides
    <3>2. /\ Ds[j].origin \in 1 .. 3 /\ d[j] \in 1 .. 3
          /\ \A k \in 1 .. Len(Ds) : Ds[k].player = Ds[j].player => k = j
          /\ \A t \in 1 .. 3 : p \in Owned(request.rosters[t]) <=> t = Ds[j].origin
      BY <3>1, DecisionsType
    <3>3. MoveMade(d)[p] = d[j]
      BY <3>1, MoveMadeType
    <3>4. \A t \in 1 .. 3 : p \in Arriving(d, t) <=> Ds[j].origin # t /\ d[j] = t
      BY <3>1, <3>2 DEF Arriving
    <3>5. \A t \in 1 .. 3 : p \in Range(Received(c, t)) <=> Ds[j].origin # t /\ d[j] = t
      BY <2>2, <3>4
    <3>6. CASE d[j] = Ds[j].origin
      <4>1. ~ \E t \in 1 .. 3 : p \in Range(Received(c, t))
        BY <3>5, <3>6
      <4>2. (CHOOSE t \in 1 .. 3 : p \in Owned(request.rosters[t])) = Ds[j].origin
        BY <3>2
      <4> QED BY <3>3, <3>6, <4>1, <4>2
    <3>7. CASE d[j] # Ds[j].origin
      <4>1. \E t \in 1 .. 3 : p \in Range(Received(c, t))
        BY <3>2, <3>5, <3>7
      <4>2. (CHOOSE t \in 1 .. 3 : p \in Range(Received(c, t))) = d[j]
        BY <3>2, <3>5, <3>7
      <4> QED BY <3>3, <4>1, <4>2
    <3> QED BY <3>6, <3>7
  <2> HIDE DEF To
  <2>4. MoveMade(d) = [p \in Everyone |-> MoveMade(d)[p]]
    BY DEF MoveMade
  <2> QED BY <2>1, <2>3, <2>4
<1> QED BY <1>5, <1>6 DEF c

(* Counting admits every team of what a good choice is made into. *)
LEMMA RoutedIsAdmitted ==
    ASSUME AmongThree, NEW d \in Seq(1 .. 3), IsGood(d), NEW t \in 1 .. 3
    PROVE  IsAdmitted(Routed(request, Ds, d), t)
<1> DEFINE c == Routed(request, Ds, d)
<1>1. Len(d) = Len(Ds) /\ Len(d) <= Len(Ds) /\ Complete(request, Reach(d))
  BY DecisionsType DEF IsGood
<1>2. Roomy(d, t)
  BY <1>1, CompleteMeans
<1>3. /\ Leaving(d, t) \subseteq Owned(request.rosters[t]) /\ IsFiniteSet(Arriving(d, t))
      /\ Arriving(d, t) \cap Owned(request.rosters[t]) = {}
  BY <1>1, MoversType
<1>4. t \in Teams(request) /\ request \in Requests
  BY ThreeTeams
<1>5. Admits(PlanFor(request.rosters[t], Placements, Leaving(d, t), Arriving(d, t)), request.rules.noDrops)
  BY <1>2, <1>3, <1>4, SetsDecide DEF Roomy
<1>6. Queue(Sent(c, t), Leaving(d, t)) /\ Queue(Received(c, t), Arriving(d, t))
  BY <1>1, TeamsTrade
<1> HIDE DEF c
<1>7. /\ Range(Sent(c, t)) = Leaving(d, t) /\ Len(Sent(c, t)) = Cardinality(Leaving(d, t))
      /\ Range(Received(c, t)) = Arriving(d, t) /\ Len(Received(c, t)) = Cardinality(Arriving(d, t))
  BY <1>6, QueueSize
<1>8. PlanOf(c, t) = PlanFor(request.rosters[t], Placements, Leaving(d, t), Arriving(d, t))
  BY <1>7, Zenon DEF PlanOf, PlanFor
<1> QED BY <1>5, <1>8 DEF IsAdmitted, c

-----------------------------------------------------------------------------
(* The space of a three-team search is exactly its trades.                  *)

(* The iterator of a three-team request yields, from any index on, the rest of a list of its trades. *)
LEMMA ThreeTeamsIterate ==
    ASSUME AmongThree
    PROVE  IteratesTrades
<1> DEFINE R(d) == Routed(request, Ds, d)
           N == CandidateCount(request)
           from == [n \in 0 .. N |-> IterFrom(request, n)]
<1>1. PICK s : /\ ListsSet(s, {d \in Seq(1 .. 3) : IsGood(d)})
               /\ Len(s) = ThreeTeamsCount(request)
               /\ \A n \in Nat : Paths(request, Ds, n) = From(s, n)
  BY PathsAreListed
<1>2. /\ s \in Seq(Seq(1 .. 3)) /\ Len(s) \in Nat /\ DOMAIN s = 1 .. Len(s)
      /\ \A i, j \in 1 .. Len(s) : s[i] = s[j] => i = j
      /\ \A i \in 1 .. Len(s) : s[i] \in Seq(1 .. 3) /\ IsGood(s[i])
      /\ \A d \in Seq(1 .. 3) : IsGood(d) => \E i \in 1 .. Len(s) : d = s[i]
  <2>1. s \in Seq(Seq(1 .. 3)) /\ IsInjective(s) /\ {s[i] : i \in 1 .. Len(s)} = {d \in Seq(1 .. 3) : IsGood(d)}
    BY <1>1 DEF ListsSet
  <2>2. Len(s) \in Nat /\ DOMAIN s = 1 .. Len(s)
    BY <2>1
  <2>3. \A i \in 1 .. Len(s) : s[i] \in Seq(1 .. 3) /\ IsGood(s[i])
    BY <2>1
  <2>4. \A d \in Seq(1 .. 3) : IsGood(d) => \E i \in 1 .. Len(s) : d = s[i]
    BY <2>1
  <2>5. \A i, j \in 1 .. Len(s) : s[i] = s[j] => i = j
    BY <2>1, <2>2 DEF IsInjective
  <2> QED BY <2>1, <2>2, <2>3, <2>4, <2>5
<1> DEFINE all == [i \in 1 .. Len(s) |-> R(s[i])]
<1>3. Len(request.rosters) # 2 /\ Teams(request) = 1 .. 3 /\ N = Len(s)
  BY <1>1, ThreeTeams DEF CandidateCount
<1>4. \A d \in Seq(1 .. 3) : IsGood(d) =>
        /\ Len(d) = Len(Ds) /\ R(d) \in [Routes(request) -> Seq(Everyone)]
        /\ IsTransfer(R(d)) /\ MoveOf(R(d)) = MoveMade(d) /\ MoveMade(d) \in Trades
        /\ \A t \in 1 .. 3 : IsAdmitted(R(d), t)
  <2> SUFFICES ASSUME NEW d \in Seq(1 .. 3), IsGood(d)
               PROVE  /\ Len(d) = Len(Ds) /\ R(d) \in [Routes(request) -> Seq(Everyone)]
                      /\ IsTransfer(R(d)) /\ MoveOf(R(d)) = MoveMade(d) /\ MoveMade(d) \in Trades
                      /\ \A t \in 1 .. 3 : IsAdmitted(R(d), t)
    OBVIOUS
  <2>1. Len(d) = Len(Ds)
    BY DEF IsGood
  <2>2. R(d) \in [Routes(request) -> Seq(Everyone)]
    BY <2>1, RoutesAreFilled
  <2>3. IsTransfer(R(d)) /\ MoveOf(R(d)) = MoveMade(d)
    BY <2>1, RoutedIsTransfer
  <2>4. MoveMade(d) \in Trades
    BY <2>1, GoodMeansTrade
  <2>5. \A t \in 1 .. 3 : IsAdmitted(R(d), t)
    BY RoutedIsAdmitted
  <2> QED BY <2>1, <2>2, <2>3, <2>4, <2>5
<1> HIDE DEF R, N
<1>5. /\ all \in Seq([Routes(request) -> Seq(Everyone)]) /\ Len(all) = Len(s) /\ DOMAIN all = 1 .. Len(s)
      /\ \A i \in 1 .. Len(s) : all[i] = R(s[i]) /\ s[i] \in Seq(1 .. 3) /\ IsGood(s[i])
      /\ Range(all) \subseteq [Routes(request) -> Seq(Everyone)]
  <2>1. \A i \in 1 .. Len(s) : s[i] \in Seq(1 .. 3) /\ IsGood(s[i]) /\ R(s[i]) \in [Routes(request) -> Seq(Everyone)]
    BY <1>2, <1>4
  <2>2. all \in Seq([Routes(request) -> Seq(Everyone)]) /\ Len(all) = Len(s) /\ DOMAIN all = 1 .. Len(s)
    BY <1>2, <2>1
  <2>3. \A i \in 1 .. Len(s) : all[i] = R(s[i])
    OBVIOUS
  <2> HIDE DEF all
  <2>4. Range(all) \subseteq [Routes(request) -> Seq(Everyone)]
    BY <2>2, SeqOfItsRange
  <2> QED BY <2>1, <2>2, <2>3, <2>4
<1>6. \A n \in 0 .. N : IterFrom(request, n) = From(all, n)
  <2> SUFFICES ASSUME NEW n \in Nat
               PROVE  ThreeTeamsFrom(request, n) = From(all, n)
    <3>1. \A n : IterFrom(request, n) = ThreeTeamsFrom(request, n)
      BY <1>3 DEF IterFrom
    <3>2. \A n \in 0 .. N : n \in Nat
      BY <1>2, <1>3
    <3> HIDE DEF all
    <3> QED BY <3>1, <3>2
  <2> DEFINE rest == From(s, n)
             line == [i \in DOMAIN rest |-> R(rest[i])]
  <2>1. ThreeTeamsFrom(request, n) = line
    <3>1. Paths(request, Ds, n) = rest
      BY <1>1
    <3> HIDE DEF rest
    <3> QED BY <3>1, Zenon DEF ThreeTeamsFrom, Ds, R
  <2>2. /\ rest \in Seq(Seq(1 .. 3)) /\ Len(rest) = IF n < Len(s) THEN Len(s) - n ELSE 0
        /\ \A i \in 1 .. Len(rest) : rest[i] = s[n + i]
    <3>1. s \in Seq(Seq(1 .. 3))
      BY <1>2
    <3>2. \A t \in Seq(Seq(1 .. 3)) :
            /\ From(t, n) \in Seq(Seq(1 .. 3))
            /\ Len(From(t, n)) = IF n < Len(t) THEN Len(t) - n ELSE 0
            /\ \A i \in 1 .. Len(From(t, n)) : From(t, n)[i] = t[n + i]
      BY FromType
    <3> QED BY <3>1, <3>2
  <2> HIDE DEF all
  <2>3. /\ From(all, n) \in Seq([Routes(request) -> Seq(Everyone)])
        /\ Len(From(all, n)) = IF n < Len(s) THEN Len(s) - n ELSE 0
        /\ \A i \in 1 .. Len(From(all, n)) : From(all, n)[i] = all[n + i]
    BY <1>5, FromType, ZenonT(60)
  <2> HIDE DEF rest
  <2>4. Len(rest) \in Nat /\ DOMAIN rest = 1 .. Len(rest)
        /\ \A i \in 1 .. Len(rest) : n + i \in 1 .. Len(s)
    <3>1. Len(s) \in Nat
      BY <1>2
    <3>2. Len(rest) \in Nat /\ DOMAIN rest = 1 .. Len(rest)
      BY <2>2
    <3>3. Len(rest) = IF n < Len(s) THEN Len(s) - n ELSE 0
      BY <2>2
    <3>4. \A i \in 1 .. Len(rest) : n + i \in 1 .. Len(s)
      <4> TAKE i \in 1 .. Len(rest)
      <4>1. CASE n < Len(s)
        BY <3>1, <3>2, <3>3, <4>1
      <4>2. CASE ~(n < Len(s))
        BY <3>1, <3>2, <3>3, <4>2
      <4> QED BY <4>1, <4>2
    <3> QED BY <3>2, <3>4
  <2>5. DOMAIN line = 1 .. Len(rest) /\ \A i \in 1 .. Len(rest) : line[i] = R(s[n + i])
    BY <2>2, <2>4
  <2>6. \A i \in 1 .. Len(rest) : line[i] = all[n + i]
    BY <1>5, <2>4, <2>5
  <2> DEFINE seq == From(all, n)
  <2>7. /\ seq = [i \in 1 .. Len(rest) |-> seq[i]] /\ \A i \in 1 .. Len(rest) : seq[i] = all[n + i]
    BY <2>2, <2>3
  <2> HIDE DEF seq
  <2>8. line = [i \in 1 .. Len(rest) |-> line[i]]
    BY <2>5
  <2> HIDE DEF line
  <2>9. line = seq
    BY <2>6, <2>7, <2>8
  <2> QED BY <2>1, <2>9 DEF seq
<1> HIDE DEF all
<1>7. all \in Seq(Range(all)) /\ None \notin Range(all)
  <2>1. Everyone = UNION {Owned(request.rosters[t]) : t \in Teams(request)} /\ request \in Requests
    BY ThreeTeams
  <2>2. None \notin [Routes(request) -> Seq(Everyone)]
    BY <2>1, NoneAssumption
  <2>3. all \in Seq(Range(all))
    BY <1>5, SeqOfItsRange
  <2> QED BY <1>5, <2>2, <2>3
<1>8. \A i \in 1 .. Len(s) : /\ MoveOf(all[i]) = MoveMade(s[i]) /\ MoveMade(s[i]) \in Trades
                            /\ IsTransfer(all[i]) /\ \A t \in 1 .. 3 : IsAdmitted(all[i], t)
  BY <1>4, <1>5
<1>9. {MoveOf(all[i]) : i \in DOMAIN all} = Trades
  <2>1. ASSUME NEW m \in Trades
        PROVE  \E i \in 1 .. Len(s) : m = MoveOf(all[i])
    <3>1. m \in [Everyone -> 1 .. 3]
      BY <1>3, ThreeTeams DEF Trades
    <3>2. PICK d \in Seq(1 .. 3) : Len(d) = Len(Ds) /\ MoveMade(d) = m
      BY <3>1, MovesAreMade
    <3>3. IsGood(d)
      BY <3>2, GoodMeansTrade
    <3>4. PICK i \in 1 .. Len(s) : d = s[i]
      BY <1>2, <3>3
    <3> QED BY <1>8, <3>2, <3>4
  <2> QED BY <1>5, <1>8, <2>1
<1>10. \A i, j \in DOMAIN all : MoveOf(all[i]) = MoveOf(all[j]) => i = j
  <2> SUFFICES ASSUME NEW i \in 1 .. Len(s), NEW j \in 1 .. Len(s), MoveOf(all[i]) = MoveOf(all[j])
               PROVE  i = j
    BY <1>5
  <2>1. MoveMade(s[i]) = MoveMade(s[j])
    BY <1>8
  <2>2. /\ s[i] \in Seq(1 .. 3) /\ s[j] \in Seq(1 .. 3)
        /\ Len(s[i]) = Len(Ds) /\ Len(s[j]) = Len(Ds)
    BY <1>2, <1>4
  <2>3. s[i] = s[j]
    BY <2>1, <2>2, MovesAreMade
  <2> QED BY <1>2, <2>3
<1>11. /\ \A n \in DOMAIN from : from[n] = From(all, n)
       /\ from[0] = all
  <2>1. DOMAIN from = 0 .. N /\ \A n \in 0 .. N : from[n] = From(all, n)
    BY <1>6
  <2>2. 0 \in 0 .. N
    BY <1>2, <1>3
  <2>3. From(all, 0) = all
    BY <1>5, FromType
  <2> HIDE DEF from
  <2> QED BY <2>1, <2>2, <2>3
<1>12. \A i \in DOMAIN all : IsTransfer(all[i]) /\ \A t \in Teams(request) : IsAdmitted(all[i], t)
  BY <1>3, <1>5, <1>8
<1>13. Len(all) = N
  BY <1>3, <1>5
<1> HIDE DEF from
<1>14. LET first == from[0]
       IN /\ first \in Seq(Range(first)) /\ None \notin Range(first)
          /\ Len(first) = N
          /\ \A n \in DOMAIN from : from[n] = From(first, n)
          /\ {MoveOf(first[i]) : i \in DOMAIN first} = Trades
          /\ \A i, j \in DOMAIN first : MoveOf(first[i]) = MoveOf(first[j]) => i = j
          /\ \A i \in DOMAIN first :
               IsTransfer(first[i]) /\ \A t \in Teams(request) : IsAdmitted(first[i], t)
  BY <1>7, <1>9, <1>10, <1>11, <1>12, <1>13, Zenon
<1> QED BY <1>14, Zenon DEF IteratesTrades, from, N
=============================================================================

-------------------------- MODULE TradeSpaceProofs --------------------------
(***************************************************************************)
(* The space of a search is exactly its trades (SpaceIsExact), and so a    *)
(* search, however often it is stopped and resumed, keeps the trades it    *)
(* examined at their indexes and ends with all of them.                    *)
(*                                                                         *)
(* TradeEvaluationProofs has this for the spaces of three teams.  A space  *)
(* of two teams counts, for every pair of sizes, the packages of each side *)
(* by a convolution over its players: the counts it keeps are a tally of   *)
(* the choices made so far by the state they lead to, and when nobody can  *)
(* sit in reserve a binomial coefficient is enough.  Its iterator lists    *)
(* the choices of a size once each and the pairs of packages by rows;      *)
(* skipping divides by the length of a row where every pair is a candidate,*)
(* and otherwise drops from the list of those that are.  Hence the lists of*)
(* the pairs of sizes, one after another, are the trades, and their counts *)
(* say where each begins.                                                  *)
(***************************************************************************)
EXTENDS TradeEvaluationProofs

-----------------------------------------------------------------------------
(* Counting up.                                                            *)

(* A set of numbers with 0 and with every successor of its members has all of them. *)
LEMMA AllNaturals ==
    ASSUME NEW S, 0 \in S, \A n \in Nat : n \in S => n + 1 \in S
    PROVE  \A n \in Nat : n \in S
<1> SUFFICES ASSUME NEW z \in Nat, z \notin S
             PROVE  FALSE
  OBVIOUS
<1> DEFINE Out == Nat \ S
<1>1. Out \subseteq Nat /\ Out # {}
  OBVIOUS
<1> HIDE DEF Out
<1>2. PICK n \in Out : \A m \in Out : n <= m
  BY <1>1, LeastNatural
<1>3. n \in Nat /\ n \notin S
  BY <1>2 DEF Out
<1>4. n # 0
  BY <1>3
<1>5. n - 1 \in Nat /\ ~(n <= n - 1) /\ (n - 1) + 1 = n
  BY <1>3, <1>4
<1>6. n - 1 \in S
  BY <1>2, <1>5 DEF Out
<1>7. (n - 1) + 1 \in S
  BY <1>5, <1>6
<1> QED BY <1>3, <1>5, <1>7

-----------------------------------------------------------------------------
(* Sums of the sizes of sets that are apart.                               *)

\* All that is in the sets of a family, as far as its index is in S.
Members(F, S) == UNION {F[x] : x \in S}

\* Finite sets that are apart.
AreApart(F, S) ==
  /\ \A x \in S : IsFiniteSet(F[x])
  /\ \A x, y \in S : x # y => F[x] \cap F[y] = {}

(* What FoldFunctionOnSet sums up is a recursion over the subsets. *)
LEMMA SumUnfolds ==
    ASSUME NEW f, NEW S
    PROVE  SumFunctionOnSet(f, S)
             = (CHOOSE iter : iter = [s \in SUBSET S |->
                  IF s = {} THEN 0
                  ELSE LET x == CHOOSE x \in s : TRUE
                       IN f[x] + iter[s \ {x}]])[S]
BY Zenon DEF SumFunctionOnSet, FoldFunctionOnSet, MapThenFoldSet

(* One more set adds its size. *)
LEMMA MembersGrow ==
    ASSUME NEW F, NEW S, AreApart(F, S), NEW s \in SUBSET S, IsFiniteSet(s), NEW x \in s
    PROVE  /\ IsFiniteSet(Members(F, s)) /\ IsFiniteSet(Members(F, s \ {x})) /\ IsFiniteSet(s \ {x})
           /\ Cardinality(Members(F, s)) = Cardinality(F[x]) + Cardinality(Members(F, s \ {x}))
<1>1. \A r \in SUBSET S : IsFiniteSet(r) => IsFiniteSet(Members(F, r))
  <2> TAKE r \in SUBSET S
  <2> HAVE IsFiniteSet(r)
  <2> DEFINE Fs == {F[y] : y \in r}
             g == [y \in r |-> F[y]]
  <2>1. g \in Surjection(r, Fs)
    BY DEF Surjection
  <2>2. \A T \in Fs : IsFiniteSet(T)
    BY DEF AreApart
  <2> HIDE DEF g, Fs
  <2>3. IsFiniteSet(Fs)
    BY <2>1, FS_Surjection
  <2>4. IsFiniteSet(UNION Fs)
    BY <2>2, <2>3, FS_UNION
  <2> QED BY <2>4 DEF Members, Fs
<1>2. s \ {x} \in SUBSET S /\ IsFiniteSet(s \ {x})
  BY FS_RemoveElement
<1>3. Members(F, s) = F[x] \cup Members(F, s \ {x})
  BY DEF Members
<1>4. F[x] \cap Members(F, s \ {x}) = {} /\ IsFiniteSet(F[x])
  BY DEF Members, AreApart
<1>5. IsFiniteSet(Members(F, s)) /\ IsFiniteSet(Members(F, s \ {x}))
  BY <1>1, <1>2
<1> QED BY <1>2, <1>3, <1>4, <1>5, UnionOfApart

(* The sum of the sizes of sets that are apart is the size of their union. *)
LEMMA SumOfSizes ==
    ASSUME NEW f, NEW F, NEW S, IsFiniteSet(S), AreApart(F, S),
           \A x \in S : f[x] = Cardinality(F[x])
    PROVE  /\ SumFunctionOnSet(f, S) = Cardinality(Members(F, S))
           /\ IsFiniteSet(Members(F, S))
<1> DEFINE Some(s) == CHOOSE x \in s : TRUE
           Def(it) == [s \in SUBSET S |-> IF s = {} THEN 0 ELSE f[Some(s)] + it[s \ {Some(s)}]]
           g == [s \in SUBSET S |-> Cardinality(Members(F, s))]
           iter == CHOOSE it : it = Def(it)
<1>1. SumFunctionOnSet(f, S) = iter[S]
  BY SumUnfolds, Zenon
<1>2. \A s \in SUBSET S : s # {} => Some(s) \in s
  OBVIOUS
<1> HIDE DEF Some
<1>3. \A s \in SUBSET S : IsFiniteSet(s)
  BY FS_Subset
<1>4. ASSUME NEW s \in SUBSET S, s # {}
      PROVE  /\ s \ {Some(s)} \in SUBSET S
             /\ g[s] = f[Some(s)] + g[s \ {Some(s)}]
             /\ IsFiniteSet(Members(F, s))
             /\ Cardinality(s) = Cardinality(s \ {Some(s)}) + 1
             /\ Cardinality(s \ {Some(s)}) \in Nat
  <2>1. Some(s) \in s /\ IsFiniteSet(s) /\ Some(s) \in S
    BY <1>2, <1>3, <1>4
  <2>2. /\ IsFiniteSet(Members(F, s)) /\ IsFiniteSet(s \ {Some(s)})
        /\ Cardinality(Members(F, s)) = Cardinality(F[Some(s)]) + Cardinality(Members(F, s \ {Some(s)}))
    BY <2>1, MembersGrow
  <2>3. s \ {Some(s)} \in SUBSET S /\ f[Some(s)] = Cardinality(F[Some(s)])
    BY <2>1
  <2>4. Cardinality(s) = Cardinality(s \ {Some(s)}) + 1 /\ Cardinality(s \ {Some(s)}) \in Nat
    BY <2>1, <2>2, FS_RemoveElement, FS_CardinalityType
  <2> QED BY <2>2, <2>3, <2>4
<1>5. g[{}] = 0 /\ IsFiniteSet(Members(F, {}))
  <2>1. Members(F, {}) = {}
    BY DEF Members
  <2> QED BY <2>1, FS_EmptySet
<1>6. g = Def(g)
  BY <1>4, <1>5
<1>7. iter = Def(iter)
  <2> HIDE DEF Def, g
  <2> QED BY <1>6
<1> DEFINE N == {n \in Nat : \A s \in SUBSET S : Cardinality(s) = n => iter[s] = g[s]}
<1>8. \A n \in Nat : n \in N
  <2> HIDE DEF iter, g
  <2>1. 0 \in N
    <3>1. ASSUME NEW s \in SUBSET S, Cardinality(s) = 0
          PROVE  s = {}
      BY <1>3, <3>1, FS_EmptySet
    <3>2. {} \in SUBSET S /\ iter[{}] = 0
      BY <1>7
    <3> QED BY <1>5, <3>1, <3>2
  <2>2. ASSUME NEW n \in Nat, n \in N, NEW s \in SUBSET S, Cardinality(s) = n + 1
        PROVE  iter[s] = g[s]
    <3>1. s # {}
      BY <2>2, FS_EmptySet
    <3>2. Cardinality(s \ {Some(s)}) = n /\ s \ {Some(s)} \in SUBSET S
      BY <1>4, <2>2, <3>1
    <3>3. iter[s \ {Some(s)}] = g[s \ {Some(s)}]
      BY <2>2, <3>2
    <3>4. iter[s] = f[Some(s)] + iter[s \ {Some(s)}]
      BY <1>7, <3>1
    <3> QED BY <1>4, <3>1, <3>3, <3>4
  <2>3. \A n \in Nat : n \in N => n + 1 \in N
    BY <2>2
  <2> HIDE DEF N
  <2> QED BY <2>1, <2>3, AllNaturals
<1>9. iter[S] = g[S]
  <2>1. Cardinality(S) \in Nat /\ S \in SUBSET S
    BY FS_CardinalityType
  <2> HIDE DEF iter, g
  <2> QED BY <1>8, <2>1
<1>10. g[S] = Cardinality(Members(F, S)) /\ IsFiniteSet(Members(F, S))
  BY <1>4, <1>5
<1> HIDE DEF iter, g
<1> QED BY <1>1, <1>9, <1>10

-----------------------------------------------------------------------------
(* Tallies: how many of each value a function has.                         *)

\* How often a function has each of its values.
Tally(f) == [s \in Range(f) |-> Cardinality({x \in DOMAIN f : f[x] = s})]

(* The tallies of some values add up to the arguments that have them. *)
LEMMA TallySum ==
    ASSUME NEW f, IsFiniteSet(DOMAIN f), NEW K \in SUBSET Range(f)
    PROVE  SumFunctionOnSet(Tally(f), K) = Cardinality({x \in DOMAIN f : f[x] \in K})
<1> DEFINE F == [s \in Range(f) |-> {x \in DOMAIN f : f[x] = s}]
           t == Tally(f)
<1>1. IsFiniteSet(K)
  <2> DEFINE g == [x \in DOMAIN f |-> f[x]]
  <2>1. g \in Surjection(DOMAIN f, Range(f))
    BY DEF Surjection, Range
  <2>2. IsFiniteSet(Range(f))
    BY <2>1, FS_Surjection
  <2> QED BY <2>2, FS_Subset
<1>2. \A s \in K : t[s] = Cardinality(F[s])
  BY DEF Tally
<1>3. AreApart(F, K)
  <2>1. \A s \in K : F[s] \in SUBSET DOMAIN f
    OBVIOUS
  <2>2. \A s \in K : IsFiniteSet(F[s])
    BY <2>1, FS_Subset
  <2>3. \A s, r \in K : s # r => F[s] \cap F[r] = {}
    OBVIOUS
  <2> HIDE DEF F
  <2> QED BY <2>2, <2>3 DEF AreApart
<1>4. Members(F, K) = {x \in DOMAIN f : f[x] \in K}
  <2>1. \A x : x \in Members(F, K) <=> \E s \in K : x \in F[s]
    BY DEF Members
  <2>2. \A s \in K : \A x : x \in F[s] <=> x \in DOMAIN f /\ f[x] = s
    OBVIOUS
  <2> HIDE DEF F
  <2> QED BY <2>1, <2>2
<1> HIDE DEF F, t
<1>5. SumFunctionOnSet(t, K) = Cardinality(Members(F, K))
  BY <1>1, <1>2, <1>3, SumOfSizes
<1> QED BY <1>4, <1>5 DEF t

(* Together they are as many as there are arguments. *)
LEMMA TallyTotal ==
    ASSUME NEW f, IsFiniteSet(DOMAIN f)
    PROVE  SumFunction(Tally(f)) = Cardinality(DOMAIN f)
<1>1. DOMAIN Tally(f) = Range(f)
  BY DEF Tally
<1>2. SumFunctionOnSet(Tally(f), Range(f)) = Cardinality({x \in DOMAIN f : f[x] \in Range(f)})
  BY TallySum
<1>3. {x \in DOMAIN f : f[x] \in Range(f)} = DOMAIN f
  BY DEF Range
<1>4. SumFunction(Tally(f)) = SumFunctionOnSet(Tally(f), DOMAIN Tally(f))
  BY Zenon DEF SumFunction
<1> QED BY <1>1, <1>2, <1>3, <1>4

\* The signatures of the states that are kept.
SignaturesKept(f, K) == [x \in {x \in DOMAIN f : f[x] \in K} |-> f[x].signature]

(* Adding up the states that have one signature tallies the signatures. *)
LEMMA TallyBySignature ==
    ASSUME NEW f, IsFiniteSet(DOMAIN f), NEW K \in SUBSET Range(f)
    PROVE  BySignature(Tally(f), K) = Tally(SignaturesKept(f, K))
<1> DEFINE h == SignaturesKept(f, K)
           Sig == {s.signature : s \in K}
           With(g) == {s \in K : s.signature = g}
<1>1. DOMAIN h = {x \in DOMAIN f : f[x] \in K} /\ \A x \in DOMAIN h : h[x] = f[x].signature
  BY DEF SignaturesKept
<1> HIDE DEF h
<1>2. Range(h) = Sig
  <2>1. \A s \in K : \E x \in DOMAIN f : s = f[x]
    BY DEF Range
  <2> QED BY <1>1, <2>1 DEF Range
<1>3. ASSUME NEW g \in Sig
      PROVE  SumFunctionOnSet(Tally(f), With(g)) = Cardinality({x \in DOMAIN h : h[x] = g})
  <2>1. With(g) \in SUBSET Range(f)
    OBVIOUS
  <2>2. {x \in DOMAIN f : f[x] \in With(g)} = {x \in DOMAIN h : h[x] = g}
    BY <1>1
  <2> HIDE DEF With
  <2> QED BY <2>1, <2>2, TallySum
<1>4. BySignature(Tally(f), K) = [g \in Sig |-> SumFunctionOnSet(Tally(f), With(g))]
  BY Zenon DEF BySignature
<1> HIDE DEF Sig, With
<1>5. Tally(h) = [g \in Sig |-> Cardinality({x \in DOMAIN h : h[x] = g})]
  BY <1>2 DEF Tally
<1>6. BySignature(Tally(f), K) = Tally(h)
  BY <1>3, <1>4, <1>5
<1> QED BY <1>6 DEF h

(* The products of two tallies add up to the pairs. *)
LEMMA TallyPairs ==
    ASSUME NEW f, IsFiniteSet(DOMAIN f), NEW g, IsFiniteSet(DOMAIN g), NEW V \in SUBSET (Range(f) \X Range(g))
    PROVE  SumFunction([v \in V |-> Tally(f)[v[1]] * Tally(g)[v[2]]])
             = Cardinality({z \in (DOMAIN f) \X (DOMAIN g) : <<f[z[1]], g[z[2]]>> \in V})
<1> DEFINE At1(s) == {x \in DOMAIN f : f[x] = s}
           At2(s) == {x \in DOMAIN g : g[x] = s}
           F == [v \in V |-> At1(v[1]) \X At2(v[2])]
           p == [v \in V |-> Tally(f)[v[1]] * Tally(g)[v[2]]]
           pairs == {z \in (DOMAIN f) \X (DOMAIN g) : <<f[z[1]], g[z[2]]>> \in V}
<1>1. IsFiniteSet(V)
  <2> DEFINE all == (DOMAIN f) \X (DOMAIN g)
             h == [z \in all |-> <<f[z[1]], g[z[2]]>>]
             R == Range(f) \X Range(g)
  <2>1. h \in Surjection(all, R)
    <3>1. \A z \in all : z[1] \in DOMAIN f /\ z[2] \in DOMAIN g /\ h[z] = <<f[z[1]], g[z[2]]>>
      OBVIOUS
    <3>2. \A z \in all : h[z] \in R
      BY <3>1 DEF Range
    <3>3. ASSUME NEW r \in R
          PROVE  \E z \in all : h[z] = r
      <4>1. PICK x \in DOMAIN f, y \in DOMAIN g : r = <<f[x], g[y]>>
        BY DEF Range
      <4>2. <<x, y>> \in all /\ h[<<x, y>>] = r
        BY <4>1
      <4> QED BY <4>2
    <3> HIDE DEF R
    <3> QED BY <3>2, <3>3 DEF Surjection
  <2>2. IsFiniteSet(all)
    BY FS_Product
  <2> HIDE DEF h, all
  <2>3. IsFiniteSet(R)
    BY <2>1, <2>2, FS_Surjection
  <2> QED BY <2>3, FS_Subset
<1>2. \A s : IsFiniteSet(At1(s)) /\ IsFiniteSet(At2(s))
  <2>1. \A s : At1(s) \in SUBSET DOMAIN f /\ At2(s) \in SUBSET DOMAIN g
    OBVIOUS
  <2> HIDE DEF At1, At2
  <2> QED BY <2>1, FS_Subset
<1>3. \A v \in V : v \in Range(f) \X Range(g) /\ v = <<v[1], v[2]>> /\ v[1] \in Range(f) /\ v[2] \in Range(g)
  OBVIOUS
<1>4. \A v \in V : p[v] = Cardinality(F[v]) /\ IsFiniteSet(F[v])
  <2> TAKE v \in V
  <2>1. Tally(f)[v[1]] = Cardinality(At1(v[1])) /\ Tally(g)[v[2]] = Cardinality(At2(v[2]))
    BY <1>3 DEF Tally
  <2>2. F[v] = At1(v[1]) \X At2(v[2]) /\ p[v] = Cardinality(At1(v[1])) * Cardinality(At2(v[2]))
    BY <2>1
  <2> HIDE DEF At1, At2, F, p
  <2> QED BY <1>2, <2>2, FS_Product
<1>5. AreApart(F, V)
  <2>1. ASSUME NEW v \in V, NEW w \in V, NEW z \in F[v], z \in F[w]
        PROVE  v = w
    BY <1>3, <2>1
  <2>2. \A v, w \in V : v # w => F[v] \cap F[w] = {}
    <3> HIDE DEF F
    <3> QED BY <2>1
  <2> HIDE DEF F
  <2> QED BY <1>4, <2>2 DEF AreApart
<1>6. Members(F, V) = pairs
  <2>1. \A z : z \in Members(F, V) <=> \E v \in V : z \in F[v]
    BY DEF Members
  <2>2. ASSUME NEW v \in V, NEW z \in F[v]
        PROVE  z \in pairs
    BY <1>3, <2>2
  <2>3. ASSUME NEW z \in pairs
        PROVE  <<f[z[1]], g[z[2]]>> \in V /\ z \in F[<<f[z[1]], g[z[2]]>>]
    OBVIOUS
  <2> HIDE DEF F, pairs
  <2> QED BY <2>1, <2>2, <2>3
<1>7. SumFunction(p) = SumFunctionOnSet(p, V)
  <2>1. DOMAIN p = V
    OBVIOUS
  <2> HIDE DEF p
  <2> QED BY <2>1, Zenon DEF SumFunction
<1> HIDE DEF F, p, pairs
<1>8. SumFunctionOnSet(p, V) = Cardinality(Members(F, V))
  BY <1>1, <1>4, <1>5, SumOfSizes
<1>9. SumFunction(p) = Cardinality(pairs)
  BY <1>6, <1>7, <1>8
<1> QED BY <1>9 DEF p, pairs

(* Renaming the arguments one to one leaves the tally as it is. *)
LEMMA TallyRenamed ==
    ASSUME NEW f, NEW g, IsFiniteSet(DOMAIN g), NEW b \in Bijection(DOMAIN g, DOMAIN f),
           \A x \in DOMAIN g : g[x] = f[b[x]]
    PROVE  Tally(g) = Tally(f)
<1>1. /\ b \in [DOMAIN g -> DOMAIN f]
      /\ \A x, y \in DOMAIN g : b[x] = b[y] => x = y
      /\ \A z \in DOMAIN f : \E x \in DOMAIN g : b[x] = z
  BY DEF Bijection, Injection, Surjection, IsInjective
<1>2. Range(g) = Range(f)
  BY <1>1 DEF Range
<1>3. ASSUME NEW s
      PROVE  Cardinality({x \in DOMAIN g : g[x] = s}) = Cardinality({z \in DOMAIN f : f[z] = s})
  <2> DEFINE G == {x \in DOMAIN g : g[x] = s}
             H == {z \in DOMAIN f : f[z] = s}
             c == [x \in G |-> b[x]]
  <2>1. c \in [G -> H] /\ (\A x, y \in G : c[x] = c[y] => x = y) /\ \A z \in H : \E x \in G : c[x] = z
    BY <1>1
  <2>2. G \in SUBSET DOMAIN g
    OBVIOUS
  <2> HIDE DEF c, G, H
  <2>3. c \in Bijection(G, H)
    BY <2>1 DEF Bijection, Injection, Surjection, IsInjective
  <2>4. IsFiniteSet(G)
    BY <2>2, FS_Subset
  <2>5. Cardinality(G) = Cardinality(H)
    BY <2>3, <2>4, FS_Bijection DEF ExistsBijection
  <2> QED BY <2>5 DEF G, H
<1> QED BY <1>2, <1>3 DEF Tally

-----------------------------------------------------------------------------
(* The counts of _count_by_signature are a tally of the choices.           *)

\* A state with nobody chosen yet, and the state that a choice of players leads to.
IsFirst(first) == /\ first = [chosen |-> 0, signature |-> first.signature, seen |-> first.seen]
                  /\ first.signature \in [Kinds -> Nat]

StateOf(first, kindOf, evidence, S) ==
  [chosen |-> Cardinality(S),
   signature |-> [k \in Kinds |-> first.signature[k] + Signature(S, kindOf)[k]],
   seen |-> first.seen \cup UNION {evidence[p] : p \in S}]

\* The choices of at most and of exactly some size.
AtMost(P, size) == {S \in SUBSET P : Cardinality(S) <= size}

OfSize(P, size) == {S \in SUBSET P : Cardinality(S) = size}

\* The states of all the choices of a set of choices.
StatesOf(first, kindOf, evidence, C) == [S \in C |-> StateOf(first, kindOf, evidence, S)]

\* The state with one player more.
MovedOn(s, p, kindOf, evidence) ==
  [chosen |-> s.chosen + 1,
   signature |-> [k \in Kinds |-> s.signature[k] + Signature({p}, kindOf)[k]],
   seen |-> s.seen \cup evidence]

(* The choices are finitely many. *)
LEMMA ChoicesAreFinite ==
    ASSUME NEW P, IsFiniteSet(P), NEW size \in Nat
    PROVE  /\ IsFiniteSet(AtMost(P, size)) /\ IsFiniteSet(OfSize(P, size))
           /\ \A S \in SUBSET P : IsFiniteSet(S) /\ Cardinality(S) \in Nat
<1>1. IsFiniteSet(SUBSET P)
  BY FS_SUBSET
<1>2. AtMost(P, size) \in SUBSET (SUBSET P) /\ OfSize(P, size) \in SUBSET (SUBSET P)
  BY DEF AtMost, OfSize
<1> QED BY <1>1, <1>2, FS_Subset, FS_CardinalityType

(* One player more leads to the next state. *)
LEMMA StateMoves ==
    ASSUME NEW first, IsFirst(first), NEW kindOf, NEW evidence,
           NEW S, IsFiniteSet(S), NEW p, p \notin S
    PROVE  /\ StateOf(first, kindOf, evidence, S \cup {p})
                = MovedOn(StateOf(first, kindOf, evidence, S), p, kindOf, evidence[p])
           /\ Cardinality(S \cup {p}) = Cardinality(S) + 1
<1>1. Cardinality(S \cup {p}) = Cardinality(S) + 1
  BY FS_AddElement
<1>2. ASSUME NEW k \in Kinds
      PROVE  /\ Signature(S \cup {p}, kindOf)[k] = Signature(S, kindOf)[k] + Signature({p}, kindOf)[k]
             /\ Signature(S, kindOf)[k] \in Nat /\ Signature({p}, kindOf)[k] \in Nat
  <2>1. /\ OfKind(kindOf, S \cup {p}, k) = OfKind(kindOf, S, k) \cup OfKind(kindOf, {p}, k)
        /\ OfKind(kindOf, S, k) \cap OfKind(kindOf, {p}, k) = {}
        /\ OfKind(kindOf, S, k) \in SUBSET S /\ OfKind(kindOf, {p}, k) \in SUBSET {p}
    BY DEF OfKind
  <2>2. IsFiniteSet(OfKind(kindOf, S, k)) /\ IsFiniteSet(OfKind(kindOf, {p}, k))
    BY <2>1, FS_Subset, FS_Singleton
  <2> QED BY <2>1, <2>2, UnionOfApart, FS_CardinalityType DEF Signature
<1>3. UNION {evidence[q] : q \in S \cup {p}} = (UNION {evidence[q] : q \in S}) \cup evidence[p]
  OBVIOUS
<1>4. \A k \in Kinds : first.signature[k] \in Nat
  BY DEF IsFirst
<1>5. \A k \in Kinds : first.signature[k] + Signature(S \cup {p}, kindOf)[k]
                         = (first.signature[k] + Signature(S, kindOf)[k]) + Signature({p}, kindOf)[k]
  <2> TAKE k \in Kinds
  <2> DEFINE a == first.signature[k]
             b == Signature(S, kindOf)[k]
             c == Signature({p}, kindOf)[k]
             d == Signature(S \cup {p}, kindOf)[k]
  <2>1. a \in Nat /\ b \in Nat /\ c \in Nat /\ d = b + c
    BY <1>2, <1>4
  <2> HIDE DEF a, b, c, d
  <2>2. a + d = (a + b) + c
    BY <2>1
  <2> QED BY <2>2 DEF a, b, c, d
<1> HIDE DEF Signature
<1>6. StateOf(first, kindOf, evidence, S \cup {p})
                = MovedOn(StateOf(first, kindOf, evidence, S), p, kindOf, evidence[p])
  BY <1>1, <1>3, <1>5 DEF StateOf, MovedOn
<1> QED BY <1>1, <1>6

(* What Counts makes of a tally, in the terms above. *)
LEMMA CountsMeans ==
    ASSUME NEW states, NEW p, NEW size, NEW kindOf, NEW evidence
    PROVE  LET moving == {s \in DOMAIN states : s.chosen < size}
               Into(s) == {t \in moving : MovedOn(t, p, kindOf, evidence) = s}
           IN Counts(states, p, size, kindOf, evidence)
                = [s \in DOMAIN states \cup {MovedOn(t, p, kindOf, evidence) : t \in moving} |->
                     (IF s \in DOMAIN states THEN states[s] ELSE 0) + SumFunctionOnSet(states, Into(s))]
BY Zenon DEF Counts, MovedOn

(* One more player turns the tally of the choices without him into that of all. *)
LEMMA CountsGrow ==
    ASSUME NEW first, IsFirst(first), NEW kindOf, NEW evidence, NEW size \in Nat,
           NEW P, IsFiniteSet(P), NEW p, p \notin P
    PROVE  Counts(Tally(StatesOf(first, kindOf, evidence, AtMost(P, size))), p, size, kindOf, evidence[p])
             = Tally(StatesOf(first, kindOf, evidence, AtMost(P \cup {p}, size)))
<1> DEFINE St(S) == StateOf(first, kindOf, evidence, S)
           Mv(s) == MovedOn(s, p, kindOf, evidence[p])
           A == AtMost(P, size)
           B == AtMost(P \cup {p}, size)
           g == StatesOf(first, kindOf, evidence, A)
           h == StatesOf(first, kindOf, evidence, B)
           T == Tally(g)
           moving == {s \in Range(g) : s.chosen < size}
           Into(s) == {t \in moving : Mv(t) = s}
<1>1. DOMAIN g = A /\ DOMAIN h = B /\ (\A S \in A : g[S] = St(S)) /\ (\A S \in B : h[S] = St(S))
  BY DEF StatesOf
<1>2. \A S \in SUBSET P : /\ IsFiniteSet(S) /\ Cardinality(S) \in Nat
                          /\ St(S \cup {p}) = Mv(St(S)) /\ Cardinality(S \cup {p}) = Cardinality(S) + 1
                          /\ p \notin S /\ (S \cup {p}) \ {p} = S
  <2> TAKE S \in SUBSET P
  <2>1. IsFiniteSet(S) /\ Cardinality(S) \in Nat
    BY ChoicesAreFinite
  <2>2. p \notin S /\ (S \cup {p}) \ {p} = S
    OBVIOUS
  <2> HIDE DEF St, Mv
  <2>3. St(S \cup {p}) = Mv(St(S)) /\ Cardinality(S \cup {p}) = Cardinality(S) + 1
    BY <2>1, <2>2, StateMoves DEF St, Mv
  <2> QED BY <2>1, <2>2, <2>3
<1>3. \A S : St(S).chosen = Cardinality(S)
  BY DEF StateOf
<1>4. DOMAIN T = Range(g) /\ \A s \in Range(g) : T[s] = Cardinality({S \in A : g[S] = s})
  BY <1>1 DEF Tally
<1>5. IsFiniteSet(A)
  BY ChoicesAreFinite
<1>6. Counts(T, p, size, kindOf, evidence[p])
        = [s \in Range(g) \cup {Mv(t) : t \in moving} |->
             (IF s \in Range(g) THEN T[s] ELSE 0) + SumFunctionOnSet(T, Into(s))]
  <2> HIDE DEF T
  <2> QED BY <1>4, CountsMeans, Zenon
<1> HIDE DEF St, Mv, g, h, T
<1>7. /\ \A S \in A : S \in SUBSET P /\ Cardinality(S) <= size /\ S \in B
      /\ \A S \in SUBSET P : Cardinality(S) < size => S \in A /\ S \cup {p} \in B
      /\ \A S \in B : p \notin S => S \in A
      /\ \A S \in B : p \in S => /\ S \ {p} \in SUBSET P /\ S = (S \ {p}) \cup {p}
                                 /\ S \ {p} \in A /\ Cardinality(S \ {p}) < size
  <2>1. \A S \in A : S \in SUBSET P /\ Cardinality(S) <= size /\ S \in B
    BY DEF AtMost
  <2>2. \A S \in SUBSET P : Cardinality(S) < size => S \in A /\ S \cup {p} \in B
    <3> TAKE S \in SUBSET P
    <3> HAVE Cardinality(S) < size
    <3>0. Cardinality(S) \in Nat /\ Cardinality(S \cup {p}) = Cardinality(S) + 1
      BY <1>2
    <3>1. Cardinality(S) <= size /\ Cardinality(S \cup {p}) <= size
      BY <3>0
    <3>2. S \cup {p} \in SUBSET (P \cup {p})
      OBVIOUS
    <3> QED BY <3>1, <3>2 DEF AtMost
  <2>3. \A S \in B : p \notin S => S \in A
    BY DEF AtMost
  <2>4. ASSUME NEW S \in B, p \in S
        PROVE  /\ S \ {p} \in SUBSET P /\ S = (S \ {p}) \cup {p}
               /\ S \ {p} \in A /\ Cardinality(S \ {p}) < size
    <3>1. S \ {p} \in SUBSET P /\ S = (S \ {p}) \cup {p} /\ Cardinality(S) <= size
      BY <2>4 DEF AtMost
    <3>2. Cardinality(S) = Cardinality(S \ {p}) + 1 /\ Cardinality(S \ {p}) \in Nat
      BY <1>2, <3>1
    <3> QED BY <3>1, <3>2 DEF AtMost
  <2> QED BY <2>1, <2>2, <2>3, <2>4
<1> HIDE DEF A, B
<1>8. Range(h) = Range(g) \cup {Mv(t) : t \in moving}
  <2>1. ASSUME NEW S \in B
        PROVE  h[S] \in Range(g) \cup {Mv(t) : t \in moving}
    <3>1. CASE p \notin S
      <4>1. S \in A /\ h[S] = g[S]
        BY <1>1, <1>7, <3>1
      <4> QED BY <1>1, <4>1 DEF Range
    <3>2. CASE p \in S
      <4> DEFINE R == S \ {p}
      <4>1. R \in A /\ Cardinality(R) < size /\ R \in SUBSET P /\ S = R \cup {p}
        BY <1>7, <3>2
      <4>2. h[S] = Mv(g[R]) /\ g[R].chosen < size
        <5>1. h[S] = St(S) /\ g[R] = St(R)
          BY <1>1, <4>1
        <5>2. St(R \cup {p}) = Mv(St(R)) /\ St(R).chosen = Cardinality(R)
          BY <1>2, <1>3, <4>1
        <5> HIDE DEF R
        <5> QED BY <4>1, <5>1, <5>2
      <4>3. g[R] \in moving
        BY <1>1, <4>1, <4>2 DEF Range
      <4> QED BY <4>2, <4>3
    <3> QED BY <3>1, <3>2
  <2>2. ASSUME NEW S \in A
        PROVE  g[S] \in Range(h)
    <3>1. S \in B /\ h[S] = g[S]
      BY <1>1, <1>7
    <3> QED BY <1>1, <3>1 DEF Range
  <2>3. ASSUME NEW t \in moving
        PROVE  Mv(t) \in Range(h)
    <3>1. PICK S \in A : t = g[S] /\ t.chosen < size
      BY <1>1 DEF Range
    <3>2. S \in SUBSET P /\ Cardinality(S) < size /\ t = St(S)
      BY <1>1, <1>3, <1>7, <3>1
    <3>3. S \cup {p} \in B /\ h[S \cup {p}] = Mv(t)
      BY <1>1, <1>2, <1>7, <3>2
    <3> QED BY <1>1, <3>3 DEF Range
  <2> HIDE DEF moving
  <2>4. (\A s \in Range(g) : \E S \in A : s = g[S]) /\ (\A s \in Range(h) : \E S \in B : s = h[S])
    BY <1>1 DEF Range
  <2> QED BY <2>1, <2>2, <2>3, <2>4
<1>9. ASSUME NEW s \in Range(h)
      PROVE  Cardinality({S \in B : h[S] = s})
               = (IF s \in Range(g) THEN T[s] ELSE 0) + SumFunctionOnSet(T, Into(s))
  <2> DEFINE X == {S \in A : g[S] = s}
             Y == {S \in A : g[S] \in Into(s)}
             Z == {S \in B : h[S] = s /\ p \in S}
             b == [S \in Y |-> S \cup {p}]
  <2>1. X \in SUBSET A /\ Y \in SUBSET A /\ IsFiniteSet(X) /\ IsFiniteSet(Y)
    <3>1. X \in SUBSET A /\ Y \in SUBSET A
      OBVIOUS
    <3> HIDE DEF X, Y
    <3> QED BY <1>5, <3>1, FS_Subset
  <2>2. Cardinality(X) = IF s \in Range(g) THEN T[s] ELSE 0
    <3>1. CASE s \in Range(g)
      BY <1>4, <3>1
    <3>2. CASE s \notin Range(g)
      <4>1. X = {}
        BY <1>1, <3>2 DEF Range
      <4> HIDE DEF X
      <4> QED BY <3>2, <4>1, FS_EmptySet
    <3> QED BY <3>1, <3>2
  <2>3. Cardinality(Y) = SumFunctionOnSet(T, Into(s))
    <3>1. Into(s) \in SUBSET Range(g)
      OBVIOUS
    <3> HIDE DEF Into
    <3> QED BY <1>1, <1>5, <3>1, TallySum DEF T
  <2>4. b \in Bijection(Y, Z)
    <3>1. ASSUME NEW S \in Y
          PROVE  b[S] \in Z /\ p \notin S /\ b[S] = S \cup {p}
      <4>1. S \in A /\ S \in SUBSET P /\ Cardinality(S) < size /\ Mv(St(S)) = s
        BY <1>1, <1>3, <1>7
      <4>2. S \cup {p} \in B /\ p \notin S
        BY <1>7, <4>1
      <4>3. h[S \cup {p}] = s
        BY <1>1, <1>2, <4>1, <4>2
      <4> QED BY <4>2, <4>3
    <3>2. ASSUME NEW S \in Z
          PROVE  \E R \in Y : b[R] = S
      <4> DEFINE R == S \ {p}
      <4>1. R \in A /\ Cardinality(R) < size /\ R \in SUBSET P /\ S = R \cup {p}
        BY <1>7
      <4>2. Mv(g[R]) = s /\ g[R].chosen < size
        BY <1>1, <1>2, <1>3, <4>1
      <4>3. g[R] \in Into(s)
        BY <1>1, <4>1, <4>2 DEF Range
      <4>4. R \in Y /\ b[R] = S
        BY <4>1, <4>3
      <4> QED BY <4>4
    <3>3. ASSUME NEW S \in Y, NEW R \in Y, b[S] = b[R]
          PROVE  S = R
      <4>1. S \cup {p} = R \cup {p} /\ p \notin S /\ p \notin R
        BY <3>1, <3>3
      <4> QED BY <4>1
    <3>4. DOMAIN b = Y /\ b = [S \in Y |-> b[S]]
      OBVIOUS
    <3> HIDE DEF b, Y, Z
    <3>5. b \in [Y -> Z]
      BY <3>1, <3>4
    <3> QED BY <3>2, <3>3, <3>5 DEF Bijection, Injection, Surjection, IsInjective
  <2>5. {S \in B : h[S] = s} = X \cup Z /\ X \cap Z = {}
    <3>1. ASSUME NEW S \in B, h[S] = s, p \notin S
          PROVE  S \in X
      <4>1. S \in A /\ g[S] = s
        BY <1>1, <1>7, <3>1
      <4> QED BY <4>1
    <3>2. ASSUME NEW S \in X
          PROVE  S \in B /\ h[S] = s /\ p \notin S
      BY <1>1, <1>2, <1>7
    <3>3. \A S \in Z : p \in S
      OBVIOUS
    <3>4. \A S : S \in Z <=> S \in B /\ h[S] = s /\ p \in S
      OBVIOUS
    <3> HIDE DEF X, Z
    <3> QED BY <3>1, <3>2, <3>3, <3>4
  <2> HIDE DEF X, Y, Z, b, Into
  <2>6. IsFiniteSet(Z) /\ Cardinality(Z) = Cardinality(Y)
    BY <2>1, <2>4, FS_Bijection DEF ExistsBijection
  <2>7. Cardinality(X \cup Z) = Cardinality(X) + Cardinality(Z)
    BY <2>1, <2>5, <2>6, UnionOfApart
  <2> QED BY <2>2, <2>3, <2>5, <2>6, <2>7
<1>10. Tally(h) = [s \in Range(h) |-> Cardinality({S \in B : h[S] = s})]
  BY <1>1 DEF Tally
<1> HIDE DEF moving, Into
<1>11. Counts(T, p, size, kindOf, evidence[p]) = Tally(h)
  BY <1>6, <1>8, <1>9, <1>10
<1> QED BY <1>11 DEF T, g, h, A, B

(* The members of a line. *)
LEMMA QueueType ==
    ASSUME NEW s, NEW S, Queue(s, S)
    PROVE  /\ s \in Seq(S) /\ Len(s) \in Nat /\ DOMAIN s = 1 .. Len(s) /\ Range(s) = S
           /\ \A i \in 1 .. Len(s) : s[i] \in S
           /\ \A i, j \in 1 .. Len(s) : s[i] = s[j] => i = j
           /\ \A x \in S : \E i \in 1 .. Len(s) : x = s[i]
           /\ IsFiniteSet(S) /\ Len(s) = Cardinality(S)
<1>1. s \in Seq(S) /\ Len(s) \in Nat /\ DOMAIN s = 1 .. Len(s) /\ Range(s) = S
  BY DEF Queue
<1>2. \A i \in 1 .. Len(s) : s[i] \in S
  BY <1>1
<1>3. \A i, j \in 1 .. Len(s) : s[i] = s[j] => i = j
  BY <1>1 DEF Queue, IsInjective
<1>4. \A x \in S : \E i \in 1 .. Len(s) : x = s[i]
  BY <1>1 DEF Range
<1>5. IsFiniteSet(S) /\ Len(s) = Cardinality(S)
  <2>1. IsFiniteSet(1 .. Len(s)) /\ s \in Surjection(1 .. Len(s), S)
    <3>1. s = [i \in 1 .. Len(s) |-> s[i]]
      BY <1>1
    <3>2. s \in Surjection(1 .. Len(s), S)
      BY <1>2, <1>4, <3>1 DEF Surjection
    <3>3. \A n \in Nat : IsFiniteSet(1 .. n)
      BY FS_Interval
    <3> QED BY <1>1, <3>2, <3>3
  <2> QED BY <2>1, FS_Surjection, QueueSize
<1> QED BY <1>1, <1>2, <1>3, <1>4, <1>5

(* Nobody chosen is the first state, and it is reached once. *)
LEMMA NobodyChosen ==
    ASSUME NEW first, IsFirst(first), NEW kindOf, NEW evidence, NEW size \in Nat
    PROVE  Tally(StatesOf(first, kindOf, evidence, AtMost({}, size))) = [s \in {first} |-> 1]
<1>1. Cardinality({}) = 0 /\ IsFiniteSet({})
  BY FS_EmptySet
<1>2. AtMost({}, size) = {{}}
  BY <1>1 DEF AtMost
<1>3. StateOf(first, kindOf, evidence, {}) = first
  <2>1. \A k \in Kinds : Signature({}, kindOf)[k] = 0
    <3>1. \A k : OfKind(kindOf, {}, k) = {}
      BY DEF OfKind
    <3> QED BY <1>1, <3>1 DEF Signature
  <2>2. [k \in Kinds |-> first.signature[k] + Signature({}, kindOf)[k]] = first.signature
    <3>1. \A k \in Kinds : first.signature[k] \in Nat /\ first.signature[k] + 0 = first.signature[k]
      BY DEF IsFirst
    <3>2. first.signature = [k \in Kinds |-> first.signature[k]]
      BY DEF IsFirst
    <3> HIDE DEF Signature
    <3> QED BY <2>1, <3>1, <3>2
  <2>3. first.seen \cup UNION {evidence[p] : p \in {}} = first.seen
    OBVIOUS
  <2>4. first = [chosen |-> 0, signature |-> first.signature, seen |-> first.seen]
    BY DEF IsFirst
  <2>5. StateOf(first, kindOf, evidence, {})
          = [chosen |-> Cardinality({}),
             signature |-> [k \in Kinds |-> first.signature[k] + Signature({}, kindOf)[k]],
             seen |-> first.seen \cup UNION {evidence[p] : p \in {}}]
    BY Zenon DEF StateOf
  <2>6. StateOf(first, kindOf, evidence, {}) = [chosen |-> 0, signature |-> first.signature, seen |-> first.seen]
    BY <1>1, <2>2, <2>3, <2>5, Zenon
  <2> QED BY <2>4, <2>6, Zenon
<1> DEFINE g == StatesOf(first, kindOf, evidence, AtMost({}, size))
<1>4. DOMAIN g = {{}} /\ g[{}] = first
  BY <1>2, <1>3 DEF StatesOf
<1> HIDE DEF g
<1>5. Range(g) = {first} /\ {x \in DOMAIN g : g[x] = first} = {{}}
  BY <1>4 DEF Range
<1>6. Cardinality({{}}) = 1
  BY FS_Singleton
<1>7. Tally(g) = [s \in {first} |-> 1]
  BY <1>5, <1>6 DEF Tally
<1> QED BY <1>7 DEF g

(* The dynamic program tallies the choices of the size asked for by the state they lead to. *)
LEMMA CountedIsTally ==
    ASSUME NEW players, NEW P, Queue(players, P), NEW size \in Nat,
           NEW first, IsFirst(first), NEW kindOf, NEW evidence
    PROVE  Counted(players, size, kindOf, first, evidence)
             = Tally(StatesOf(first, kindOf, evidence, OfSize(P, size)))
<1> DEFINE n == Len(players)
           Before(i) == {players[j] : j \in 1 .. i}
           T(i) == Tally(StatesOf(first, kindOf, evidence, AtMost(Before(i), size)))
           G == [i \in 0 .. n |-> T(i)]
           Body(i, c) == IF i = 0 THEN [s \in {first} |-> 1]
                         ELSE Counts(c[i - 1], players[i], size, kindOf, evidence[players[i]])
           Def(c) == [i \in 0 .. n |-> Body(i, c)]
           counts == CHOOSE c : c = Def(c)
<1>1. n \in Nat /\ Before(0) = {} /\ Before(n) = P /\ IsFiniteSet(P)
      /\ \A i, j \in 1 .. n : players[i] = players[j] => i = j
  <2>1. players \in Seq(P) /\ Len(players) \in Nat /\ DOMAIN players = 1 .. Len(players) /\ Range(players) = P
    BY DEF Queue
  <2>2. Before(0) = {} /\ Before(n) = P
    BY <2>1 DEF Range
  <2>3. IsFiniteSet(P)
    BY QueueType
  <2> QED BY <2>1, <2>2, <2>3 DEF Queue, IsInjective
<1> HIDE DEF n
<1>2. ASSUME NEW i \in 1 .. n
      PROVE  /\ i - 1 \in 0 .. n /\ IsFiniteSet(Before(i - 1))
             /\ players[i] \notin Before(i - 1) /\ Before(i) = Before(i - 1) \cup {players[i]}
  <2>1. i \in Nat /\ i - 1 \in 0 .. n /\ 1 .. i = (1 .. i - 1) \cup {i} /\ \A j \in 1 .. i - 1 : j \in 1 .. n /\ j # i
    BY <1>1
  <2>2. players[i] \notin Before(i - 1)
    BY <1>1, <2>1
  <2>3. Before(i) = Before(i - 1) \cup {players[i]}
    BY <2>1
  <2>4. Before(i - 1) \in SUBSET P
    <3>1. \A j \in 1 .. n : players[j] \in Before(n)
      OBVIOUS
    <3> QED BY <1>1, <2>1, <3>1
  <2> HIDE DEF Before
  <2>5. IsFiniteSet(Before(i - 1))
    BY <1>1, <2>4, FS_Subset
  <2> QED BY <2>1, <2>2, <2>3, <2>5
<1> HIDE DEF Before
<1>3. T(0) = [s \in {first} |-> 1]
  BY <1>1, NobodyChosen
<1>4. ASSUME NEW i \in 1 .. n
      PROVE  Counts(T(i - 1), players[i], size, kindOf, evidence[players[i]]) = T(i)
  <2>1. IsFiniteSet(Before(i - 1)) /\ players[i] \notin Before(i - 1) /\ Before(i) = Before(i - 1) \cup {players[i]}
    BY <1>2
  <2>2. \A Q, p : IsFiniteSet(Q) /\ p \notin Q =>
          Counts(Tally(StatesOf(first, kindOf, evidence, AtMost(Q, size))), p, size, kindOf, evidence[p])
            = Tally(StatesOf(first, kindOf, evidence, AtMost(Q \cup {p}, size)))
    BY CountsGrow
  <2> QED BY <2>1, <2>2, Zenon
<1> HIDE DEF T
<1>5. \A i \in 0 .. n : i # 0 => i \in 1 .. n /\ i - 1 \in 0 .. n
  BY <1>1
<1>6. G = Def(G)
  <2>1. \A i \in 0 .. n : G[i] = Body(i, G)
    <3> TAKE i \in 0 .. n
    <3>1. CASE i = 0
      BY <1>3, <3>1
    <3>2. CASE i # 0
      <4>1. i \in 1 .. n /\ G[i] = T(i) /\ G[i - 1] = T(i - 1)
        BY <1>5, <3>2
      <4> HIDE DEF G
      <4> QED BY <1>4, <3>2, <4>1
    <3> QED BY <3>1, <3>2
  <2>2. G = [i \in 0 .. n |-> G[i]]
    OBVIOUS
  <2> HIDE DEF G, Body
  <2> QED BY <2>1, <2>2
<1>7. counts = Def(counts)
  <2> HIDE DEF Def, G
  <2> QED BY <1>6
<1>8. Counted(players, size, kindOf, first, evidence)
        = [s \in {t \in DOMAIN counts[n] : t.chosen = size} |-> counts[n][s]]
  BY Zenon DEF Counted, n
<1> HIDE DEF counts
<1> DEFINE N == {i \in Nat : i <= n => counts[i] = T(i)}
<1>9. \A i \in Nat : i \in N
  <2>1. \A i \in 0 .. n : counts[i] = Body(i, counts)
    <3> HIDE DEF Body
    <3> QED BY <1>7
  <2>2. 0 \in N
    <3>1. 0 \in 0 .. n
      BY <1>1
    <3>2. counts[0] = [s \in {first} |-> 1]
      BY <2>1, <3>1
    <3> QED BY <1>3, <3>2
  <2>3. ASSUME NEW i \in Nat, i \in N
        PROVE  i + 1 \in N
    <3> SUFFICES ASSUME i + 1 <= n
                 PROVE  counts[i + 1] = T(i + 1)
      OBVIOUS
    <3>1. i + 1 \in 1 .. n /\ i + 1 \in 0 .. n /\ i + 1 # 0 /\ (i + 1) - 1 = i /\ i <= n
      BY <1>1
    <3>2. counts[i] = T(i)
      BY <2>3, <3>1
    <3>3. counts[i + 1] = Counts(counts[(i + 1) - 1], players[i + 1], size, kindOf, evidence[players[i + 1]])
      BY <2>1, <3>1
    <3>4. Counts(T((i + 1) - 1), players[i + 1], size, kindOf, evidence[players[i + 1]]) = T(i + 1)
      BY <1>4, <3>1
    <3> QED BY <3>1, <3>2, <3>3, <3>4
  <2> HIDE DEF N
  <2> QED BY <2>2, <2>3, AllNaturals
<1>10. counts[n] = Tally(StatesOf(first, kindOf, evidence, AtMost(P, size)))
  <2>1. counts[n] = T(n)
    BY <1>1, <1>9
  <2> QED BY <1>1, <2>1 DEF T
<1> DEFINE g == StatesOf(first, kindOf, evidence, AtMost(P, size))
           h == StatesOf(first, kindOf, evidence, OfSize(P, size))
           K == {s \in Range(g) : s.chosen = size}
<1>11. /\ DOMAIN g = AtMost(P, size) /\ DOMAIN h = OfSize(P, size)
       /\ \A S \in AtMost(P, size) : g[S].chosen = Cardinality(S)
       /\ \A S \in OfSize(P, size) : S \in AtMost(P, size) /\ h[S] = g[S] /\ h[S].chosen = size
       /\ \A S \in AtMost(P, size) : Cardinality(S) = size => S \in OfSize(P, size)
  <2>1. \A S \in OfSize(P, size) : S \in AtMost(P, size) /\ Cardinality(S) = size
    BY DEF OfSize, AtMost
  <2>2. \A S \in AtMost(P, size) : Cardinality(S) = size => S \in OfSize(P, size)
    BY DEF OfSize, AtMost
  <2>3. \A S : StateOf(first, kindOf, evidence, S).chosen = Cardinality(S)
    BY DEF StateOf
  <2> HIDE DEF StateOf, AtMost, OfSize
  <2> QED BY <2>1, <2>2, <2>3 DEF StatesOf
<1> HIDE DEF g, h
<1>12. Range(h) = K
  BY <1>11 DEF Range
<1>13. \A s \in K : {S \in DOMAIN g : g[S] = s} = {S \in DOMAIN h : h[S] = s}
  BY <1>11
<1>14. Tally(h) = [s \in K |-> Tally(g)[s]]
  <2>1. \A s \in K : Tally(g)[s] = Cardinality({S \in DOMAIN h : h[S] = s})
    BY <1>13 DEF Tally
  <2> HIDE DEF K
  <2> QED BY <1>12, <2>1 DEF Tally
<1>15. DOMAIN Tally(g) = Range(g)
  BY DEF Tally
<1>16. Counted(players, size, kindOf, first, evidence) = Tally(h)
  <2>1. counts[n] = Tally(g)
    BY <1>10 DEF g
  <2>2. {t \in DOMAIN counts[n] : t.chosen = size} = K
    BY <1>15, <2>1
  <2> HIDE DEF K
  <2> QED BY <1>8, <1>14, <2>1, <2>2
<1> QED BY <1>16 DEF h

-----------------------------------------------------------------------------
(* Flattening a list of lists.                                             *)

\* The joins of the first sequences of a sequence of sequences.
IsJoins(f, ss, X) ==
  /\ f \in [0 .. Len(ss) -> Seq(X)] /\ f[0] = <<>>
  /\ \A i \in 1 .. Len(ss) : i - 1 \in 0 .. Len(ss) /\ f[i] = f[i - 1] \o ss[i]

(* What FlattenSeq recurses on. *)
LEMMA FlattenUnfolds ==
    ASSUME NEW ss
    PROVE  FlattenSeq(ss) =
             IF Len(ss) = 0 THEN ss
             ELSE (CHOOSE f : f = [i \in 1 .. Len(ss) |-> IF i = 1 THEN ss[i] ELSE f[i - 1] \o ss[i]])[Len(ss)]
BY Zenon DEF FlattenSeq

(* Flattening is the last of these joins. *)
LEMMA FlattenIsLast ==
    ASSUME NEW X, NEW ss \in Seq(Seq(X)), NEW f, IsJoins(f, ss, X)
    PROVE  FlattenSeq(ss) = f[Len(ss)]
<1> DEFINE n == Len(ss)
           Def(g) == [i \in 1 .. n |-> IF i = 1 THEN ss[i] ELSE g[i - 1] \o ss[i]]
           g == [i \in 1 .. n |-> f[i]]
           joins == CHOOSE h : h = Def(h)
<1>1. /\ n \in Nat /\ \A i \in 1 .. n : ss[i] \in Seq(X)
      /\ \A i \in 0 .. n : f[i] \in Seq(X)
      /\ f[0] = <<>> /\ \A i \in 1 .. n : f[i] = f[i - 1] \o ss[i]
  <2>1. n \in Nat /\ \A i \in 1 .. n : ss[i] \in Seq(X)
    OBVIOUS
  <2>2. f \in [0 .. n -> Seq(X)] /\ f[0] = <<>> /\ \A i \in 1 .. n : f[i] = f[i - 1] \o ss[i]
    BY DEF IsJoins
  <2> HIDE DEF n
  <2> QED BY <2>1, <2>2
<1>2. CASE n = 0
  <2>1. ss = <<>> /\ f[n] = <<>>
    BY <1>1, <1>2
  <2> QED BY <1>2, <2>1, FlattenUnfolds
<1>3. CASE n # 0
  <2>1. FlattenSeq(ss) = joins[n]
    BY <1>3, FlattenUnfolds, Zenon
  <2> HIDE DEF n
  <2>2. g = Def(g)
    <3>1. ASSUME NEW i \in 1 .. n
          PROVE  g[i] = IF i = 1 THEN ss[i] ELSE g[i - 1] \o ss[i]
      <4>1. CASE i = 1
        <5>0. 1 \in 1 .. n /\ 1 - 1 = 0
          BY <4>1
        <5>1. f[1] = f[1 - 1] \o ss[1] /\ ss[1] \in Seq(X)
          BY <1>1, <5>0
        <5>2. f[1] = ss[1]
          <6>1. f[1] = <<>> \o ss[1]
            BY <1>1, <5>0, <5>1
          <6> HIDE DEF n
          <6>2. \A t \in Seq(X) : <<>> \o t = t
            OBVIOUS
          <6> QED BY <5>1, <6>1, <6>2
        <5> QED BY <4>1, <5>0, <5>2
      <4>2. CASE i # 1
        <5>1. i - 1 \in 1 .. n
          BY <1>1, <4>2
        <5> QED BY <1>1, <4>2, <5>1
      <4> QED BY <4>1, <4>2
    <3>2. g = [i \in 1 .. n |-> g[i]]
      OBVIOUS
    <3> HIDE DEF g
    <3> QED BY <3>1, <3>2
  <2>3. joins = Def(joins)
    <3> HIDE DEF Def, g
    <3> QED BY <2>2
  <2> DEFINE N == {i \in Nat : i + 1 <= n => joins[i + 1] = f[i + 1]}
  <2>4. \A i \in Nat : i \in N
    <3> HIDE DEF joins
    <3>0. \A i \in 1 .. n : joins[i] = IF i = 1 THEN ss[i] ELSE joins[i - 1] \o ss[i]
      BY <2>3
    <3>1. 0 \in N
      <4>0. 1 \in 1 .. n
        BY <1>1, <1>3
      <4>a. g[1] = f[1]
        BY <4>0
      <4>b. Def(g)[1] = ss[1]
        BY <4>0
      <4> HIDE DEF g, Def
      <4>1. 1 \in 1 .. n /\ g[1] = f[1] /\ g[1] = ss[1]
        BY <2>2, <4>0, <4>a, <4>b
      <4>2. joins[1] = f[1]
        BY <3>0, <4>1
      <4> QED BY <4>2
    <3>2. ASSUME NEW i \in Nat, i \in N
          PROVE  i + 1 \in N
      <4> SUFFICES ASSUME i + 2 <= n
                   PROVE  joins[i + 2] = f[i + 2]
        OBVIOUS
      <4>1. i + 2 \in 1 .. n /\ i + 2 # 1 /\ (i + 2) - 1 = i + 1 /\ i + 1 <= n
        BY <1>1
      <4>2. joins[i + 1] = f[i + 1]
        BY <3>2, <4>1
      <4>3. joins[i + 2] = joins[(i + 2) - 1] \o ss[i + 2]
        BY <3>0, <4>1
      <4>4. f[i + 2] = f[(i + 2) - 1] \o ss[i + 2]
        BY <1>1, <4>1
      <4> QED BY <4>1, <4>2, <4>3, <4>4
    <3> HIDE DEF N
    <3> QED BY <3>1, <3>2, AllNaturals
  <2>5. n - 1 \in Nat /\ (n - 1) + 1 = n
    BY <1>1, <1>3
  <2> HIDE DEF joins
  <2>6. joins[n] = f[n]
    BY <2>4, <2>5
  <2> QED BY <2>1, <2>6 DEF n
<1> QED BY <1>2, <1>3

(* There are such joins. *)
LEMMA JoinsExist ==
    ASSUME NEW X, NEW ss \in Seq(Seq(X))
    PROVE  \E f : IsJoins(f, ss, X)
<1> DEFINE n == Len(ss)
           D == 0 .. n
           V == Seq(X)
           Body(i, f) == IF i = 0 THEN <<>> ELSE f[i - 1] \o ss[i]
           rank == [i \in D |-> i]
           Step == [x \in D \X [D -> V] |-> Body(x[1], x[2])]
<1>1. n \in Nat /\ \A i \in 1 .. n : ss[i] \in Seq(X)
  OBVIOUS
<1>2. \A i \in D : i # 0 => i \in 1 .. n /\ i - 1 \in D /\ i - 1 < i
  BY <1>1
<1>3. 0 \in D /\ n \in D /\ \A i \in 1 .. n : i \in D /\ i # 0
  BY <1>1
<1> HIDE DEF n
<1>4. rank \in [D -> Nat]
  BY <1>1
<1> HIDE DEF D
<1>5. \A s, t \in V : s \o t \in V
  OBVIOUS
<1>6. <<>> \in V /\ \A i \in 1 .. n : ss[i] \in V
  BY <1>1
<1> HIDE DEF V
<1>7. ASSUME NEW i \in D, NEW f \in [D -> V]
      PROVE  Body(i, f) \in V
  BY <1>2, <1>5, <1>6
<1>8. ASSUME NEW i \in D, NEW f \in [D -> V], NEW g \in [D -> V],
             \A j \in D : rank[j] < rank[i] => f[j] = g[j]
      PROVE  Body(i, f) = Body(i, g)
  BY <1>2, <1>8
<1>9. LooksBelow(D, V, rank, Step)
  <2> HIDE DEF Body, rank
  <2>2. Step \in [D \X [D -> V] -> V]
    BY <1>7
  <2>3. ASSUME NEW i \in D, NEW f \in [D -> V], NEW g \in [D -> V],
               \A j \in D : rank[j] < rank[i] => f[j] = g[j]
        PROVE  Step[<<i, f>>] = Step[<<i, g>>]
    <3>1. Body(i, f) = Body(i, g)
      BY <1>8, <2>3
    <3> QED BY <3>1
  <2> HIDE DEF Step
  <2> QED BY <1>4, <2>2, <2>3 DEF LooksBelow
<1>10. PICK f \in [D -> V] : \A x \in D : f[x] = Step[<<x, f>>]
  <2> HIDE DEF Step, rank
  <2>1. IsInhabited(V)
    BY <1>6 DEF IsInhabited
  <2>2. IsInhabited(Solutions(D, V, Step))
    BY <1>9, <2>1, RecursionExists
  <2> QED BY <2>2 DEF Solutions, IsInhabited
<1>11. \A i \in D : f[i] = Body(i, f)
  <2> HIDE DEF Body
  <2> QED BY <1>10
<1>12. f[0] = <<>> /\ \A i \in 1 .. n : i - 1 \in D /\ f[i] = f[i - 1] \o ss[i]
  BY <1>2, <1>3, <1>11
<1> QED BY <1>12 DEF IsJoins, D, V, n

(* Flattening sequences of sequences, one more of them and two of them joined. *)
LEMMA FlattenType ==
    ASSUME NEW X, NEW ss \in Seq(Seq(X))
    PROVE  FlattenSeq(ss) \in Seq(X)
<1>1. PICK f : IsJoins(f, ss, X)
  BY JoinsExist
<1>2. FlattenSeq(ss) = f[Len(ss)]
  BY <1>1, FlattenIsLast
<1>3. Len(ss) \in 0 .. Len(ss)
  OBVIOUS
<1> QED BY <1>1, <1>2, <1>3 DEF IsJoins

(* Joining sequences of one set is associative, read from left to right. *)
LEMMA ConcatRegroups == ASSUME NEW X
                        PROVE  \A a, b, c \in Seq(X) : a \o (b \o c) = (a \o b) \o c
<1> TAKE a, b, c \in Seq(X)
<1>1. (a \o b) \o c = a \o (b \o c)
  BY ConcatAssociative, SMTT(60)
<1> QED BY <1>1

(* Flattening two lists joined joins what they flatten to. *)
LEMMA FlattenJoin ==
    ASSUME NEW X, NEW ss \in Seq(Seq(X)), NEW tt \in Seq(Seq(X))
    PROVE  FlattenSeq(ss \o tt) = FlattenSeq(ss) \o FlattenSeq(tt)
<1> DEFINE n == Len(ss)
           m == Len(tt)
           j == ss \o tt
<1>1. PICK f : IsJoins(f, ss, X)
  BY JoinsExist
<1>2. PICK g : IsJoins(g, tt, X)
  BY JoinsExist
<1> DEFINE h == [i \in 0 .. n + m |-> IF i <= n THEN f[i] ELSE f[n] \o g[i - n]]
<1>3. /\ n \in Nat /\ m \in Nat /\ j \in Seq(Seq(X)) /\ Len(j) = n + m
      /\ \A i \in 1 .. n : ss[i] \in Seq(X) /\ j[i] = ss[i]
      /\ \A i \in 1 .. n + m : i > n => i - n \in 1 .. m /\ j[i] = tt[i - n]
      /\ \A i \in 1 .. m : tt[i] \in Seq(X)
  OBVIOUS
<1>4. /\ \A i \in 0 .. n : f[i] \in Seq(X)
      /\ \A i \in 0 .. m : g[i] \in Seq(X)
      /\ f[0] = <<>> /\ g[0] = <<>>
      /\ \A i \in 1 .. n : f[i] = f[i - 1] \o ss[i]
      /\ \A i \in 1 .. m : g[i] = g[i - 1] \o tt[i]
  BY <1>1, <1>2 DEF IsJoins
<1> HIDE DEF n, m, j
<1>5. \A i \in 0 .. n + m : h[i] \in Seq(X)
  <2> TAKE i \in 0 .. n + m
  <2>1. CASE i <= n
    BY <1>3, <1>4, <2>1
  <2>2. CASE ~(i <= n)
    <3>1. n \in 0 .. n /\ i - n \in 0 .. m
      BY <1>3, <2>2
    <3>2. f[n] \in Seq(X) /\ g[i - n] \in Seq(X)
      BY <1>4, <3>1
    <3>3. h[i] = f[n] \o g[i - n]
      BY <2>2
    <3> HIDE DEF h
    <3> QED BY <3>2, <3>3
  <2> QED BY <2>1, <2>2
<1>6. ASSUME NEW i \in 1 .. n + m
      PROVE  i - 1 \in 0 .. n + m /\ h[i] = h[i - 1] \o j[i]
  <2>0. i \in 0 .. n + m /\ i - 1 \in 0 .. n + m
    BY <1>3
  <2>1. CASE i <= n
    <3>1. i \in 1 .. n /\ i - 1 <= n
      BY <1>3, <2>1
    <3>2. h[i] = f[i] /\ h[i - 1] = f[i - 1] /\ j[i] = ss[i]
      BY <1>3, <2>0, <2>1, <3>1
    <3> HIDE DEF h
    <3> QED BY <1>4, <2>0, <3>1, <3>2
  <2>2. CASE i = n + 1
    <3>1. ~(i <= n) /\ i - 1 = n /\ i - n = 1 /\ 1 \in 1 .. m
      BY <1>3, <2>2
    <3>2. h[i] = f[n] \o g[1] /\ h[i - 1] = f[n] /\ j[i] = tt[1]
      <4>1. h[i] = f[n] \o g[i - n]
        BY <2>0, <3>1
      <4>2. h[i - 1] = f[n]
        <5>1. i - 1 <= n
          BY <1>3, <2>2
        <5>2. h[i - 1] = f[i - 1]
          BY <2>0, <5>1
        <5> HIDE DEF h
        <5> QED BY <3>1, <5>2
      <4>3. i > n
        BY <1>3, <2>2
      <4> HIDE DEF h
      <4> QED BY <1>3, <3>1, <4>1, <4>2, <4>3
    <3>3. g[1] = g[0] \o tt[1] /\ tt[1] \in Seq(X)
      <4> HIDE DEF h
      <4>1. \A k \in 1 .. m : g[k] = g[k - 1] \o tt[k]
        BY <1>4
      <4>2. 1 \in 1 .. m
        BY <3>1
      <4>3. \A k \in 1 .. m : k = 1 => g[1] = g[0] \o tt[1]
        <5> TAKE k \in 1 .. m
        <5> HAVE k = 1
        <5>1. g[k] = g[k - 1] \o tt[k]
          BY <4>1
        <5>2. k - 1 = 0
          OBVIOUS
        <5> QED BY <5>1, <5>2
      <4> QED BY <1>3, <4>2, <4>3
    <3>4. g[1] = tt[1]
      <4>1. g[1] = <<>> \o tt[1]
        BY <1>4, <3>3
      <4>2. \A t \in Seq(X) : <<>> \o t = t
        OBVIOUS
      <4> QED BY <3>3, <4>1, <4>2
    <3> HIDE DEF h
    <3> QED BY <2>0, <3>2, <3>4
  <2>3. CASE i > n + 1
    <3>1. ~(i <= n) /\ ~(i - 1 <= n) /\ i - n \in 1 .. m /\ (i - n) - 1 \in 0 .. m /\ (i - 1) - n = (i - n) - 1 /\ i > n
      BY <1>3, <2>3
    <3>2. h[i] = f[n] \o g[i - n] /\ h[i - 1] = f[n] \o g[(i - 1) - n]
      BY <2>0, <3>1
    <3> HIDE DEF h
    <3>3. j[i] = tt[i - n] /\ g[i - n] = g[(i - n) - 1] \o tt[i - n]
      <4>1. j[i] = tt[i - n]
        BY <1>3, <3>1
      <4>2. \A k \in 1 .. m : g[k] = g[k - 1] \o tt[k]
        BY <1>4
      <4> QED BY <3>1, <4>1, <4>2
    <3>4. f[n] \in Seq(X) /\ g[(i - n) - 1] \in Seq(X) /\ tt[i - n] \in Seq(X)
      <4>1. n \in 0 .. n
        BY <1>3
      <4> QED BY <1>3, <1>4, <3>1, <4>1
    <3>5. \A a, b, c \in Seq(X) : a \o (b \o c) = (a \o b) \o c
      BY ConcatRegroups
    <3>6. f[n] \o (g[(i - n) - 1] \o tt[i - n]) = (f[n] \o g[(i - n) - 1]) \o tt[i - n]
      BY <3>4, <3>5
    <3>7. h[i - 1] \o j[i] = (f[n] \o g[(i - n) - 1]) \o tt[i - n]
      BY <3>1, <3>2, <3>3
    <3>8. h[i] = f[n] \o (g[(i - n) - 1] \o tt[i - n])
      BY <3>2, <3>3
    <3> QED BY <2>0, <3>6, <3>7, <3>8
  <2>4. i <= n \/ i = n + 1 \/ i > n + 1
    <3>1. i \in Int /\ n \in Int
      BY <1>3
    <3> HIDE DEF h
    <3> QED BY <3>1
  <2> QED BY <2>1, <2>2, <2>3, <2>4
<1>7. 0 \in 0 .. n + m /\ 0 <= n /\ h[0] = <<>>
  <2>1. 0 \in 0 .. n + m /\ 0 <= n
    BY <1>3
  <2> QED BY <1>4, <2>1
<1>8. h \in [0 .. n + m -> Seq(X)]
  <2>1. h = [i \in 0 .. n + m |-> h[i]]
    OBVIOUS
  <2> HIDE DEF h
  <2> QED BY <1>5, <2>1
<1>9. h[n + m] = f[n] \o g[m]
  <2>1. CASE m = 0
    <3>1. n + m <= n /\ n + m \in 0 .. n + m /\ n + m = n
      BY <1>3, <2>1
    <3>2. h[n + m] = f[n]
      <4>1. h[n + m] = f[n + m]
        BY <3>1
      <4> HIDE DEF h
      <4> QED BY <3>1, <4>1
    <3>3. f[n] \in Seq(X) /\ g[m] = <<>>
      <4>1. n \in 0 .. n
        BY <1>3
      <4> QED BY <1>4, <2>1, <4>1
    <3> HIDE DEF h
    <3> QED BY <3>2, <3>3
  <2>2. CASE m # 0
    <3>1. ~(n + m <= n) /\ n + m \in 0 .. n + m /\ (n + m) - n = m
      BY <1>3, <2>2
    <3>2. h[n + m] = f[n] \o g[(n + m) - n]
      BY <3>1
    <3> HIDE DEF h
    <3> QED BY <3>1, <3>2
  <2> QED BY <2>1, <2>2
<1> HIDE DEF h
<1>10. IsJoins(h, j, X)
  BY <1>3, <1>6, <1>7, <1>8 DEF IsJoins
<1>11. FlattenSeq(j) = h[n + m]
  BY <1>3, <1>10, FlattenIsLast
<1>12. FlattenSeq(ss) = f[n] /\ FlattenSeq(tt) = g[m]
  BY <1>1, <1>2, FlattenIsLast DEF n, m
<1> QED BY <1>9, <1>11, <1>12 DEF j

(* Flattening one sequence, or none. *)
LEMMA FlattenOne ==
    ASSUME NEW X, NEW s \in Seq(X)
    PROVE  FlattenSeq(<<s>>) = s /\ FlattenSeq(<<>>) = <<>>
<1>1. FlattenSeq(<<>>) = <<>>
  BY FlattenUnfolds
<1> DEFINE f == [i \in 0 .. 1 |-> IF i = 0 THEN <<>> ELSE s]
<1>2. /\ <<s>> \in Seq(Seq(X)) /\ Len(<<s>>) = 1 /\ <<s>>[1] = s
  OBVIOUS
<1>3. f \in [0 .. 1 -> Seq(X)] /\ f[0] = <<>> /\ f[1] = s
  OBVIOUS
<1>4. s = <<>> \o s
  OBVIOUS
<1> HIDE DEF f
<1>5. IsJoins(f, <<s>>, X)
  <2>1. \A i \in 1 .. 1 : i = 1 /\ i - 1 = 0 /\ i - 1 \in 0 .. 1
    OBVIOUS
  <2>2. \A i \in 1 .. 1 : i - 1 \in 0 .. 1 /\ f[i] = f[i - 1] \o <<s>>[i]
    <3> TAKE i \in 1 .. 1
    <3>1. i = 1 /\ i - 1 = 0 /\ i - 1 \in 0 .. 1
      BY <2>1
    <3> QED BY <1>2, <1>3, <1>4, <3>1
  <2> QED BY <1>2, <1>3, <2>2 DEF IsJoins
<1> QED BY <1>1, <1>2, <1>3, <1>5, FlattenIsLast

(* Flattening lines of different players is a line of all of them. *)
LEMMA FlattenQueue ==
    ASSUME NEW n \in Nat, NEW ss, ss = [i \in 1 .. n |-> ss[i]], NEW F,
           \A i \in 1 .. n : Queue(ss[i], F[i]),
           \A i, j \in 1 .. n : i # j => F[i] \cap F[j] = {}
    PROVE  Queue(FlattenSeq(ss), Members(F, 1 .. n)) /\ ss \in Seq(Seq(Members(F, 1 .. n)))
<1> DEFINE X == Members(F, 1 .. n)
<1>1. ss \in Seq(Seq(X)) /\ Len(ss) = n
  <2>1. ASSUME NEW i \in 1 .. n
        PROVE  ss[i] \in Seq(X)
    <3>1. ss[i] \in Seq(F[i])
      BY DEF Queue
    <3>2. F[i] \subseteq X
      BY DEF Members
    <3> HIDE DEF X
    <3> QED BY <3>1, <3>2, SeqMonotonic
  <2> HIDE DEF X
  <2>2. ss \in [1 .. n -> Seq(X)]
    BY <2>1
  <2> QED BY <2>2
<1> HIDE DEF X
<1>2. PICK f : IsJoins(f, ss, X)
  BY <1>1, JoinsExist
<1>3. /\ f[0] = <<>>
      /\ \A i \in 1 .. n : f[i] = f[i - 1] \o ss[i]
      /\ FlattenSeq(ss) = f[n]
  <2>1. FlattenSeq(ss) = f[Len(ss)]
    BY <1>1, <1>2, FlattenIsLast
  <2> QED BY <1>1, <1>2, <2>1 DEF IsJoins
<1> DEFINE M(i) == Members(F, 1 .. i)
           N == {i \in Nat : i <= n => Queue(f[i], M(i))}
<1>4. 0 \in N
  <2>1. M(0) = {}
    BY DEF Members
  <2>2. Queue(<<>>, {})
    BY DEF Queue, IsInjective, Range
  <2> QED BY <1>3, <2>1, <2>2
<1>5. ASSUME NEW i \in Nat, i \in N
      PROVE  i + 1 \in N
  <2> SUFFICES ASSUME i + 1 <= n
               PROVE  Queue(f[i + 1], M(i + 1))
    OBVIOUS
  <2>1. i <= n /\ i + 1 \in 1 .. n /\ (i + 1) - 1 = i
        /\ (1 .. i + 1) = (1 .. i) \cup {i + 1} /\ \A j \in 1 .. i : j \in 1 .. n /\ j # i + 1
    OBVIOUS
  <2>2. Queue(f[i], M(i))
    BY <1>5, <2>1
  <2>3. f[i + 1] = f[i] \o ss[i + 1]
    BY <1>3, <2>1
  <2>4. Queue(ss[i + 1], F[i + 1])
    BY <2>1
  <2>5. M(i) \cap F[i + 1] = {}
    BY <2>1 DEF Members
  <2>6. M(i + 1) = M(i) \cup F[i + 1]
    BY <2>1 DEF Members
  <2> HIDE DEF M
  <2>7. Queue(f[i] \o ss[i + 1], M(i) \cup F[i + 1])
    BY <2>2, <2>4, <2>5, QueuesJoin
  <2> QED BY <2>3, <2>6, <2>7
<1>6. \A i \in Nat : i \in N
  <2> HIDE DEF N
  <2> QED BY <1>4, <1>5, AllNaturals
<1>7. Queue(f[n], M(n))
  BY <1>6
<1> QED BY <1>1, <1>3, <1>7 DEF X

(* Sequences of one length flatten to as often that length. *)
LEMMA FlattenSize ==
    ASSUME NEW X, NEW ss \in Seq(Seq(X)), NEW m \in Nat, \A i \in 1 .. Len(ss) : Len(ss[i]) = m
    PROVE  Len(FlattenSeq(ss)) = Len(ss) * m
<1> DEFINE n == Len(ss)
<1>1. PICK f : IsJoins(f, ss, X)
  BY JoinsExist
<1>2. /\ f[0] = <<>> /\ FlattenSeq(ss) = f[n] /\ n \in Nat
      /\ \A i \in 1 .. n : f[i - 1] \in Seq(X) /\ ss[i] \in Seq(X) /\ f[i] = f[i - 1] \o ss[i] /\ Len(ss[i]) = m
  <2>1. f \in [0 .. n -> Seq(X)] /\ f[0] = <<>> /\ \A i \in 1 .. n : i - 1 \in 0 .. n /\ f[i] = f[i - 1] \o ss[i]
    BY <1>1 DEF IsJoins
  <2>2. n \in Nat /\ \A i \in 1 .. n : ss[i] \in Seq(X)
    OBVIOUS
  <2>3. FlattenSeq(ss) = f[n]
    BY <1>1, FlattenIsLast
  <2> QED BY <2>1, <2>2, <2>3
<1> HIDE DEF n
<1> DEFINE N == {i \in Nat : i <= n => Len(f[i]) = i * m}
<1>3. 0 \in N
  BY <1>2
<1>4. ASSUME NEW i \in Nat, i \in N
      PROVE  i + 1 \in N
  <2> SUFFICES ASSUME i + 1 <= n
               PROVE  Len(f[i + 1]) = (i + 1) * m
    OBVIOUS
  <2>1. i <= n /\ i + 1 \in 1 .. n /\ (i + 1) - 1 = i
    BY <1>2
  <2>2. Len(f[i]) = i * m
    BY <1>4, <2>1
  <2>3. f[i] \in Seq(X) /\ ss[i + 1] \in Seq(X) /\ f[i + 1] = f[i] \o ss[i + 1] /\ Len(ss[i + 1]) = m
    BY <1>2, <2>1
  <2>4. Len(f[i + 1]) = Len(f[i]) + m
    <3>1. Len(f[i] \o ss[i + 1]) = Len(f[i]) + Len(ss[i + 1])
      BY <2>3, JoinType
    <3> QED BY <2>3, <3>1
  <2>5. (i + 1) * m = i * m + m
    OBVIOUS
  <2> QED BY <2>2, <2>4, <2>5
<1>5. \A i \in Nat : i \in N
  <2> HIDE DEF N
  <2> QED BY <1>3, <1>4, AllNaturals
<1>6. Len(f[n]) = n * m
  BY <1>2, <1>5
<1> QED BY <1>2, <1>6 DEF n

(* Selecting from a line leaves a line of those who are wanted. *)
LEMMA SelectedQueue ==
    ASSUME NEW s, NEW Q, Queue(s, Q), NEW S
    PROVE  Queue(Selected(s, S), Q \cap S)
<1> DEFINE n == Len(s)
           ss == [i \in 1 .. n |-> IF s[i] \in S THEN <<s[i]>> ELSE <<>>]
           F == [i \in 1 .. n |-> IF s[i] \in S THEN {s[i]} ELSE {}]
<1>1. /\ n \in Nat /\ DOMAIN s = 1 .. n
      /\ \A i, j \in 1 .. n : s[i] = s[j] => i = j
      /\ \A i \in 1 .. n : s[i] \in Q
      /\ \A x \in Q : \E i \in 1 .. n : x = s[i]
  BY QueueType
<1>2. Selected(s, S) = FlattenSeq(ss)
  BY <1>1 DEF Selected
<1>3. \A x : Queue(<<x>>, {x}) /\ Queue(<<>>, {})
  <2>1. Queue(<<>>, {})
    BY DEF Queue, IsInjective, Range
  <2> TAKE x
  <2>2. Queue(Append(<<>>, x), {} \cup {x})
    BY <2>1, QueueGrows
  <2> QED BY <2>1, <2>2
<1>4. \A i \in 1 .. n : Queue(ss[i], F[i])
  BY <1>3
<1>5. \A i, j \in 1 .. n : i # j => F[i] \cap F[j] = {}
  BY <1>1
<1>6. Members(F, 1 .. n) = Q \cap S
  <2>1. \A i \in 1 .. n : F[i] \subseteq Q \cap S
    BY <1>1
  <2>2. \A x \in Q \cap S : \E i \in 1 .. n : x \in F[i]
    BY <1>1
  <2> HIDE DEF F
  <2> QED BY <2>1, <2>2 DEF Members
<1>7. ss = [i \in 1 .. n |-> ss[i]]
  OBVIOUS
<1> HIDE DEF ss, F, n
<1>8. Queue(FlattenSeq(ss), Members(F, 1 .. n))
  BY <1>1, <1>4, <1>5, <1>7, FlattenQueue
<1> QED BY <1>2, <1>6, <1>8

-----------------------------------------------------------------------------
(* The pairs of two lists.                                                 *)

Candidates(A, B) == {TwoTeamCandidate(x, y) : x \in A, y \in B}

(* A candidate of two teams is its two packages. *)
LEMMA CandidateType ==
    ASSUME NEW a, NEW b
    PROVE  LET c == TwoTeamCandidate(a, b)
           IN /\ DOMAIN c = {<<1, 2>>, <<2, 1>>} /\ c[<<1, 2>>] = a /\ c[<<2, 1>>] = b
              /\ c = [r \in {<<1, 2>>, <<2, 1>>} |-> c[r]]
<1>1. <<1, 2>> # <<2, 1>>
  OBVIOUS
<1> QED BY <1>1 DEF TwoTeamCandidate

(* Different packages make different candidates. *)
LEMMA CandidatesDiffer ==
    ASSUME NEW a, NEW b, NEW x, NEW y, TwoTeamCandidate(a, b) = TwoTeamCandidate(x, y)
    PROVE  a = x /\ b = y
BY CandidateType

\* The row of candidates that send one package.
Row(x, b) == [i \in DOMAIN b |-> TwoTeamCandidate(x, b[i])]

(* A row lists the candidates of one package and each of a list, once each. *)
LEMMA RowQueue ==
    ASSUME NEW x, NEW b, NEW B, Queue(b, B)
    PROVE  Queue(Row(x, b), {TwoTeamCandidate(x, y) : y \in B}) /\ Len(Row(x, b)) = Len(b)
<1> DEFINE n == Len(b)
           r == Row(x, b)
           C == {TwoTeamCandidate(x, y) : y \in B}
<1>1. /\ n \in Nat /\ DOMAIN b = 1 .. n
      /\ \A i, j \in 1 .. n : b[i] = b[j] => i = j
      /\ \A i \in 1 .. n : b[i] \in B
      /\ \A y \in B : \E i \in 1 .. n : y = b[i]
  BY QueueType
<1> HIDE DEF n
<1>2. /\ r = [i \in 1 .. n |-> r[i]] /\ DOMAIN r = 1 .. n
      /\ \A i \in 1 .. n : r[i] = TwoTeamCandidate(x, b[i])
  BY <1>1 DEF Row
<1> HIDE DEF r
<1>3. r \in Seq(C) /\ Len(r) = n
  <2>1. \A i \in 1 .. n : r[i] \in C
    BY <1>1, <1>2
  <2> HIDE DEF C
  <2>2. r \in [1 .. n -> C]
    BY <1>2, <2>1
  <2> QED BY <1>1, <2>2
<1>4. IsInjective(r)
  <2> SUFFICES ASSUME NEW i \in 1 .. n, NEW j \in 1 .. n, r[i] = r[j]
               PROVE  i = j
    BY <1>2 DEF IsInjective
  <2>1. b[i] = b[j]
    BY <1>2, CandidatesDiffer
  <2> QED BY <1>1, <2>1
<1>5. Range(r) = C
  <2>1. \A c \in C : \E i \in 1 .. n : c = r[i]
    BY <1>1, <1>2
  <2>2. \A i \in 1 .. n : r[i] \in C
    BY <1>1, <1>2
  <2> HIDE DEF C
  <2> QED BY <1>2, <2>1, <2>2 DEF Range
<1> QED BY <1>3, <1>4, <1>5 DEF Queue, r, n

(* The pairs of two lists are a list of the pairs. *)
LEMMA ProductQueue ==
    ASSUME NEW a, NEW A, Queue(a, A), NEW b, NEW B, Queue(b, B)
    PROVE  Queue(Product(a, b), Candidates(A, B))
<1> DEFINE n == Len(a)
           C(x) == {TwoTeamCandidate(x, y) : y \in B}
           ss == [o \in 1 .. n |-> Row(a[o], b)]
           F == [o \in 1 .. n |-> C(a[o])]
<1>1. /\ n \in Nat /\ DOMAIN a = 1 .. n
      /\ \A i, j \in 1 .. n : a[i] = a[j] => i = j
      /\ \A i \in 1 .. n : a[i] \in A
      /\ \A x \in A : \E i \in 1 .. n : x = a[i]
  BY QueueType
<1> HIDE DEF n
<1>2. Product(a, b) = FlattenSeq(ss)
  BY <1>1 DEF Product, Row
<1>3. \A i \in 1 .. n : Queue(ss[i], F[i])
  BY RowQueue
<1>4. \A i, j \in 1 .. n : i # j => F[i] \cap F[j] = {}
  <2> SUFFICES ASSUME NEW i \in 1 .. n, NEW j \in 1 .. n, NEW c, c \in F[i], c \in F[j]
               PROVE  i = j
    <3> HIDE DEF F
    <3> QED OBVIOUS
  <2>1. PICK y \in B : c = TwoTeamCandidate(a[i], y)
    OBVIOUS
  <2>2. PICK z \in B : c = TwoTeamCandidate(a[j], z)
    OBVIOUS
  <2>3. a[i] = a[j]
    BY <2>1, <2>2, CandidatesDiffer
  <2> QED BY <1>1, <2>3
<1>5. Members(F, 1 .. n) = Candidates(A, B)
  <2>1. ASSUME NEW i \in 1 .. n, NEW c \in F[i]
        PROVE  c \in Candidates(A, B)
    BY <1>1 DEF Candidates
  <2>2. ASSUME NEW c \in Candidates(A, B)
        PROVE  \E i \in 1 .. n : c \in F[i]
    <3>1. PICK x \in A, y \in B : c = TwoTeamCandidate(x, y)
      BY DEF Candidates
    <3>2. PICK i \in 1 .. n : x = a[i]
      BY <1>1
    <3>3. c \in F[i]
      BY <3>1, <3>2
    <3> QED BY <3>3
  <2> HIDE DEF F
  <2> QED BY <2>1, <2>2 DEF Members
<1>6. ss = [i \in 1 .. n |-> ss[i]]
  OBVIOUS
<1> HIDE DEF ss, F
<1>7. Queue(FlattenSeq(ss), Members(F, 1 .. n))
  BY <1>1, <1>3, <1>4, <1>6, FlattenQueue
<1> QED BY <1>2, <1>5, <1>7

\* The rows of all the packages.
Rows(a, b) == [o \in DOMAIN a |-> Row(a[o], b)]

(* The product is its rows, one after another. *)
LEMMA RowsType ==
    ASSUME NEW A, NEW a \in Seq(A), NEW B, NEW b \in Seq(B)
    PROVE  /\ Rows(a, b) \in Seq(Seq(Candidates(A, B))) /\ Len(Rows(a, b)) = Len(a)
           /\ \A o \in 1 .. Len(a) : Rows(a, b)[o] = Row(a[o], b) /\ Len(Rows(a, b)[o]) = Len(b)
           /\ Product(a, b) = FlattenSeq(Rows(a, b))
<1> DEFINE C == Candidates(A, B)
           r == Rows(a, b)
<1>1. /\ Len(a) \in Nat /\ DOMAIN a = 1 .. Len(a) /\ \A o \in 1 .. Len(a) : a[o] \in A
      /\ Len(b) \in Nat /\ DOMAIN b = 1 .. Len(b) /\ \A i \in 1 .. Len(b) : b[i] \in B
  OBVIOUS
<1>2. \A x \in A : Row(x, b) \in Seq(C) /\ Len(Row(x, b)) = Len(b)
  <2> TAKE x \in A
  <2> DEFINE w == Row(x, b)
  <2>1. w = [i \in 1 .. Len(b) |-> w[i]] /\ \A i \in 1 .. Len(b) : w[i] = TwoTeamCandidate(x, b[i])
    BY <1>1 DEF Row
  <2> HIDE DEF w
  <2>2. \A i \in 1 .. Len(b) : w[i] \in C
    BY <1>1, <2>1 DEF Candidates
  <2> HIDE DEF C
  <2>3. w \in [1 .. Len(b) -> C]
    BY <2>1, <2>2
  <2>4. w \in Seq(C) /\ Len(w) = Len(b)
    BY <1>1, <2>3
  <2> QED BY <2>4 DEF w
<1> HIDE DEF C
<1>3. r = [o \in 1 .. Len(a) |-> r[o]] /\ \A o \in 1 .. Len(a) : r[o] = Row(a[o], b)
  BY <1>1 DEF Rows
<1>4. Product(a, b) = FlattenSeq(r)
  BY Zenon DEF Product, Rows, Row
<1> HIDE DEF r
<1>5. \A o \in 1 .. Len(a) : r[o] \in Seq(C) /\ Len(r[o]) = Len(b)
  BY <1>1, <1>2, <1>3
<1>6. r \in [1 .. Len(a) -> Seq(C)]
  BY <1>3, <1>5
<1>7. r \in Seq(Seq(C)) /\ Len(r) = Len(a)
  BY <1>1, <1>6
<1> QED BY <1>3, <1>4, <1>5, <1>7 DEF r, C

(* The pairs are as many as the packages of one side times those of the other, and *)
(* those of a list are those of its beginning and then those of its rest.          *)
LEMMA ProductJoin ==
    ASSUME NEW A, NEW B, NEW b \in Seq(B)
    PROVE  \A a, c \in Seq(A) :
             /\ Product(a \o c, b) = Product(a, b) \o Product(c, b)
             /\ Product(a, b) \in Seq(Candidates(A, B)) /\ Len(Product(a, b)) = Len(a) * Len(b)
<1> TAKE a, c \in Seq(A)
<1> DEFINE X == Candidates(A, B)
           j == a \o c
<1>0. ASSUME NEW s \in Seq(A)
      PROVE  /\ Rows(s, b) \in Seq(Seq(X)) /\ Len(Rows(s, b)) = Len(s) /\ Product(s, b) = FlattenSeq(Rows(s, b))
             /\ \A o \in 1 .. Len(s) : Rows(s, b)[o] = Row(s[o], b) /\ Len(Rows(s, b)[o]) = Len(b)
  <2>1. s \in Seq(A)
    BY <1>0
  <2>2. /\ Rows(s, b) \in Seq(Seq(Candidates(A, B))) /\ Len(Rows(s, b)) = Len(s)
        /\ \A o \in 1 .. Len(s) : Rows(s, b)[o] = Row(s[o], b) /\ Len(Rows(s, b)[o]) = Len(b)
        /\ Product(s, b) = FlattenSeq(Rows(s, b))
    BY <2>1, RowsType, Zenon
  <2> QED BY <2>2
<1> HIDE DEF X
<1>1. /\ Rows(a, b) \in Seq(Seq(X)) /\ Len(Rows(a, b)) = Len(a) /\ Product(a, b) = FlattenSeq(Rows(a, b))
      /\ \A o \in 1 .. Len(a) : Rows(a, b)[o] = Row(a[o], b) /\ Len(Rows(a, b)[o]) = Len(b)
  BY <1>0
<1>2. /\ Rows(c, b) \in Seq(Seq(X)) /\ Len(Rows(c, b)) = Len(c) /\ Product(c, b) = FlattenSeq(Rows(c, b))
      /\ \A o \in 1 .. Len(c) : Rows(c, b)[o] = Row(c[o], b)
  BY <1>0
<1>3. /\ j \in Seq(A) /\ Len(j) = Len(a) + Len(c) /\ Len(a) \in Nat /\ Len(c) \in Nat /\ Len(b) \in Nat
      /\ \A i \in 1 .. Len(a) + Len(c) : j[i] = IF i <= Len(a) THEN a[i] ELSE c[i - Len(a)]
  BY JoinType
<1> HIDE DEF j
<1>4. /\ Rows(j, b) \in Seq(Seq(X)) /\ Len(Rows(j, b)) = Len(j) /\ Product(j, b) = FlattenSeq(Rows(j, b))
      /\ \A o \in 1 .. Len(j) : Rows(j, b)[o] = Row(j[o], b)
  BY <1>0, <1>3
<1> DEFINE t == Rows(a, b) \o Rows(c, b)
<1>5. /\ t \in Seq(Seq(X)) /\ Len(t) = Len(a) + Len(c)
      /\ \A i \in 1 .. Len(a) + Len(c) : t[i] = IF i <= Len(a) THEN Rows(a, b)[i] ELSE Rows(c, b)[i - Len(a)]
  <2>1. /\ t \in Seq(Seq(X)) /\ Len(t) = Len(Rows(a, b)) + Len(Rows(c, b))
        /\ \A i \in 1 .. Len(Rows(a, b)) + Len(Rows(c, b)) :
             t[i] = IF i <= Len(Rows(a, b)) THEN Rows(a, b)[i] ELSE Rows(c, b)[i - Len(Rows(a, b))]
    <3>1. \A u, v \in Seq(Seq(X)) :
            /\ u \o v \in Seq(Seq(X)) /\ Len(u \o v) = Len(u) + Len(v)
            /\ \A i \in 1 .. Len(u) + Len(v) : (u \o v)[i] = IF i <= Len(u) THEN u[i] ELSE v[i - Len(u)]
      BY JoinType
    <3> QED BY <1>1, <1>2, <3>1, Zenon
  <2> HIDE DEF t
  <2> QED BY <1>1, <1>2, <2>1
<1> HIDE DEF t
<1>6. ASSUME NEW i \in 1 .. Len(a) + Len(c)
      PROVE  Rows(j, b)[i] = t[i]
  <2>1. CASE i <= Len(a)
    <3>1. i \in 1 .. Len(a) /\ i \in 1 .. Len(j)
      BY <1>3, <2>1
    <3> QED BY <1>1, <1>3, <1>4, <1>5, <2>1, <3>1
  <2>2. CASE ~(i <= Len(a))
    <3>1. i - Len(a) \in 1 .. Len(c) /\ i \in 1 .. Len(j)
      BY <1>3, <2>2
    <3>2. Rows(c, b)[i - Len(a)] = Row(c[i - Len(a)], b)
      BY <1>2, <3>1
    <3>3. t[i] = Rows(c, b)[i - Len(a)]
      BY <1>5, <2>2
    <3>4. Rows(j, b)[i] = Row(j[i], b) /\ j[i] = c[i - Len(a)]
      BY <1>3, <1>4, <2>2, <3>1
    <3> QED BY <3>2, <3>3, <3>4
  <2> QED BY <2>1, <2>2
<1>7. Rows(j, b) = t
  <2>1. Len(Rows(j, b)) = Len(t) /\ \A i \in 1 .. Len(Rows(j, b)) : Rows(j, b)[i] = t[i]
    BY <1>3, <1>4, <1>5, <1>6
  <2> QED BY <1>4, <1>5, <2>1, SameSequence
<1>8. FlattenSeq(t) = FlattenSeq(Rows(a, b)) \o FlattenSeq(Rows(c, b))
  BY <1>1, <1>2, FlattenJoin DEF t
<1>9. FlattenSeq(Rows(a, b)) \in Seq(X) /\ Len(FlattenSeq(Rows(a, b))) = Len(a) * Len(b)
  <2>1. FlattenSeq(Rows(a, b)) \in Seq(X)
    BY <1>1, FlattenType
  <2>2. \A i \in 1 .. Len(Rows(a, b)) : Len(Rows(a, b)[i]) = Len(b)
    BY <1>1
  <2>3. Len(FlattenSeq(Rows(a, b))) = Len(Rows(a, b)) * Len(b)
    BY <1>1, <1>3, <2>2, FlattenSize
  <2> QED BY <1>1, <2>1, <2>3
<1> QED BY <1>1, <1>2, <1>4, <1>7, <1>8, <1>9 DEF j, X

(* A beginning of a sequence and its rest. *)
LEMMA SplitAt ==
    ASSUME NEW X, NEW s \in Seq(X), NEW n \in Nat, n <= Len(s)
    PROVE  /\ SubSeq(s, 1, n) \in Seq(X) /\ Len(SubSeq(s, 1, n)) = n
           /\ From(s, n) \in Seq(X) /\ Len(From(s, n)) = Len(s) - n
           /\ s = SubSeq(s, 1, n) \o From(s, n)
<1> DEFINE a == SubSeq(s, 1, n)
           b == From(s, n)
<1>1. /\ a \in Seq(X) /\ Len(a) = n /\ \A i \in 1 .. n : a[i] = s[i]
  <2>1. \A i \in 1 .. n : s[i] \in X
    OBVIOUS
  <2>2. /\ SubSeq(s, 1, n) \in Seq(X)
        /\ Len(SubSeq(s, 1, n)) = IF 1 <= n THEN n - 1 + 1 ELSE 0
        /\ \A i \in 1 .. n - 1 + 1 : SubSeq(s, 1, n)[i] = s[1 + i - 1]
    BY <2>1, SubSeqProperties
  <2>3. Len(a) = n
    BY <2>2
  <2>4. \A i \in 1 .. n : i \in 1 .. n - 1 + 1 /\ 1 + i - 1 = i
    OBVIOUS
  <2> HIDE DEF a
  <2>5. \A i \in 1 .. n : a[i] = s[i]
    BY <2>2, <2>4 DEF a
  <2> QED BY <2>2, <2>3, <2>5 DEF a
<1>2. /\ b \in Seq(X) /\ Len(s) \in Nat /\ Len(b) = Len(s) - n
      /\ \A i \in 1 .. Len(b) : b[i] = s[n + i]
  <2>1. /\ b \in Seq(X) /\ Len(s) \in Nat /\ Len(b) = IF n < Len(s) THEN Len(s) - n ELSE 0
        /\ \A i \in 1 .. Len(b) : b[i] = s[n + i]
    BY FromType
  <2> HIDE DEF b
  <2> QED BY <2>1
<1> HIDE DEF a, b
<1> DEFINE j == a \o b
<1>3. /\ j \in Seq(X) /\ Len(j) = Len(a) + Len(b)
      /\ \A i \in 1 .. Len(a) + Len(b) : j[i] = IF i <= Len(a) THEN a[i] ELSE b[i - Len(a)]
  BY <1>1, <1>2, JoinType
<1> HIDE DEF j
<1>4. Len(s) = Len(j) /\ \A i \in 1 .. Len(s) : s[i] = j[i]
  <2>1. Len(s) = Len(j)
    BY <1>1, <1>2, <1>3
  <2> SUFFICES ASSUME NEW i \in 1 .. Len(s)
               PROVE  s[i] = j[i]
    BY <2>1
  <2>2. CASE i <= n
    BY <1>1, <1>2, <1>3, <2>2
  <2>3. CASE ~(i <= n)
    <3>1. i - n \in 1 .. Len(b) /\ n + (i - n) = i
      BY <1>2, <2>3
    <3>2. b[i - n] = s[n + (i - n)]
      BY <1>2, <3>1
    <3>3. j[i] = b[i - n]
      BY <1>1, <1>2, <1>3, <2>3
    <3> QED BY <3>1, <3>2, <3>3
  <2> QED BY <2>2, <2>3
<1>5. s = j
  BY <1>3, <1>4, SameSequence
<1> QED BY <1>1, <1>2, <1>5 DEF a, b, j

(* What a number leaves divided by another, for the pages of a table. *)
LEMMA Division ==
    ASSUME NEW k \in Nat, NEW m \in Nat, m # 0, NEW n \in Nat, k < n * m
    PROVE  /\ k \div m \in Nat /\ k % m \in Nat /\ k % m < m
           /\ k = (k \div m) * m + (k % m) /\ k \div m < n
<1>a. k \div m \in Int
  OBVIOUS
<1>b. k % m \in Int /\ 0 <= k % m /\ k % m < m
  OBVIOUS
<1>c. k = m * (k \div m) + (k % m)
  OBVIOUS
<1> DEFINE q == k \div m
           r == k % m
<1>2. q \in Int /\ r \in Int /\ 0 <= r /\ r < m /\ k = q * m + r
  BY <1>a, <1>b, <1>c
<1> HIDE DEF q, r
<1>3. q >= 0
  <2>1. ASSUME q < 0
        PROVE  FALSE
    <3>1. (-q - 1) * m >= 0
      BY <1>2, <2>1
    <3>2. q * m = -m - (-q - 1) * m
      BY <1>2
    <3> QED BY <1>2, <3>1, <3>2
  <2> QED BY <1>2, <2>1
<1>4. q < n
  <2>1. ASSUME q >= n
        PROVE  FALSE
    <3>1. (q - n) * m >= 0
      BY <1>2, <2>1
    <3>2. q * m = n * m + (q - n) * m
      BY <1>2
    <3> QED BY <1>2, <3>1, <3>2
  <2> QED BY <1>2, <2>1
<1> QED BY <1>2, <1>3, <1>4 DEF q, r

(* Skipping whole rows by a division, and the rest of a row, is skipping that many pairs. *)
LEMMA SimpleSkips ==
    ASSUME NEW A, NEW a \in Seq(A), NEW B, NEW b \in Seq(B), NEW skip \in Nat, skip < Len(a) * Len(b)
    PROVE  LET first == From(a, skip \div Len(b))
           IN From(Product(SubSeq(first, 1, 1), b), skip % Len(b)) \o Product(From(first, 1), b)
                = From(Product(a, b), skip)
<1> DEFINE m == Len(b)
           n == Len(a)
           q == skip \div m
           r == skip % m
           X == Candidates(A, B)
           head == SubSeq(a, 1, q)
           first == From(a, q)
           one == SubSeq(first, 1, 1)
           rest == From(first, 1)
<1>1. m \in Nat /\ n \in Nat
  OBVIOUS
<1>2. m # 0
  BY <1>1
<1>3. q \in Nat /\ r \in Nat /\ r < m /\ skip = q * m + r /\ q < n
  <2>1. skip < n * m
    OBVIOUS
  <2> HIDE DEF m, n
  <2> QED BY <1>1, <1>2, <2>1, Division
<1> HIDE DEF q, r
<1>4. head \in Seq(A) /\ Len(head) = q /\ first \in Seq(A) /\ Len(first) = n - q /\ a = head \o first
  BY <1>1, <1>3, SplitAt
<1> HIDE DEF head, first
<1>5. one \in Seq(A) /\ Len(one) = 1 /\ rest \in Seq(A) /\ first = one \o rest
  <2>1. 1 <= Len(first)
    BY <1>1, <1>3, <1>4
  <2> QED BY <1>4, <2>1, SplitAt
<1> HIDE DEF one, rest
<1> DEFINE P(s) == Product(s, b)
<1>p. \A s, t \in Seq(A) : /\ P(s \o t) = P(s) \o P(t)
                             /\ P(s) \in Seq(X) /\ Len(P(s)) = Len(s) * m
  <2>1. \A s, t \in Seq(A) : /\ Product(s \o t, b) = Product(s, b) \o Product(t, b)
                             /\ Product(s, b) \in Seq(Candidates(A, B))
                             /\ Len(Product(s, b)) = Len(s) * Len(b)
    BY ProductJoin, Zenon
  <2> QED BY <2>1, Zenon DEF X, m, P
<1> HIDE DEF P, X, m
<1>6. P(a) = P(head) \o P(first) /\ P(head) \in Seq(X) /\ Len(P(head)) = q * m
  BY <1>4, <1>p
<1>7. P(first) = P(one) \o P(rest) /\ P(one) \in Seq(X) /\ Len(P(one)) = 1 * m
  BY <1>5, <1>p
<1>8. P(rest) \in Seq(X) /\ P(first) \in Seq(X)
  BY <1>4, <1>5, <1>p
<1>9. From(P(head) \o P(first), skip) = From(P(first), skip - q * m)
  <2>1. skip >= Len(P(head)) /\ skip - Len(P(head)) = skip - q * m
    BY <1>1, <1>3, <1>6
  <2>2. From(P(head) \o P(first), skip) = From(P(first), skip - Len(P(head)))
    BY <1>6, <1>8, <2>1, FromJoin
  <2> QED BY <2>1, <2>2
<1>10. skip - q * m = r
  BY <1>1, <1>3
<1>11. From(P(one) \o P(rest), r) = From(P(one), r) \o P(rest)
  <2>1. r < Len(P(one))
    BY <1>1, <1>3, <1>7
  <2> QED BY <1>3, <1>7, <1>8, <2>1, FromJoin
<1>12. From(P(one), r) \o P(rest) = From(P(a), skip)
  BY <1>6, <1>7, <1>9, <1>10, <1>11
<1> QED BY <1>12 DEF P, one, rest, first, q, r, m

(* A list of different images of the members of a list. *)
LEMMA MappedQueue ==
    ASSUME NEW b, NEW B, Queue(b, B), NEW g, \A x, y \in B : g[x] = g[y] => x = y
    PROVE  Queue([i \in DOMAIN b |-> g[b[i]]], {g[y] : y \in B})
<1> DEFINE n == Len(b)
           r == [i \in DOMAIN b |-> g[b[i]]]
           C == {g[y] : y \in B}
<1>1. /\ n \in Nat /\ DOMAIN b = 1 .. n
      /\ \A i, j \in 1 .. n : b[i] = b[j] => i = j
      /\ \A i \in 1 .. n : b[i] \in B
      /\ \A y \in B : \E i \in 1 .. n : y = b[i]
  BY QueueType
<1> HIDE DEF n
<1>2. /\ r = [i \in 1 .. n |-> r[i]] /\ DOMAIN r = 1 .. n
      /\ \A i \in 1 .. n : r[i] = g[b[i]]
  BY <1>1
<1> HIDE DEF r
<1>3. r \in Seq(C) /\ Len(r) = n
  <2>1. \A i \in 1 .. n : r[i] \in C
    BY <1>1, <1>2
  <2> HIDE DEF C
  <2>2. r \in [1 .. n -> C]
    BY <1>2, <2>1
  <2> QED BY <1>1, <2>2
<1>4. IsInjective(r)
  <2> SUFFICES ASSUME NEW i \in 1 .. n, NEW j \in 1 .. n, r[i] = r[j]
               PROVE  i = j
    BY <1>2 DEF IsInjective
  <2>1. b[i] = b[j]
    BY <1>1, <1>2
  <2> QED BY <1>1, <2>1
<1>5. Range(r) = C
  <2>1. \A c \in C : \E i \in 1 .. n : c = r[i]
    BY <1>1, <1>2
  <2>2. \A i \in 1 .. n : r[i] \in C
    BY <1>1, <1>2
  <2> HIDE DEF C
  <2> QED BY <1>2, <2>1, <2>2 DEF Range
<1> QED BY <1>3, <1>4, <1>5 DEF Queue, r, n

-----------------------------------------------------------------------------
(* Lists of packages.                                                      *)

(* The lists in A hold the packages in F: one list of the players of every package. *)
Arranges(A, F) ==
  /\ \A q \in A : Queue(q, Range(q)) /\ Range(q) \in F
  /\ \A q, r \in A : Range(q) = Range(r) => q = r
  /\ \A S \in F : \E q \in A : Range(q) = S

\* s lists the packages in F.
Catalogues(s, F) == \E A : Queue(s, A) /\ Arranges(A, F)

(* Lists of different packages join to a list of both. *)
LEMMA CataloguesJoin ==
    ASSUME NEW s, NEW F, Catalogues(s, F), NEW t, NEW G, Catalogues(t, G), F \cap G = {}
    PROVE  Catalogues(s \o t, F \cup G)
<1>1. PICK A : Queue(s, A) /\ Arranges(A, F)
  BY Zenon DEF Catalogues
<1>2. PICK B : Queue(t, B) /\ Arranges(B, G)
  BY Zenon DEF Catalogues
<1>3. A \cap B = {}
  <2> SUFFICES ASSUME NEW q \in A, q \in B
               PROVE  FALSE
    OBVIOUS
  <2>1. Range(q) \in F /\ Range(q) \in G
    BY <1>1, <1>2 DEF Arranges
  <2> QED BY <2>1
<1>4. Queue(s \o t, A \cup B)
  BY <1>1, <1>2, <1>3, QueuesJoin
<1>5. Arranges(A \cup B, F \cup G)
  <2>1. \A q \in A : Queue(q, Range(q)) /\ Range(q) \in F
    BY <1>1 DEF Arranges
  <2>2. \A q \in B : Queue(q, Range(q)) /\ Range(q) \in G
    BY <1>2 DEF Arranges
  <2>3. \A q, r \in A \cup B : Range(q) = Range(r) => q = r
    <3> SUFFICES ASSUME NEW q \in A \cup B, NEW r \in A \cup B, Range(q) = Range(r)
                 PROVE  q = r
      OBVIOUS
    <3>1. CASE q \in A /\ r \in A
      BY <1>1, <3>1 DEF Arranges
    <3>2. CASE q \in B /\ r \in B
      BY <1>2, <3>2 DEF Arranges
    <3>3. CASE ~(q \in A /\ r \in A) /\ ~(q \in B /\ r \in B)
      <4>1. Range(q) \in F /\ Range(q) \in G
        BY <2>1, <2>2, <3>3
      <4> QED BY <4>1
    <3> QED BY <3>1, <3>2, <3>3
  <2>4. \A S \in F \cup G : \E q \in A \cup B : Range(q) = S
    BY <1>1, <1>2 DEF Arranges
  <2> QED BY <2>1, <2>2, <2>3, <2>4 DEF Arranges
<1>6. \E C : Queue(s \o t, C) /\ Arranges(C, F \cup G)
  BY <1>4, <1>5
<1> QED BY <1>6, Zenon DEF Catalogues

\* One more player at the head of every list.
Prefixed(p, t) == [c \in DOMAIN t |-> <<p>> \o t[c]]

\* One more player in every package.
WithPlayer(G, p) == {S \cup {p} : S \in G}

(* One more player at the head of every list. *)
LEMMA CataloguesPrefixed ==
    ASSUME NEW t, NEW G, Catalogues(t, G), NEW p, \A S \in G : p \notin S
    PROVE  Catalogues(Prefixed(p, t), WithPlayer(G, p))
<1>1. PICK B : Queue(t, B) /\ Arranges(B, G)
  BY Zenon DEF Catalogues
<1> DEFINE g == [q \in B |-> <<p>> \o q]
           A == {g[q] : q \in B}
           F == {S \cup {p} : S \in G}
           r == [c \in DOMAIN t |-> g[t[c]]]
<1>2. Queue(<<p>>, {p})
  <2>1. <<p>> \in Seq({p}) /\ Len(<<p>>) = 1 /\ <<p>>[1] = p /\ DOMAIN <<p>> = 1 .. 1
    OBVIOUS
  <2>2. IsInjective(<<p>>)
    BY <2>1 DEF IsInjective
  <2>3. Range(<<p>>) = {p}
    BY <2>1 DEF Range
  <2> QED BY <2>1, <2>2, <2>3 DEF Queue
<1>3. ASSUME NEW q \in B
      PROVE  /\ g[q] = <<p>> \o q /\ Queue(g[q], {p} \cup Range(q)) /\ Range(g[q]) = {p} \cup Range(q)
             /\ p \notin Range(q) /\ Range(q) \in G
  <2>1. Queue(q, Range(q)) /\ Range(q) \in G
    BY <1>1 DEF Arranges
  <2>2. p \notin Range(q)
    BY <2>1
  <2>3. Queue(<<p>> \o q, {p} \cup Range(q))
    <3>1. {p} \cap Range(q) = {}
      BY <2>2
    <3> QED BY <1>2, <2>1, <3>1, QueuesJoin
  <2>4. g[q] = <<p>> \o q
    OBVIOUS
  <2> HIDE DEF g
  <2>5. Queue(g[q], {p} \cup Range(q))
    BY <2>3, <2>4
  <2> QED BY <2>1, <2>2, <2>4, <2>5 DEF Queue
<1> HIDE DEF g
<1>4. \A q, w \in B : Range(g[q]) = Range(g[w]) => q = w
  <2> SUFFICES ASSUME NEW q \in B, NEW w \in B, Range(g[q]) = Range(g[w])
               PROVE  q = w
    OBVIOUS
  <2>1. {p} \cup Range(q) = {p} \cup Range(w) /\ p \notin Range(q) /\ p \notin Range(w)
    BY <1>3
  <2>2. ASSUME NEW R, NEW T, {p} \cup R = {p} \cup T, p \notin R, p \notin T
        PROVE  R = T
    BY ONLY <2>2
  <2>3. Range(q) = Range(w)
    BY <2>1, <2>2
  <2> QED BY <1>1, <2>3 DEF Arranges
<1>5. Queue(r, A)
  <2>1. \A q, w \in B : g[q] = g[w] => q = w
    BY <1>4
  <2> QED BY <1>1, <2>1, MappedQueue
<1>6. r = [c \in DOMAIN t |-> <<p>> \o t[c]]
  <2>1. \A c \in DOMAIN t : t[c] \in B
    BY <1>1, QueueType
  <2> QED BY <1>3, <2>1
<1>7. Arranges(A, F)
  <2>1. ASSUME NEW a \in A
        PROVE  Queue(a, Range(a)) /\ Range(a) \in F
    <3>1. PICK q \in B : a = g[q]
      OBVIOUS
    <3>2. {p} \cup Range(q) = Range(q) \cup {p}
      OBVIOUS
    <3> QED BY <1>3, <3>1, <3>2
  <2>2. \A a, b \in A : Range(a) = Range(b) => a = b
    BY <1>4
  <2>3. ASSUME NEW S \in F
        PROVE  \E a \in A : Range(a) = S
    <3>1. PICK T \in G : S = T \cup {p}
      OBVIOUS
    <3>2. PICK q \in B : Range(q) = T
      BY <1>1 DEF Arranges
    <3>3. Range(g[q]) = S
      BY <1>3, <3>1, <3>2
    <3> QED BY <3>3
  <2> HIDE DEF A, F
  <2> QED BY <2>1, <2>2, <2>3 DEF Arranges
<1> HIDE DEF r, A, F
<1>8. Catalogues(r, F)
  BY <1>5, <1>7, Zenon DEF Catalogues
<1>9. r = Prefixed(p, t) /\ F = WithPlayer(G, p)
  BY <1>6, Zenon DEF Prefixed, WithPlayer, F
<1> QED BY <1>8, <1>9

(* The list of the packages that satisfy a condition on their players. *)
LEMMA CataloguesSelected ==
    ASSUME NEW s, NEW F, Catalogues(s, F), NEW G \in SUBSET F, NEW K,
           \A q \in Range(s) : q \in K <=> Range(q) \in G
    PROVE  Catalogues(Selected(s, K), G)
<1>1. PICK A : Queue(s, A) /\ Arranges(A, F)
  BY Zenon DEF Catalogues
<1>2. Range(s) = A
  BY <1>1, QueueType
<1>3. Queue(Selected(s, K), A \cap K)
  BY <1>1, SelectedQueue
<1>4. Arranges(A \cap K, G)
  <2>1. \A q \in A \cap K : Queue(q, Range(q)) /\ Range(q) \in G
    BY <1>1, <1>2 DEF Arranges
  <2>2. \A q, r \in A \cap K : Range(q) = Range(r) => q = r
    BY <1>1 DEF Arranges
  <2>3. \A S \in G : \E q \in A \cap K : Range(q) = S
    <3> TAKE S \in G
    <3>1. PICK q \in A : Range(q) = S
      BY <1>1 DEF Arranges
    <3> QED BY <1>2, <3>1
  <2> QED BY <2>1, <2>2, <2>3 DEF Arranges
<1> QED BY <1>3, <1>4, Zenon DEF Catalogues

(* As many lists as packages. *)
LEMMA CatalogueSize ==
    ASSUME NEW s, NEW F, Catalogues(s, F)
    PROVE  /\ Len(s) = Cardinality(F) /\ IsFiniteSet(F)
           /\ \A S \in F : IsFiniteSet(S)
<1>1. PICK A : Queue(s, A) /\ Arranges(A, F)
  BY Zenon DEF Catalogues
<1>2. IsFiniteSet(A) /\ Len(s) = Cardinality(A)
  BY <1>1, QueueType
<1> DEFINE b == [q \in A |-> Range(q)]
<1>3. b \in Bijection(A, F)
  <2>1. b \in [A -> F] /\ \A q \in A : b[q] = Range(q)
    BY <1>1 DEF Arranges
  <2> HIDE DEF b
  <2>2. b \in Injection(A, F)
    BY <1>1, <2>1 DEF Arranges, Injection, IsInjective
  <2>3. b \in Surjection(A, F)
    <3>1. \A S \in F : \E q \in A : b[q] = S
      BY <1>1, <2>1 DEF Arranges
    <3> QED BY <2>1, <3>1 DEF Surjection
  <2> QED BY <2>2, <2>3 DEF Bijection
<1>4. IsFiniteSet(F) /\ Cardinality(F) = Cardinality(A)
  BY <1>2, <1>3, FS_Bijection DEF ExistsBijection
<1>5. \A S \in F : IsFiniteSet(S)
  <2> TAKE S \in F
  <2>1. PICK q \in A : Range(q) = S
    BY <1>1 DEF Arranges
  <2>2. Queue(q, S)
    BY <1>1, <2>1 DEF Arranges
  <2> QED BY <2>2, QueueType
<1> QED BY <1>2, <1>4, <1>5

(* The packages of a size, of players and one more. *)
LEMMA SizesGrow ==
    ASSUME NEW P, IsFiniteSet(P), NEW p, p \notin P, NEW n \in Nat, n # 0
    PROVE  /\ OfSize(P \cup {p}, n) = WithPlayer(OfSize(P, n - 1), p) \cup OfSize(P, n)
           /\ WithPlayer(OfSize(P, n - 1), p) \cap OfSize(P, n) = {}
           /\ \A S \in OfSize(P, n - 1) : p \notin S
<1> DEFINE F == WithPlayer(OfSize(P, n - 1), p)
<1> USE DEF WithPlayer
<1>1. \A S \in SUBSET P : /\ IsFiniteSet(S) /\ Cardinality(S) \in Nat /\ p \notin S
                          /\ Cardinality(S \cup {p}) = Cardinality(S) + 1
  <2> TAKE S \in SUBSET P
  <2>1. IsFiniteSet(S) /\ p \notin S
    BY FS_Subset
  <2>2. Cardinality(S) \in Nat /\ Cardinality(S \cup {p}) = Cardinality(S) + 1
    BY <2>1, FS_AddElement, FS_CardinalityType
  <2> QED BY <2>1, <2>2
<1>2. \A S \in F : S \in OfSize(P \cup {p}, n) /\ p \in S
  <2> SUFFICES ASSUME NEW S \in OfSize(P, n - 1)
               PROVE  S \cup {p} \in OfSize(P \cup {p}, n)
    OBVIOUS
  <2>1. S \in SUBSET P /\ Cardinality(S) = n - 1
    BY DEF OfSize
  <2>2. Cardinality(S \cup {p}) = n
    <3>1. Cardinality(S \cup {p}) = Cardinality(S) + 1
      BY <1>1, <2>1
    <3> QED BY <2>1, <3>1
  <2> QED BY <2>1, <2>2 DEF OfSize
<1>3. \A S \in OfSize(P, n) : S \in OfSize(P \cup {p}, n) /\ p \notin S
  BY DEF OfSize
<1>4. ASSUME NEW S \in OfSize(P \cup {p}, n)
      PROVE  S \in F \cup OfSize(P, n)
  <2>1. S \subseteq P \cup {p} /\ Cardinality(S) = n
    BY DEF OfSize
  <2>2. CASE p \in S
    <3> DEFINE T == S \ {p}
    <3>1. T \in SUBSET P /\ S = T \cup {p}
      BY <2>1, <2>2
    <3>2. Cardinality(T) \in Nat /\ Cardinality(T) + 1 = n
      BY <1>1, <2>1, <3>1
    <3>3. T \in OfSize(P, n - 1)
      BY <3>1, <3>2 DEF OfSize
    <3> QED BY <3>1, <3>3
  <2>3. CASE p \notin S
    BY <2>1, <2>3 DEF OfSize
  <2> QED BY <2>2, <2>3
<1>5. \A S \in OfSize(P, n - 1) : p \notin S
  BY DEF OfSize
<1> HIDE DEF F
<1>6. OfSize(P \cup {p}, n) = F \cup OfSize(P, n) /\ F \cap OfSize(P, n) = {}
  BY <1>2, <1>3, <1>4
<1> QED BY <1>5, <1>6 DEF F

\* The choices among the players from the i-th, by those from the next.
ChoicesFrom(players, size, i, f) ==
  [n \in 0 .. size |->
     IF n = 0 THEN << <<>> >>
     ELSE IF i > Len(players) THEN <<>>
     ELSE Prefixed(players[i], f[i + 1][n - 1]) \o f[i + 1][n]]

(* What the choice of players recurses on. *)
LEMMA CombinationsUnfold ==
    ASSUME NEW players, NEW size
    PROVE  Combinations(players, size)
             = (CHOOSE f : f = [i \in 1 .. Len(players) + 1 |-> ChoicesFrom(players, size, i, f)])[1][size]
BY Zenon DEF Combinations, ChoicesFrom, Prefixed

(* The choices exist. *)
LEMMA ChoicesExist ==
    ASSUME NEW X, NEW players \in Seq(X), NEW size \in Nat
    PROVE  \E f : f = [i \in 1 .. Len(players) + 1 |-> ChoicesFrom(players, size, i, f)]
<1> DEFINE n == Len(players)
           D == 1 .. n + 1
           Q == Seq(Seq(X))
           N == 0 .. size
           V == [N -> Q]
           Body(i, f) == ChoicesFrom(players, size, i, f)
           rank == [i \in D |-> n + 1 - i]
           Step == [x \in D \X [D -> V] |-> Body(x[1], x[2])]
<1>1. n \in Nat /\ \A i \in 1 .. n : players[i] \in X
  OBVIOUS
<1> HIDE DEF n
<1>2. rank \in [D -> Nat] /\ \A i \in D : rank[i] = n + 1 - i
  BY <1>1
<1>3. \A i \in D : i <= n => i + 1 \in D /\ rank[i + 1] < rank[i] /\ players[i] \in X
  BY <1>1
<1>4. \A k \in N : k # 0 => k - 1 \in N
  OBVIOUS
<1> HIDE DEF D, N, rank
<1>5. <<>> \in Q /\ << <<>> >> \in Q
  OBVIOUS
<1>6. \A p \in X : \A t \in Q : Prefixed(p, t) \in Q
  <2> SUFFICES ASSUME NEW p \in X, NEW t \in Q
               PROVE  Prefixed(p, t) \in Q
    OBVIOUS
  <2>1. DOMAIN t = 1 .. Len(t) /\ Len(t) \in Nat /\ \A c \in 1 .. Len(t) : t[c] \in Seq(X)
    OBVIOUS
  <2>2. \A q \in Seq(X) : <<p>> \o q \in Seq(X)
    OBVIOUS
  <2>3. Prefixed(p, t) \in [1 .. Len(t) -> Seq(X)]
    BY <2>1, <2>2 DEF Prefixed
  <2>4. \A k \in Nat : \A z \in [1 .. k -> Seq(X)] : z \in Seq(Seq(X))
    OBVIOUS
  <2> QED BY <2>1, <2>3, <2>4
<1>7. \A s, t \in Q : s \o t \in Q
  OBVIOUS
<1> HIDE DEF Q
<1>8. ASSUME NEW i \in D, NEW f \in [D -> V]
      PROVE  Body(i, f) \in V
  <2>1. ASSUME NEW k \in N, k # 0, i <= n
        PROVE  Prefixed(players[i], f[i + 1][k - 1]) \o f[i + 1][k] \in Q
    <3>1. i + 1 \in D /\ players[i] \in X /\ k - 1 \in N
      BY <1>3, <1>4, <2>1
    <3>2. f[i + 1] \in V
      BY <3>1
    <3>3. f[i + 1][k - 1] \in Q /\ f[i + 1][k] \in Q
      BY <3>1, <3>2
    <3>4. Prefixed(players[i], f[i + 1][k - 1]) \in Q
      BY <1>6, <3>1, <3>3
    <3> QED BY <1>7, <3>3, <3>4
  <2>2. i > n <=> ~(i <= n)
    BY <1>1 DEF D
  <2>3. Body(i, f) = [k \in N |-> IF k = 0 THEN << <<>> >> ELSE IF i > n THEN <<>>
                                  ELSE Prefixed(players[i], f[i + 1][k - 1]) \o f[i + 1][k]]
    BY DEF ChoicesFrom, N, n
  <2> QED BY <1>5, <2>1, <2>2, <2>3
<1>9. ASSUME NEW i \in D, NEW f \in [D -> V], NEW g \in [D -> V],
             \A j \in D : rank[j] < rank[i] => f[j] = g[j]
      PROVE  Body(i, f) = Body(i, g)
  <2>1. CASE i <= n
    <3>1. f[i + 1] = g[i + 1]
      BY <1>3, <1>9, <2>1
    <3> QED BY <3>1 DEF ChoicesFrom
  <2>2. CASE ~(i <= n)
    <3>1. i > Len(players)
      BY <1>1, <2>2 DEF D, n
    <3> QED BY <3>1 DEF ChoicesFrom
  <2> QED BY <2>1, <2>2
<1>10. LooksBelow(D, V, rank, Step)
  <2> HIDE DEF Body, V
  <2>2. Step \in [D \X [D -> V] -> V]
    BY <1>8
  <2>3. ASSUME NEW i \in D, NEW f \in [D -> V], NEW g \in [D -> V],
               \A j \in D : rank[j] < rank[i] => f[j] = g[j]
        PROVE  Step[<<i, f>>] = Step[<<i, g>>]
    <3>1. Body(i, f) = Body(i, g)
      BY <1>9, <2>3
    <3> QED BY <3>1
  <2> HIDE DEF Step
  <2> QED BY <1>2, <2>2, <2>3 DEF LooksBelow
<1>11. PICK f \in [D -> V] : \A x \in D : f[x] = Step[<<x, f>>]
  <2> HIDE DEF Step
  <2>1. IsInhabited(V)
    <3>1. [k \in N |-> <<>>] \in V
      BY <1>5
    <3> QED BY <3>1 DEF IsInhabited
  <2> HIDE DEF V
  <2>2. IsInhabited(Solutions(D, V, Step))
    BY <1>10, <2>1, RecursionExists
  <2> QED BY <2>2 DEF Solutions, IsInhabited
<1>12. \A i \in D : f[i] = Body(i, f)
  <2> HIDE DEF Body, V
  <2> QED BY <1>11
<1>13. f = [i \in D |-> f[i]]
  <2> HIDE DEF V
  <2> QED BY <1>11
<1> HIDE DEF Body
<1>14. f = [i \in D |-> Body(i, f)]
  BY <1>12, <1>13
<1> QED BY <1>14, Zenon DEF D, n, Body

(* itertools.combinations lists the packages of a size, each once. *)
LEMMA CombinationsList ==
    ASSUME NEW players, NEW P, Queue(players, P), NEW size \in Nat
    PROVE  Catalogues(Combinations(players, size), OfSize(P, size))
<1> DEFINE m == Len(players)
           Later(i) == {players[j] : j \in i .. m}
<1>1. /\ players \in Seq(P) /\ m \in Nat /\ Range(players) = P /\ DOMAIN players = 1 .. m
      /\ \A i, j \in 1 .. m : players[i] = players[j] => i = j
      /\ \A i \in 1 .. m : players[i] \in P
      /\ \A x \in P : \E i \in 1 .. m : x = players[i]
      /\ IsFiniteSet(P)
  BY QueueType
<1> DEFINE f == CHOOSE f : f = [i \in 1 .. Len(players) + 1 |-> ChoicesFrom(players, size, i, f)]
<1>2. f = [i \in 1 .. m + 1 |-> ChoicesFrom(players, size, i, f)]
  <2>1. \E g : g = [i \in 1 .. Len(players) + 1 |-> ChoicesFrom(players, size, i, g)]
    BY <1>1, ChoicesExist
  <2> QED BY <2>1, Zenon
<1>3. Combinations(players, size) = f[1][size]
  BY CombinationsUnfold, Zenon
<1> HIDE DEF f
<1>4. \A i \in 1 .. m + 1 : \A n \in 0 .. size :
        f[i][n] = IF n = 0 THEN << <<>> >> ELSE IF i > m THEN <<>>
                  ELSE Prefixed(players[i], f[i + 1][n - 1]) \o f[i + 1][n]
  <2> TAKE i \in 1 .. m + 1
  <2>1. f[i] = ChoicesFrom(players, size, i, f)
    BY <1>2
  <2> QED BY <2>1 DEF ChoicesFrom
<1>5. Later(m + 1) = {} /\ Later(1) = P
  <2>1. \A j : j \in m + 1 .. m => FALSE
    BY <1>1
  <2>2. \A x \in Later(1) : x \in P
    BY <1>1
  <2>3. \A x \in P : x \in Later(1)
    BY <1>1
  <2> QED BY <2>1, <2>2, <2>3
<1>6. \A i \in 1 .. m : /\ Later(i) = Later(i + 1) \cup {players[i]}
                        /\ players[i] \notin Later(i + 1) /\ IsFiniteSet(Later(i + 1))
  <2> TAKE i \in 1 .. m
  <2>1. i + 1 .. m \subseteq 1 .. m /\ i \notin i + 1 .. m /\ i .. m = (i + 1 .. m) \cup {i}
    BY <1>1
  <2>2. Later(i) = Later(i + 1) \cup {players[i]}
    BY <2>1
  <2>3. players[i] \notin Later(i + 1)
    BY <1>1, <2>1
  <2>4. Later(i + 1) \subseteq P
    BY <1>1, <2>1
  <2> HIDE DEF Later
  <2>5. IsFiniteSet(Later(i + 1))
    BY <1>1, <2>4, FS_Subset
  <2> QED BY <2>2, <2>3, <2>5
<1> HIDE DEF Later
<1> DEFINE Good(i) == \A n \in 0 .. size : Catalogues(f[i][n], OfSize(Later(i), n))
           N == {d \in Nat : d <= m => Good(m + 1 - d)}
<1>7. Catalogues(<< <<>> >>, {{}}) /\ Catalogues(<<>>, {})
  <2>1. Queue(<<>>, {}) /\ Range(<<>>) = {}
    <3>1. <<>> \in Seq({}) /\ DOMAIN <<>> = {}
      OBVIOUS
    <3> QED BY <3>1 DEF Queue, Range, IsInjective
  <2>2. Queue(<< <<>> >>, {<<>>})
    <3>1. << <<>> >> \in Seq({<<>>}) /\ DOMAIN << <<>> >> = {1} /\ << <<>> >>[1] = <<>>
      OBVIOUS
    <3>2. Range(<< <<>> >>) = {<<>>}
      BY <3>1 DEF Range
    <3>3. IsInjective(<< <<>> >>)
      BY <3>1 DEF IsInjective
    <3> QED BY <3>1, <3>2, <3>3 DEF Queue
  <2>3. Arranges({<<>>}, {{}}) /\ Arranges({}, {})
    BY <2>1 DEF Arranges
  <2> QED BY <2>1, <2>2, <2>3, Zenon DEF Catalogues
<1>8. \A Q : IsFiniteSet(Q) => OfSize(Q, 0) = {{}}
  <2> SUFFICES ASSUME NEW Q, IsFiniteSet(Q)
               PROVE  OfSize(Q, 0) = {{}}
    OBVIOUS
  <2>1. \A S \in SUBSET Q : Cardinality(S) = 0 <=> S = {}
    BY FS_Subset, FS_EmptySet
  <2> QED BY <2>1 DEF OfSize
<1>9. \A n \in Nat : n # 0 => OfSize({}, n) = {}
  <2>1. \A S \in SUBSET {} : Cardinality(S) = 0
    BY FS_EmptySet
  <2> QED BY <2>1 DEF OfSize
<1>10. \A i \in 1 .. m + 1 : IsFiniteSet(Later(i))
  <2> TAKE i \in 1 .. m + 1
  <2>1. CASE i = m + 1
    BY <1>5, <2>1, FS_EmptySet
  <2>2. CASE i # m + 1
    <3>1. i \in 1 .. m
      BY <1>1, <2>2
    <3>2. Later(i) = Later(i + 1) \cup {players[i]} /\ IsFiniteSet(Later(i + 1))
      BY <1>6, <3>1
    <3> QED BY <3>2, FS_AddElement
  <2> QED BY <2>1, <2>2
<1>11. Good(m + 1)
  <2> SUFFICES ASSUME NEW n \in 0 .. size
               PROVE  Catalogues(f[m + 1][n], OfSize(Later(m + 1), n))
    OBVIOUS
  <2>0. m + 1 \in 1 .. m + 1 /\ m + 1 > m /\ n \in Nat
    BY <1>1
  <2>1. CASE n = 0
    <3>1. f[m + 1][n] = << <<>> >>
      BY <1>4, <2>0, <2>1
    <3>2. OfSize(Later(m + 1), n) = {{}}
      BY <1>8, <1>10, <2>0, <2>1
    <3> QED BY <1>7, <3>1, <3>2
  <2>2. CASE n # 0
    <3>1. f[m + 1][n] = <<>>
      BY <1>4, <2>0, <2>2
    <3>2. OfSize(Later(m + 1), n) = {}
      BY <1>5, <1>9, <2>0, <2>2
    <3> QED BY <1>7, <3>1, <3>2
  <2> QED BY <2>1, <2>2
<1>12. ASSUME NEW i \in 1 .. m, Good(i + 1)
       PROVE  Good(i)
  <2> SUFFICES ASSUME NEW n \in 0 .. size
               PROVE  Catalogues(f[i][n], OfSize(Later(i), n))
    OBVIOUS
  <2>0. i \in 1 .. m + 1 /\ ~(i > m) /\ n \in Nat
    BY <1>1
  <2>1. CASE n = 0
    <3>1. f[i][n] = << <<>> >>
      BY <1>4, <2>0, <2>1
    <3>2. OfSize(Later(i), n) = {{}}
      BY <1>8, <1>10, <2>0, <2>1
    <3> QED BY <1>7, <3>1, <3>2
  <2>2. CASE n # 0
    <3> DEFINE p == players[i]
               Q == Later(i + 1)
               t == f[i + 1][n - 1]
               u == f[i + 1][n]
               F == WithPlayer(OfSize(Q, n - 1), p)
    <3>1. f[i][n] = Prefixed(p, t) \o u
      BY <1>4, <2>0, <2>2
    <3>2. Catalogues(t, OfSize(Q, n - 1)) /\ Catalogues(u, OfSize(Q, n))
      <4>1. n - 1 \in 0 .. size
        BY <2>2
      <4> QED BY <1>12, <4>1
    <3>3. Later(i) = Q \cup {p} /\ p \notin Q /\ IsFiniteSet(Q)
      BY <1>6
    <3> HIDE DEF p, Q, t, u
    <3>4. /\ OfSize(Q \cup {p}, n) = F \cup OfSize(Q, n) /\ F \cap OfSize(Q, n) = {}
          /\ \A S \in OfSize(Q, n - 1) : p \notin S
      BY <2>0, <2>2, <3>3, SizesGrow
    <3>5. Catalogues(Prefixed(p, t), F)
      BY <3>2, <3>4, CataloguesPrefixed
    <3> HIDE DEF F
    <3>6. Catalogues(Prefixed(p, t) \o u, F \cup OfSize(Q, n))
      BY <3>2, <3>4, <3>5, CataloguesJoin
    <3> QED BY <3>1, <3>3, <3>4, <3>6
  <2> QED BY <2>1, <2>2
<1>13. \A d \in Nat : d \in N
  <2>1. 0 \in N
    BY <1>1, <1>11
  <2>2. ASSUME NEW d \in Nat, d \in N
        PROVE  d + 1 \in N
    <3>1. CASE d + 1 <= m
      <4>1. m + 1 - (d + 1) \in 1 .. m /\ m + 1 - (d + 1) + 1 = m + 1 - d /\ d <= m
        BY <1>1, <3>1
      <4>2. Good(m + 1 - d)
        BY <2>2, <4>1
      <4> HIDE DEF Good
      <4>3. Good(m + 1 - (d + 1))
        BY <1>12, <4>1, <4>2
      <4> QED BY <4>3
    <3>2. CASE ~(d + 1 <= m)
      BY <3>2
    <3> QED BY <3>1, <3>2
  <2> HIDE DEF N
  <2> QED BY <2>1, <2>2, AllNaturals
<1>14. Good(1)
  <2>1. m \in N /\ m + 1 - m = 1
    BY <1>1, <1>13
  <2> HIDE DEF Good
  <2> QED BY <1>1, <2>1
<1> QED BY <1>3, <1>5, <1>14

-----------------------------------------------------------------------------
(* The packages that a filter accepts.                                     *)

\* The packages of a side that its filter accepts.
Accepted(filter, U, size) == {S \in OfSize(U, size) : FilterHolds(filter, S)}

(* A rule of an expression, whoever it names. *)
LEMMA AnyRule ==
    ASSUME NEW filter, NEW i \in Rules(filter), NEW U, NEW package, package \subseteq U
    PROVE  LET E == UNION {EvidenceOf(filter, p, U) : p \in package}
           IN (RequiredEvidence(filter, i) \subseteq E /\ ForbiddenEvidence(i) \cap E = {})
                <=> RuleHolds(filter[i], package)
<1> DEFINE E == UNION {EvidenceOf(filter, p, U) : p \in package}
<1>1. CASE Required(filter[i]) \subseteq U
  BY <1>1, ExpressionRule
<1>2. CASE ~(Required(filter[i]) \subseteq U)
  <2>1. PICK q \in Required(filter[i]) : q \notin U
    BY <1>2
  <2>2. ~RuleHolds(filter[i], package)
    <3>1. ~(Required(filter[i]) \subseteq package)
      BY <2>1
    <3> QED BY <3>1, RuleIsJudged
  <2>3. <<i, "player", q>> \in RequiredEvidence(filter, i)
    BY <2>1 DEF RequiredEvidence
  <2>4. ASSUME NEW p \in package, <<i, "player", q>> \in EvidenceOf(filter, p, U)
        PROVE  FALSE
    <3> DEFINE Trusts(j) == ~Excluded(filter[j], p) /\ Required(filter[j]) \subseteq U
               Refuses(j) == Trusts(j) /\ (\/ filter[j].positionMode = "only" /\ ~(Covers(filter[j], p) # {})
                                           \/ filter[j].positionMode = "exclude" /\ Covers(filter[j], p) # {})
               A(j) == {<<j, "player", x>> : x \in Required(filter[j]) \cap {p}}
               B(j) == IF Excluded(filter[j], p) THEN {<<j, "forbidden player">>} ELSE {}
               C(j) == IF Trusts(j) THEN {<<j, "position", x>> : x \in Target(filter[j]) \cap PositionsOf[p]} ELSE {}
               D(j) == IF Refuses(j) THEN {<<j, "forbidden position">>} ELSE {}
    <3>1. EvidenceOf(filter, p, U) = UNION {A(j) \cup B(j) \cup C(j) \cup D(j) : j \in Rules(filter)}
      BY DEF EvidenceOf
    <3>2. \A j : /\ <<i, "player", q>> \in A(j) => q = p
                 /\ <<i, "player", q>> \notin B(j) /\ <<i, "player", q>> \notin C(j) /\ <<i, "player", q>> \notin D(j)
      OBVIOUS
    <3> HIDE DEF A, B, C, D
    <3>3. q = p
      BY <2>4, <3>1, <3>2
    <3> QED BY <2>1, <3>3
  <2>5. <<i, "player", q>> \notin E
    BY <2>4
  <2> HIDE DEF E
  <2>6. ~(RequiredEvidence(filter, i) \subseteq E)
    BY <2>3, <2>5
  <2> QED BY <2>2, <2>6 DEF E
<1> QED BY <1>1, <1>2

(* An expression judges a package by its evidence. *)
LEMMA AnyExpression ==
    ASSUME NEW filter, NEW U, NEW package, package \subseteq U
    PROVE  EvidenceMatches(filter, UNION {EvidenceOf(filter, p, U) : p \in package})
             <=> Formula(filter, {i \in Rules(filter) : RuleHolds(filter[i], package)})
<1> DEFINE E == UNION {EvidenceOf(filter, p, U) : p \in package}
           H == {i \in Rules(filter) : RequiredEvidence(filter, i) \subseteq E /\ ForbiddenEvidence(i) \cap E = {}}
           K == {i \in Rules(filter) : RuleHolds(filter[i], package)}
<1>1. \A i \in Rules(filter) :
        (RequiredEvidence(filter, i) \subseteq E /\ ForbiddenEvidence(i) \cap E = {}) <=> RuleHolds(filter[i], package)
  BY AnyRule
<1>2. EvidenceMatches(filter, E) = Formula(filter, H)
  BY Zenon DEF EvidenceMatches
<1> HIDE DEF E
<1>3. H = K
  BY <1>1
<1> HIDE DEF H, K
<1>4. EvidenceMatches(filter, E) = Formula(filter, K)
  BY <1>2, <1>3
<1> QED BY <1>4 DEF E, K

(* A filter of one rule holds if its rule does. *)
LEMMA OneRuleHolds ==
    ASSUME NEW filter, IsFilter(filter), IsLegacy(filter), NEW package
    PROVE  FilterHolds(filter, package) <=>
             /\ \A p \in package : Permits(filter[1], p)
             /\ Required(filter[1]) \subseteq package
             /\ Target(filter[1]) \subseteq UNION {Covers(filter[1], p) : p \in package}
<1>1. Rules(filter) = {1} /\ (\A H : Formula(filter, H) <=> 1 \in H) /\ filter # <<>>
  <2>1. Len(filter) = 1 /\ filter # <<>>
    BY DEF IsLegacy
  <2> QED BY <2>1, OneRule
<1>2. FilterHolds(filter, package) <=> RuleHolds(filter[1], package)
  <2>1. FilterHolds(filter, package) <=> Formula(filter, {i \in Rules(filter) : RuleHolds(filter[i], package)})
    BY <1>1 DEF FilterHolds
  <2>2. 1 \in {i \in Rules(filter) : RuleHolds(filter[i], package)} <=> RuleHolds(filter[1], package)
    BY <1>1
  <2> HIDE DEF Rules, RuleHolds
  <2> QED BY <1>1, <2>1, <2>2
<1> QED BY <1>2, RuleIsJudged

\* The packages between the players a rule requires and those it permits.
Between(R, A, n) == {S \in SUBSET A : R \subseteq S /\ Cardinality(S) = n}

\* The required players and the chosen ones.
WithAll(R, F) == {R \cup T : T \in F}

(* A package with the required players is a choice of the others. *)
LEMMA BetweenIsChosen ==
    ASSUME NEW A, IsFiniteSet(A), NEW R \in SUBSET A, NEW n \in Nat, Cardinality(R) <= n
    PROVE  /\ WithAll(R, OfSize(A \ R, n - Cardinality(R))) = Between(R, A, n)
           /\ \A T \in OfSize(A \ R, n - Cardinality(R)) : T \cap R = {} /\ R \cup T \in Between(R, A, n)
<1> DEFINE k == n - Cardinality(R)
           C == OfSize(A \ R, k)
<1>1. /\ IsFiniteSet(R) /\ Cardinality(R) \in Nat
      /\ \A T \in SUBSET (A \ R) : /\ IsFiniteSet(T) /\ Cardinality(T) \in Nat
                                   /\ Cardinality(R \cup T) = Cardinality(R) + Cardinality(T)
  <2>1. IsFiniteSet(R) /\ Cardinality(R) \in Nat
    BY FS_Subset, FS_CardinalityType
  <2>2. ASSUME NEW T \in SUBSET (A \ R)
        PROVE  IsFiniteSet(T) /\ Cardinality(T) \in Nat /\ Cardinality(R \cup T) = Cardinality(R) + Cardinality(T)
    <3>1. IsFiniteSet(T)
      BY FS_Subset
    <3>2. R \cap T = {}
      OBVIOUS
    <3> QED BY <2>1, <3>1, <3>2, UnionOfApart, FS_CardinalityType
  <2> QED BY <2>1, <2>2
<1>2. \A T \in C : T \in SUBSET (A \ R) /\ T \cap R = {} /\ R \cup T \in Between(R, A, n)
  <2> TAKE T \in C
  <2>1. T \in SUBSET (A \ R) /\ Cardinality(T) = k
    BY DEF OfSize
  <2>2. Cardinality(R \cup T) = Cardinality(R) + Cardinality(T)
    BY <1>1, <2>1
  <2>3. Cardinality(R \cup T) = n
    BY <1>1, <2>1, <2>2
  <2> QED BY <2>1, <2>3 DEF Between
<1>3. \A S \in Between(R, A, n) : \E T \in C : S = R \cup T
  <2> TAKE S \in Between(R, A, n)
  <2> DEFINE T == S \ R
  <2>1. T \in SUBSET (A \ R) /\ S = R \cup T /\ Cardinality(S) = n
    BY DEF Between
  <2>2. Cardinality(S) = Cardinality(R) + Cardinality(T) /\ Cardinality(T) \in Nat
    BY <1>1, <2>1
  <2>3. Cardinality(T) = k
    BY <1>1, <2>1, <2>2
  <2>4. T \in C
    BY <2>1, <2>3 DEF OfSize
  <2> QED BY <2>1, <2>4
<1> HIDE DEF C
<1>4. WithAll(R, C) = Between(R, A, n)
  BY <1>2, <1>3 DEF WithAll
<1> QED BY <1>2, <1>4 DEF C, k

\* What the plan of a pool is of: the unlocked players a rule permits and requires.
Allowed(side, U) == {p \in U : Permits(side.filter[1], p)}

(* The plan of a pool lists the players it names, once each. *)
LEMMA PlanType ==
    ASSUME NEW side, NEW U, Queue(side.ids, U)
    PROVE  LET plan == Plan(side)
               R == Required(side.filter[1])
               A == Allowed(side, U)
           IN /\ IsFiniteSet(A)
              /\ Queue(plan.allowed, A) /\ (plan.possible <=> R \subseteq A)
              /\ Queue(plan.required, A \cap R) /\ Queue(plan.optional, A \ R)
<1> DEFINE plan == Plan(side)
           rule == side.filter[1]
           R == Required(rule)
           A == Allowed(side, U)
           allowed == Selected(side.ids, {p \in Range(side.ids) : Permits(rule, p)})
<1>1. Range(side.ids) = U /\ IsFiniteSet(U)
  BY QueueType
<1>2. Queue(allowed, U \cap {p \in U : Permits(rule, p)})
  BY <1>1, SelectedQueue
<1>3. U \cap {p \in U : Permits(rule, p)} = A
  BY DEF Allowed
<1>4. /\ plan.allowed = allowed /\ plan.possible = (R \subseteq Range(allowed))
      /\ plan.required = Selected(allowed, R) /\ plan.optional = Without(allowed, R)
  <2> HIDE DEF R, allowed
  <2>1. plan = [allowed |-> allowed, possible |-> R \subseteq Range(allowed),
                required |-> Selected(allowed, R), optional |-> Without(allowed, R)]
    BY Zenon DEF Plan, R, allowed
  <2> HIDE DEF plan
  <2> QED BY <2>1
<1> HIDE DEF allowed, plan, A
<1>5. Queue(allowed, A) /\ Range(allowed) = A /\ IsFiniteSet(A)
  <2>1. Queue(allowed, A)
    BY <1>2, <1>3
  <2> QED BY <2>1, QueueType
<1>6. Queue(Selected(allowed, R), A \cap R)
  BY <1>5, SelectedQueue
<1>7. Queue(Without(allowed, R), A \ R)
  <2>1. Queue(Selected(allowed, A \ R), A \cap (A \ R))
    BY <1>5, SelectedQueue
  <2>2. A \cap (A \ R) = A \ R
    OBVIOUS
  <2> QED BY <1>5, <2>1, <2>2 DEF Without
<1> QED BY <1>4, <1>5, <1>6, <1>7 DEF plan, A

(* When the plan of a rule can be completed to a package of a size, and else there is none. *)
LEMMA PlanCompletes ==
    ASSUME NEW side, NEW U, Queue(side.ids, U), IsFilter(side.filter), IsLegacy(side.filter), NEW size \in Nat
    PROVE  LET plan == Plan(side)
               R == Required(side.filter[1])
               A == Allowed(side, U)
           IN /\ CanComplete(plan, size) =>
                   /\ R \in SUBSET A /\ Range(plan.required) = R /\ Len(plan.required) = Cardinality(R)
                   /\ Cardinality(R) \in Nat /\ Cardinality(R) <= size
              /\ ~CanComplete(plan, size) => Accepted(side.filter, U, size) = {}
              /\ Accepted(side.filter, U, size)
                   = {S \in Between(R, A, size) :
                        Target(side.filter[1]) \subseteq UNION {Covers(side.filter[1], p) : p \in S}}
<1> DEFINE plan == Plan(side)
           rule == side.filter[1]
           R == Required(rule)
           A == Allowed(side, U)
           F == Accepted(side.filter, U, size)
           Full(S) == Target(rule) \subseteq UNION {Covers(rule, p) : p \in S}
<1>1. /\ IsFiniteSet(A) /\ (plan.possible <=> R \subseteq A)
      /\ Queue(plan.required, A \cap R) /\ Queue(plan.optional, A \ R)
  BY PlanType
<1> HIDE DEF plan
<1>2. /\ Len(plan.required) = Cardinality(A \cap R) /\ Range(plan.required) = A \cap R
      /\ Len(plan.required) \in Nat
      /\ Len(plan.optional) = Cardinality(A \ R) /\ Len(plan.optional) \in Nat
  BY <1>1, QueueType
<1>3. CanComplete(plan, size) =>
        /\ R \in SUBSET A /\ Range(plan.required) = R /\ Len(plan.required) = Cardinality(R)
        /\ Cardinality(R) \in Nat /\ Cardinality(R) <= size
  <2> SUFFICES ASSUME CanComplete(plan, size)
               PROVE  /\ R \in SUBSET A /\ Range(plan.required) = R /\ Len(plan.required) = Cardinality(R)
                      /\ Cardinality(R) \in Nat /\ Cardinality(R) <= size
    OBVIOUS
  <2>1. plan.possible /\ size - Len(plan.required) \in 0 .. Len(plan.optional)
    BY DEF CanComplete
  <2>2. R \subseteq A /\ A \cap R = R
    BY <1>1, <2>1
  <2> HIDE DEF R, A
  <2>3. Len(plan.required) = Cardinality(R) /\ Range(plan.required) = R
    BY <1>2, <2>2
  <2>4. Len(plan.required) \in Nat /\ Len(plan.required) <= size
    BY ONLY <1>2, <2>1, size \in Nat
  <2> QED BY <2>2, <2>3, <2>4
<1>4. F = {S \in Between(R, A, size) : Full(S)}
  <2>1. ASSUME NEW S
        PROVE  S \in F <=> S \in Between(R, A, size) /\ Full(S)
    <3>1. S \in F <=> S \subseteq U /\ Cardinality(S) = size /\ FilterHolds(side.filter, S)
      BY DEF Accepted, OfSize
    <3>2. FilterHolds(side.filter, S) <=> (\A p \in S : Permits(rule, p)) /\ R \subseteq S /\ Full(S)
      BY OneRuleHolds
    <3>3. S \in Between(R, A, size) <=> S \subseteq A /\ R \subseteq S /\ Cardinality(S) = size
      BY DEF Between
    <3>4. S \subseteq A <=> S \subseteq U /\ \A p \in S : Permits(rule, p)
      BY DEF Allowed
    <3> HIDE DEF F, R, A, Full
    <3> QED BY <3>1, <3>2, <3>3, <3>4
  <2> HIDE DEF F, R, Full, A
  <2> QED BY <2>1
<1>5. ASSUME F # {}
      PROVE  CanComplete(plan, size)
  <2>1. PICK S \in Between(R, A, size) : TRUE
    BY <1>4, <1>5
  <2>2. S \subseteq A /\ R \subseteq S /\ Cardinality(S) = size
    BY DEF Between
  <2> HIDE DEF R, A, F
  <2>3. R \subseteq A /\ A \cap R = R /\ IsFiniteSet(R) /\ IsFiniteSet(S \ R) /\ IsFiniteSet(A \ R)
    BY <1>1, <2>2, FS_Subset
  <2>4. S = R \cup (S \ R) /\ R \cap (S \ R) = {}
    BY <2>2
  <2>5. size = Cardinality(R) + Cardinality(S \ R)
    BY <2>2, <2>3, <2>4, UnionOfApart
  <2>6. Cardinality(S \ R) <= Cardinality(A \ R) /\ Cardinality(S \ R) \in Nat /\ Cardinality(R) \in Nat
    <3>1. S \ R \subseteq A \ R
      BY <2>2
    <3> QED BY <2>3, <3>1, FS_Subset, FS_CardinalityType
  <2>7. Len(plan.required) = Cardinality(R) /\ Len(plan.optional) = Cardinality(A \ R)
    BY <1>2, <2>3
  <2>8. size - Len(plan.required) = Cardinality(S \ R)
    BY ONLY <2>5, <2>6, <2>7
  <2>9. size - Len(plan.required) \in 0 .. Len(plan.optional)
    <3>1. \A a, b, c : a \in Nat /\ b = c /\ a <= c /\ c \in Nat => a \in 0 .. b
      OBVIOUS
    <3> QED BY ONLY <1>2, <2>6, <2>7, <2>8, <3>1
  <2>10. plan.possible
    BY <1>1, <2>3
  <2> QED BY <2>9, <2>10 DEF CanComplete
<1> HIDE DEF F, R, A
<1>6. ~CanComplete(plan, size) => F = {}
  BY <1>5
<1> QED BY <1>3, <1>4, <1>6 DEF plan, F, R, A

(* The lists of the required players and the chosen ones, in roster order. *)
LEMMA WholeList ==
    ASSUME NEW allowed, NEW A, Queue(allowed, A), NEW R \in SUBSET A,
           NEW t, NEW F \in SUBSET SUBSET (A \ R), Catalogues(t, F)
    PROVE  Catalogues([c \in DOMAIN t |-> Selected(allowed, R \cup Range(t[c]))], WithAll(R, F))
<1>1. PICK B : Queue(t, B) /\ Arranges(B, F)
  BY Zenon DEF Catalogues
<1> DEFINE g == [q \in B |-> Selected(allowed, R \cup Range(q))]
           C == {g[q] : q \in B}
           r == [c \in DOMAIN t |-> g[t[c]]]
           G == WithAll(R, F)
<1>2. ASSUME NEW q \in B
      PROVE  /\ g[q] = Selected(allowed, R \cup Range(q))
             /\ Range(q) \in F /\ Range(q) \cap R = {}
             /\ Queue(g[q], R \cup Range(q)) /\ Range(g[q]) = R \cup Range(q)
  <2>1. Range(q) \in F
    BY <1>1 DEF Arranges
  <2>2. Range(q) \subseteq A \ R
    BY <2>1
  <2>3. Queue(Selected(allowed, R \cup Range(q)), A \cap (R \cup Range(q)))
    BY SelectedQueue
  <2>4. A \cap (R \cup Range(q)) = R \cup Range(q)
    BY <2>2
  <2>5. g[q] = Selected(allowed, R \cup Range(q))
    OBVIOUS
  <2> HIDE DEF g
  <2>6. Queue(g[q], R \cup Range(q))
    BY <2>3, <2>4, <2>5
  <2>7. Range(g[q]) = R \cup Range(q)
    BY <2>6, QueueType
  <2>8. Range(q) \cap R = {}
    BY <2>2
  <2> QED BY <2>1, <2>5, <2>6, <2>7, <2>8
<1> HIDE DEF g
<1>3. \A q, w \in B : Range(g[q]) = Range(g[w]) => q = w
  <2> SUFFICES ASSUME NEW q \in B, NEW w \in B, Range(g[q]) = Range(g[w])
               PROVE  q = w
    OBVIOUS
  <2>1. R \cup Range(q) = R \cup Range(w) /\ Range(q) \cap R = {} /\ Range(w) \cap R = {}
    BY <1>2
  <2>2. ASSUME NEW Y, NEW Z, R \cup Y = R \cup Z, Y \cap R = {}, Z \cap R = {}
        PROVE  Y = Z
    BY ONLY <2>2
  <2>3. Range(q) = Range(w)
    BY <2>1, <2>2
  <2> QED BY <1>1, <2>3 DEF Arranges
<1>4. Queue(r, C)
  <2>1. \A q, w \in B : g[q] = g[w] => q = w
    BY <1>3
  <2> QED BY <1>1, <2>1, MappedQueue
<1>5. r = [c \in DOMAIN t |-> Selected(allowed, R \cup Range(t[c]))]
  <2>1. \A c \in DOMAIN t : t[c] \in B
    BY <1>1, QueueType
  <2> QED BY <1>2, <2>1
<1>6. Arranges(C, G)
  <2>1. ASSUME NEW a \in C
        PROVE  Queue(a, Range(a)) /\ Range(a) \in G
    <3>1. PICK q \in B : a = g[q]
      OBVIOUS
    <3>2. R \cup Range(q) \in G
      BY <1>2 DEF WithAll
    <3> QED BY <1>2, <3>1, <3>2
  <2>2. \A a, b \in C : Range(a) = Range(b) => a = b
    BY <1>3
  <2>3. ASSUME NEW S \in G
        PROVE  \E a \in C : Range(a) = S
    <3>1. PICK T \in F : S = R \cup T
      BY DEF WithAll
    <3>2. PICK q \in B : Range(q) = T
      BY <1>1 DEF Arranges
    <3>3. Range(g[q]) = S
      BY <1>2, <3>1, <3>2
    <3> QED BY <3>3
  <2> HIDE DEF C, G
  <2> QED BY <2>1, <2>2, <2>3 DEF Arranges
<1> HIDE DEF r, C, G
<1>7. Catalogues(r, G)
  BY <1>4, <1>6, Zenon DEF Catalogues
<1> QED BY <1>5, <1>7, Zenon DEF G

(* No package is larger than the side. *)
LEMMA NoLargerPackages ==
    ASSUME NEW side, NEW U, Queue(side.ids, U), NEW size \in Nat, size > Len(side.ids)
    PROVE  Accepted(side.filter, U, size) = {}
<1>1. IsFiniteSet(U) /\ Len(side.ids) = Cardinality(U)
  BY QueueType
<1>2. ASSUME NEW S \in OfSize(U, size)
      PROVE  FALSE
  <2>1. S \subseteq U /\ Cardinality(S) = size
    BY DEF OfSize
  <2>2. Cardinality(S) <= Cardinality(U) /\ Cardinality(U) \in Nat
    BY <1>1, <2>1, FS_Subset, FS_CardinalityType
  <2> QED BY <1>1, <2>1, <2>2
<1> QED BY <1>2 DEF Accepted

(* An empty list lists no package. *)
LEMMA NothingListed == Catalogues(<<>>, {})
<1>1. Queue(<<>>, {})
  <2>1. <<>> \in Seq({}) /\ DOMAIN <<>> = {}
    OBVIOUS
  <2> QED BY <2>1 DEF Queue, Range, IsInjective
<1>2. Arranges({}, {})
  BY DEF Arranges
<1> QED BY <1>1, <1>2, Zenon DEF Catalogues

(* What a list of packages holds. *)
LEMMA CatalogueHolds ==
    ASSUME NEW s, NEW F, Catalogues(s, F)
    PROVE  \A q \in Range(s) : Queue(q, Range(q)) /\ Range(q) \in F
<1>1. PICK A : Queue(s, A) /\ Arranges(A, F)
  BY Zenon DEF Catalogues
<1>2. Range(s) = A
  BY <1>1, QueueType
<1> QED BY <1>1, <1>2 DEF Arranges

(* The packages of one rule. *)
LEMMA LegacyPackages ==
    ASSUME NEW side, NEW U, Queue(side.ids, U), IsFilter(side.filter), IsLegacy(side.filter), NEW size \in Nat,
           ~(size > Len(side.ids))
    PROVE  Catalogues(Packages(side, size), Accepted(side.filter, U, size))
<1> DEFINE plan == Plan(side)
           rule == side.filter[1]
           R == Required(rule)
           A == Allowed(side, U)
           F == Accepted(side.filter, U, size)
           n == size - Len(plan.required)
           chosen == Combinations(plan.optional, n)
           whole == [c \in DOMAIN chosen |-> Selected(plan.allowed, R \cup Range(chosen[c]))]
           Full(S) == Target(rule) \subseteq UNION {Covers(rule, p) : p \in S}
           K == {package \in Range(whole) : Full(Range(package))}
<1>1. Packages(side, size) = IF ~CanComplete(plan, size) THEN <<>> ELSE Selected(whole, K)
  BY Zenon DEF Packages
<1>2. /\ CanComplete(plan, size) =>
           /\ R \in SUBSET A /\ Range(plan.required) = R /\ Len(plan.required) = Cardinality(R)
           /\ Cardinality(R) \in Nat /\ Cardinality(R) <= size
      /\ ~CanComplete(plan, size) => F = {}
      /\ F = {S \in Between(R, A, size) : Full(S)}
  BY PlanCompletes
<1>3. /\ IsFiniteSet(A) /\ Queue(plan.allowed, A) /\ Queue(plan.optional, A \ R)
  BY PlanType
<1> HIDE DEF plan, F
<1>4. CASE ~CanComplete(plan, size)
  <2>1. Packages(side, size) = <<>> /\ F = {}
    BY <1>1, <1>2, <1>4
  <2> QED BY <2>1, NothingListed DEF F
<1>5. CASE CanComplete(plan, size)
  <2>1. /\ R \in SUBSET A /\ Cardinality(R) \in Nat /\ Cardinality(R) <= size
        /\ n = size - Cardinality(R)
    BY <1>2, <1>5
  <2>2. n \in Nat
    BY <2>1
  <2> HIDE DEF n, R, A
  <2>3. Catalogues(chosen, OfSize(A \ R, n))
    BY <1>3, <2>2, CombinationsList
  <2> HIDE DEF chosen
  <2>4. OfSize(A \ R, n) \in SUBSET SUBSET (A \ R)
    BY DEF OfSize
  <2>5. Catalogues(whole, WithAll(R, OfSize(A \ R, n)))
    BY <1>3, <2>1, <2>3, <2>4, WholeList
  <2>6. WithAll(R, OfSize(A \ R, n)) = Between(R, A, size)
    <3>1. /\ WithAll(R, OfSize(A \ R, size - Cardinality(R))) = Between(R, A, size)
          /\ \A T \in OfSize(A \ R, size - Cardinality(R)) : T \cap R = {} /\ R \cup T \in Between(R, A, size)
      BY <1>3, <2>1, BetweenIsChosen, Zenon
    <3> QED BY <2>1, <3>1
  <2> HIDE DEF whole
  <2>7. Catalogues(whole, Between(R, A, size))
    BY <2>5, <2>6
  <2>8. \A q \in Range(whole) : q \in K <=> Range(q) \in F
    <3>1. \A q \in Range(whole) : Range(q) \in Between(R, A, size)
      BY <2>7, CatalogueHolds
    <3> HIDE DEF Full
    <3> QED BY <1>2, <3>1
  <2>9. F \in SUBSET Between(R, A, size)
    BY <1>2
  <2> HIDE DEF K
  <2>10. Catalogues(Selected(whole, K), F)
    BY <2>7, <2>8, <2>9, CataloguesSelected
  <2>11. Packages(side, size) = Selected(whole, K)
    BY <1>1, <1>5
  <2> QED BY <2>10, <2>11 DEF F
<1> QED BY <1>4, <1>5

(* The packages of no filter and of an expression. *)
LEMMA OtherPackages ==
    ASSUME NEW side, NEW U, Queue(side.ids, U), ~IsLegacy(side.filter), NEW size \in Nat,
           ~(size > Len(side.ids))
    PROVE  Catalogues(Packages(side, size), Accepted(side.filter, U, size))
<1> DEFINE all == Combinations(side.ids, size)
           Holds(S) == \/ side.filter = <<>>
                       \/ EvidenceMatches(side.filter, UNION {EvidenceOf(side.filter, p, Range(side.ids)) : p \in S})
           K == {package \in Range(all) : Holds(Range(package))}
           F == Accepted(side.filter, U, size)
<1>1. Packages(side, size) = Selected(all, K)
  BY Zenon DEF Packages
<1>2. Range(side.ids) = U
  BY QueueType
<1>3. Catalogues(all, OfSize(U, size))
  BY CombinationsList
<1> HIDE DEF all
<1>4. \A S \in OfSize(U, size) : Holds(S) <=> S \in F
  <2> TAKE S \in OfSize(U, size)
  <2>1. S \subseteq U
    BY DEF OfSize
  <2>2. EvidenceMatches(side.filter, UNION {EvidenceOf(side.filter, p, U) : p \in S})
          <=> Formula(side.filter, {i \in Rules(side.filter) : RuleHolds(side.filter[i], S)})
    BY <2>1, AnyExpression
  <2>3. S \in F <=> FilterHolds(side.filter, S)
    BY DEF Accepted
  <2> HIDE DEF F
  <2> QED BY <1>2, <2>2, <2>3, Zenon DEF FilterHolds
<1> HIDE DEF Holds
<1>5. \A q \in Range(all) : q \in K <=> Range(q) \in F
  <2>1. \A q \in Range(all) : Range(q) \in OfSize(U, size)
    BY <1>3, CatalogueHolds
  <2> HIDE DEF F
  <2> QED BY <1>4, <2>1
<1>6. F \in SUBSET OfSize(U, size)
  BY DEF Accepted
<1> HIDE DEF K, F
<1>7. Catalogues(Selected(all, K), F)
  BY <1>3, <1>5, <1>6, CataloguesSelected
<1> QED BY <1>1, <1>7 DEF F

(* iter_packages lists the packages its filter accepts, each once. *)
LEMMA PackagesList ==
    ASSUME NEW side, NEW U, Queue(side.ids, U), IsFilter(side.filter), NEW size \in Nat
    PROVE  Catalogues(Packages(side, size), Accepted(side.filter, U, size))
<1>1. CASE size > Len(side.ids)
  <2>1. Packages(side, size) = <<>>
    BY <1>1 DEF Packages
  <2>2. Accepted(side.filter, U, size) = {}
    BY <1>1, NoLargerPackages
  <2> QED BY <2>1, <2>2, NothingListed
<1>2. CASE ~(size > Len(side.ids)) /\ IsLegacy(side.filter)
  BY <1>2, LegacyPackages
<1>3. CASE ~(size > Len(side.ids)) /\ ~IsLegacy(side.filter)
  BY <1>3, OtherPackages
<1> QED BY <1>1, <1>2, <1>3

-----------------------------------------------------------------------------
(* Counting the packages without building them.                            *)

\* Signatures add, and so does the evidence of players.
Plus(a, b) == [k \in Kinds |-> a[k] + b[k]]

Gathered(e, S) == UNION {e[p] : p \in S}

(* Reserve players of players who are apart add up. *)
LEMMA SignatureAdds ==
    ASSUME NEW kindOf, NEW S, IsFiniteSet(S), NEW T, IsFiniteSet(T), S \cap T = {}
    PROVE  /\ Signature(S, kindOf) \in [Kinds -> Nat]
           /\ Signature(S \cup T, kindOf) = Plus(Signature(S, kindOf), Signature(T, kindOf))
<1>1. ASSUME NEW k \in Kinds
      PROVE  /\ Signature(S \cup T, kindOf)[k] = Signature(S, kindOf)[k] + Signature(T, kindOf)[k]
             /\ Signature(S, kindOf)[k] \in Nat
  <2>1. /\ OfKind(kindOf, S \cup T, k) = OfKind(kindOf, S, k) \cup OfKind(kindOf, T, k)
        /\ OfKind(kindOf, S, k) \cap OfKind(kindOf, T, k) = {}
        /\ OfKind(kindOf, S, k) \in SUBSET S /\ OfKind(kindOf, T, k) \in SUBSET T
    BY DEF OfKind
  <2>2. IsFiniteSet(OfKind(kindOf, S, k)) /\ IsFiniteSet(OfKind(kindOf, T, k))
    BY <2>1, FS_Subset
  <2> QED BY <2>1, <2>2, UnionOfApart, FS_CardinalityType DEF Signature
<1>2. \A Q : Signature(Q, kindOf) = [k \in Kinds |-> Signature(Q, kindOf)[k]]
  BY DEF Signature
<1> HIDE DEF Signature
<1>3. Signature(S, kindOf) \in [Kinds -> Nat]
  BY <1>1, <1>2
<1>4. Signature(S \cup T, kindOf) = Plus(Signature(S, kindOf), Signature(T, kindOf))
  BY <1>1, <1>2 DEF Plus
<1> QED BY <1>3, <1>4

(* A state adds up what its choice adds. *)
LEMMA StateParts ==
    ASSUME NEW first, NEW kindOf, NEW evidence, NEW S
    PROVE  /\ StateOf(first, kindOf, evidence, S).signature = Plus(first.signature, Signature(S, kindOf))
           /\ StateOf(first, kindOf, evidence, S).seen = first.seen \cup Gathered(evidence, S)
<1> HIDE DEF Signature
<1>1. StateOf(first, kindOf, evidence, S)
        = [chosen |-> Cardinality(S), signature |-> Plus(first.signature, Signature(S, kindOf)),
           seen |-> first.seen \cup Gathered(evidence, S)]
  BY Zenon DEF StateOf, Plus, Gathered
<1> QED BY <1>1

\* The reserve players of every package.
Marks(F, kindOf) == [S \in F |-> Signature(S, kindOf)]

(* No packages make an empty tally. *)
LEMMA NothingTallied ==
    ASSUME NEW kindOf
    PROVE  Tally(Marks({}, kindOf)) = << >>
<1>1. DOMAIN Marks({}, kindOf) = {}
  BY DEF Marks
<1>2. Range(Marks({}, kindOf)) = {}
  BY <1>1 DEF Range
<1>3. Tally(Marks({}, kindOf)) = [s \in {} |-> Cardinality({x \in DOMAIN Marks({}, kindOf) : Marks({}, kindOf)[x] = s})]
  BY <1>2 DEF Tally
<1>4. \A h : DOMAIN h = {} /\ h = [s \in {} |-> h[s]] => h = << >>
  OBVIOUS
<1> QED BY <1>3, <1>4

(* Counting an expression's packages by their evidence. *)
LEMMA OtherCount ==
    ASSUME NEW side, NEW U, Queue(side.ids, U), ~IsLegacy(side.filter), NEW size \in Nat,
           ~(size > Len(side.ids))
    PROVE  CountBySignature(side, size) = Tally(Marks(Accepted(side.filter, U, size), side.kindOf))
<1> DEFINE kindOf == side.kindOf
           first == [chosen |-> 0, signature |-> NoSlots, seen |-> {}]
           evidence == [p \in Range(side.ids) |-> EvidenceOf(side.filter, p, Range(side.ids))]
           states == Counted(side.ids, size, kindOf, first, evidence)
           K == {s \in DOMAIN states : side.filter = <<>> \/ EvidenceMatches(side.filter, s.seen)}
           P == OfSize(U, size)
           f == StatesOf(first, kindOf, evidence, P)
           F == Accepted(side.filter, U, size)
<1>1. CountBySignature(side, size) = BySignature(states, K)
  BY Zenon DEF CountBySignature
<1>2. Range(side.ids) = U /\ IsFiniteSet(U)
  BY QueueType
<1>3. IsFirst(first)
  <2>1. NoSlots \in [Kinds -> Nat]
    BY DEF NoSlots
  <2> QED BY <2>1 DEF IsFirst
<1>4. first.signature = NoSlots /\ first.seen = {}
  OBVIOUS
<1> HIDE DEF first
<1>5. states = Tally(f)
  BY <1>3, CountedIsTally
<1> HIDE DEF states
<1>6. DOMAIN f = P /\ IsFiniteSet(P) /\ \A S \in P : S \subseteq U /\ IsFiniteSet(S)
  <2>1. IsFiniteSet(P) /\ \A S \in P : S \subseteq U
    BY <1>2, ChoicesAreFinite DEF OfSize
  <2>2. \A S \in P : IsFiniteSet(S)
    BY <1>2, <2>1, FS_Subset
  <2> QED BY <2>1, <2>2 DEF StatesOf
<1>7. ASSUME NEW S \in P
      PROVE  /\ f[S].signature = Signature(S, kindOf)
             /\ f[S].seen = UNION {EvidenceOf(side.filter, p, U) : p \in S}
             /\ f[S] = StateOf(first, kindOf, evidence, S)
  <2>1. f[S] = StateOf(first, kindOf, evidence, S)
    BY DEF StatesOf
  <2> DEFINE st == StateOf(first, kindOf, evidence, S)
  <2>a. /\ st.signature = Plus(first.signature, Signature(S, kindOf))
        /\ st.seen = first.seen \cup Gathered(evidence, S)
    <3> HIDE DEF evidence, kindOf
    <3> QED BY StateParts
  <2>b. f[S] = st
    BY <2>1
  <2> HIDE DEF st, f
  <2>2. f[S].signature = Plus(first.signature, Signature(S, kindOf))
    BY <2>a, <2>b
  <2>3. Signature(S, kindOf) \in [Kinds -> Nat]
    BY <1>6, SignatureAdds, FS_EmptySet
  <2>4. Plus(first.signature, Signature(S, kindOf)) = Signature(S, kindOf)
    <3>1. \A k \in Kinds : first.signature[k] = 0 /\ Signature(S, kindOf)[k] \in Nat
      BY <1>4, <2>3 DEF NoSlots
    <3> HIDE DEF Signature
    <3> QED BY <2>3, <3>1 DEF Plus
  <2>5. f[S].seen = first.seen \cup Gathered(evidence, S)
    BY <2>a, <2>b
  <2>6. \A p \in S : evidence[p] = EvidenceOf(side.filter, p, U)
    BY <1>2, <1>6
  <2>7. Gathered(evidence, S) = UNION {EvidenceOf(side.filter, p, U) : p \in S}
    BY <2>6 DEF Gathered
  <2> QED BY <1>4, <2>1, <2>2, <2>4, <2>5, <2>7
<1> HIDE DEF f, evidence, P
<1>8. DOMAIN states = Range(f)
  BY <1>5 DEF Tally
<1>9. ASSUME NEW S \in P
      PROVE  f[S] \in K <=> S \in F
  <2>1. f[S] \in DOMAIN states
    BY <1>6, <1>8 DEF Range
  <2>2. S \subseteq U
    BY <1>6
  <2>3. EvidenceMatches(side.filter, UNION {EvidenceOf(side.filter, p, U) : p \in S})
          <=> Formula(side.filter, {i \in Rules(side.filter) : RuleHolds(side.filter[i], S)})
    BY <2>2, AnyExpression
  <2>4. S \in F <=> FilterHolds(side.filter, S)
    BY DEF Accepted, P
  <2>5. FilterHolds(side.filter, S) <=> (side.filter = <<>> \/ EvidenceMatches(side.filter, f[S].seen))
    <3>1. f[S].seen = UNION {EvidenceOf(side.filter, p, U) : p \in S}
      BY <1>7
    <3> QED BY <2>3, <3>1, Zenon DEF FilterHolds
  <2>6. f[S] \in K <=> (side.filter = <<>> \/ EvidenceMatches(side.filter, f[S].seen))
    BY <2>1
  <2> HIDE DEF F, K
  <2> QED BY <2>4, <2>5, <2>6
<1>10. F \subseteq P
  BY DEF Accepted, P
<1>11. K \in SUBSET Range(f)
  BY <1>8
<1> HIDE DEF K, F
<1>12. BySignature(Tally(f), K) = Tally(SignaturesKept(f, K))
  BY <1>6, <1>11, TallyBySignature
<1>13. SignaturesKept(f, K) = Marks(F, kindOf)
  <2>1. {S \in DOMAIN f : f[S] \in K} = F
    BY <1>6, <1>9, <1>10
  <2>2. \A S \in F : f[S].signature = Signature(S, kindOf)
    BY <1>7, <1>10
  <2>3. SignaturesKept(f, K) = [S \in F |-> f[S].signature]
    BY <2>1 DEF SignaturesKept
  <2> QED BY <2>2, <2>3 DEF Marks
<1> QED BY <1>1, <1>5, <1>12, <1>13, Zenon DEF F, kindOf

(* Counting the packages of one rule: the required players are in all of them. *)
LEMMA LegacyCount ==
    ASSUME NEW side, NEW U, Queue(side.ids, U), IsFilter(side.filter), IsLegacy(side.filter), NEW size \in Nat,
           ~(size > Len(side.ids))
    PROVE  CountBySignature(side, size) = Tally(Marks(Accepted(side.filter, U, size), side.kindOf))
<1> DEFINE kindOf == side.kindOf
           plan == Plan(side)
           rule == side.filter[1]
           R == Required(rule)
           A == Allowed(side, U)
           F == Accepted(side.filter, U, size)
           n == size - Len(plan.required)
           must == Range(plan.required)
           first == [chosen |-> 0, signature |-> Signature(must, kindOf), seen |-> UNION {Covers(rule, p) : p \in must}]
           evidence == [p \in Range(plan.optional) |-> Covers(rule, p)]
           states == Counted(plan.optional, n, kindOf, first, evidence)
           K == {s \in DOMAIN states : Target(rule) \subseteq s.seen}
           P == OfSize(A \ R, n)
           f == StatesOf(first, kindOf, evidence, P)
           Seen(S) == UNION {Covers(rule, p) : p \in S}
<1>1. CountBySignature(side, size) = IF ~CanComplete(plan, size) THEN << >> ELSE BySignature(states, K)
  BY Zenon DEF CountBySignature
<1>2. /\ CanComplete(plan, size) =>
           /\ R \in SUBSET A /\ Range(plan.required) = R /\ Len(plan.required) = Cardinality(R)
           /\ Cardinality(R) \in Nat /\ Cardinality(R) <= size
      /\ ~CanComplete(plan, size) => F = {}
      /\ F = {S \in Between(R, A, size) : Target(rule) \subseteq Seen(S)}
  BY PlanCompletes
<1>3. IsFiniteSet(A) /\ Queue(plan.optional, A \ R)
  BY PlanType
<1> HIDE DEF plan, F, Seen
<1>4. CASE ~CanComplete(plan, size)
  <2>1. CountBySignature(side, size) = << >> /\ F = {}
    BY <1>1, <1>2, <1>4
  <2> QED BY <2>1, NothingTallied DEF F
<1>5. CASE CanComplete(plan, size)
  <2>1. /\ R \in SUBSET A /\ must = R /\ Cardinality(R) \in Nat /\ Cardinality(R) <= size
        /\ n = size - Cardinality(R) /\ n \in Nat /\ IsFiniteSet(R)
    <3>1. n = size - Cardinality(R) /\ Cardinality(R) \in Nat /\ Cardinality(R) <= size
      BY <1>2, <1>5
    <3> HIDE DEF R, A
    <3>2. n \in Nat
      BY ONLY <3>1, size \in Nat
    <3>3. IsFiniteSet(R)
      BY <1>2, <1>3, <1>5, FS_Subset
    <3> QED BY <1>2, <1>5, <3>1, <3>2, <3>3
  <2> HIDE DEF n, R, A, must
  <2>2. IsFirst(first) /\ first.signature = Signature(R, kindOf) /\ first.seen = Seen(R)
    <3>1. Signature(must, kindOf) \in [Kinds -> Nat]
      BY <2>1, SignatureAdds, FS_EmptySet
    <3> QED BY <2>1, <3>1 DEF IsFirst, Seen
  <2> HIDE DEF first
  <2>3. states = Tally(f)
    BY <1>3, <2>1, <2>2, CountedIsTally
  <2> HIDE DEF states
  <2>4. Range(plan.optional) = A \ R /\ IsFiniteSet(A \ R)
    BY <1>3, QueueType
  <2>5. DOMAIN f = P /\ IsFiniteSet(P) /\ \A T \in P : T \subseteq A \ R /\ IsFiniteSet(T)
    <3>1. IsFiniteSet(P) /\ \A S \in P : S \subseteq A \ R
      BY <2>1, <2>4, ChoicesAreFinite DEF OfSize
    <3>2. \A T \in P : IsFiniteSet(T)
      BY <2>4, <3>1, FS_Subset
    <3> QED BY <3>1, <3>2 DEF StatesOf
  <2>6. /\ WithAll(R, P) = Between(R, A, size)
        /\ \A T \in P : T \cap R = {} /\ R \cup T \in Between(R, A, size)
    <3>1. /\ WithAll(R, OfSize(A \ R, size - Cardinality(R))) = Between(R, A, size)
          /\ \A T \in OfSize(A \ R, size - Cardinality(R)) : T \cap R = {} /\ R \cup T \in Between(R, A, size)
      BY <1>3, <2>1, BetweenIsChosen, Zenon
    <3> QED BY <2>1, <3>1
  <2>7. ASSUME NEW T \in P
        PROVE  /\ f[T].signature = Signature(R \cup T, kindOf)
               /\ f[T].seen = Seen(R \cup T)
    <3>1. f[T] = StateOf(first, kindOf, evidence, T)
      BY DEF StatesOf
    <3> DEFINE st == StateOf(first, kindOf, evidence, T)
    <3>a. /\ st.signature = Plus(first.signature, Signature(T, kindOf))
          /\ st.seen = first.seen \cup Gathered(evidence, T)
      <4> HIDE DEF evidence, kindOf
      <4> QED BY StateParts
    <3>b. f[T] = st
      BY <3>1
    <3> HIDE DEF st, f
    <3>2. f[T].signature = Plus(first.signature, Signature(T, kindOf))
      BY <3>a, <3>b
    <3>3. Signature(R \cup T, kindOf) = Plus(Signature(R, kindOf), Signature(T, kindOf))
      <4>1. R \cap T = {} /\ IsFiniteSet(T) /\ IsFiniteSet(R)
        BY <2>1, <2>5, <2>6
      <4> QED BY <4>1, SignatureAdds, Zenon
    <3>4. f[T].seen = first.seen \cup Gathered(evidence, T)
      BY <3>a, <3>b
    <3>5. \A p \in T : evidence[p] = Covers(rule, p)
      BY <2>4, <2>5
    <3>6. Gathered(evidence, T) = UNION {Covers(rule, p) : p \in T}
      BY <3>5 DEF Gathered
    <3>7. Seen(R) \cup UNION {Covers(rule, p) : p \in T} = Seen(R \cup T)
      BY DEF Seen
    <3> QED BY <2>2, <3>2, <3>3, <3>4, <3>6, <3>7
  <2> HIDE DEF f, evidence, P
  <2>8. DOMAIN states = Range(f)
    BY <2>3 DEF Tally
  <2>9. \A T \in P : f[T] \in K <=> R \cup T \in F
    <3> TAKE T \in P
    <3>1. f[T] \in DOMAIN states
      BY <2>5, <2>8 DEF Range
    <3>2. f[T] \in K <=> Target(rule) \subseteq Seen(R \cup T)
      BY <2>7, <3>1
    <3>3. R \cup T \in Between(R, A, size)
      BY <2>6
    <3> HIDE DEF K
    <3> QED BY <1>2, <3>2, <3>3
  <2>10. K \in SUBSET Range(f)
    BY <2>8
  <2> HIDE DEF K
  <2>11. BySignature(Tally(f), K) = Tally(SignaturesKept(f, K))
    BY <2>5, <2>10, TallyBySignature
  <2> DEFINE g == SignaturesKept(f, K)
             h == Marks(F, kindOf)
             Q == {T \in P : f[T] \in K}
             b == [T \in Q |-> R \cup T]
  <2>12. DOMAIN g = Q /\ \A T \in Q : g[T] = f[T].signature
    BY <2>5 DEF SignaturesKept
  <2>13. DOMAIN h = F /\ \A S \in F : h[S] = Signature(S, kindOf)
    BY DEF Marks
  <2>14. IsFiniteSet(Q)
    BY <2>5, FS_Subset
  <2>15. \A S \in F : \E T \in Q : S = R \cup T
    <3> TAKE S \in F
    <3>1. S \in WithAll(R, P)
      BY <1>2, <2>6
    <3>2. PICK T \in P : S = R \cup T
      BY <3>1 DEF WithAll
    <3>3. T \in Q
      BY <2>9, <3>2
    <3> QED BY <3>2, <3>3
  <2>16. \A T \in Q : T \in P /\ R \cup T \in F /\ T \cap R = {}
    BY <2>6, <2>9
  <2> HIDE DEF Q, g, h
  <2>17. b \in Bijection(Q, F)
    <3>1. DOMAIN b = Q /\ \A T \in Q : b[T] = R \cup T
      OBVIOUS
    <3>2. b \in [Q -> F]
      BY <2>16
    <3> HIDE DEF b
    <3>3. \A S, T \in Q : b[S] = b[T] => S = T
      <4> SUFFICES ASSUME NEW S \in Q, NEW T \in Q, b[S] = b[T]
                   PROVE  S = T
        OBVIOUS
      <4>1. R \cup S = R \cup T /\ S \cap R = {} /\ T \cap R = {}
        BY <2>16, <3>1
      <4> QED BY ONLY <4>1
    <3>4. \A S \in F : \E T \in Q : b[T] = S
      <4> TAKE S \in F
      <4>1. PICK T \in Q : S = R \cup T
        BY <2>15
      <4> QED BY <3>1, <4>1
    <3>5. b \in Injection(Q, F)
      BY <3>2, <3>3 DEF Injection, IsInjective
    <3>6. b \in Surjection(Q, F)
      BY <3>2, <3>4 DEF Surjection
    <3> QED BY <3>5, <3>6 DEF Bijection
  <2>18. \A T \in DOMAIN g : g[T] = h[b[T]]
    BY <2>7, <2>12, <2>13, <2>16
  <2> HIDE DEF b
  <2>19. Tally(g) = Tally(h)
    BY <2>12, <2>13, <2>14, <2>17, <2>18, TallyRenamed
  <2>20. CountBySignature(side, size) = Tally(g)
    BY <1>1, <1>5, <2>3, <2>11 DEF g
  <2> QED BY <2>19, <2>20, Zenon DEF h, F, kindOf
<1> QED BY <1>4, <1>5

(* count_by_reserve_signature counts the packages that iter_packages yields. *)
LEMMA CountIsTally ==
    ASSUME NEW side, NEW U, Queue(side.ids, U), IsFilter(side.filter), NEW size \in Nat
    PROVE  CountBySignature(side, size) = Tally(Marks(Accepted(side.filter, U, size), side.kindOf))
<1>1. CASE size > Len(side.ids)
  <2>1. CountBySignature(side, size) = << >>
    BY <1>1 DEF CountBySignature
  <2>2. Accepted(side.filter, U, size) = {}
    BY <1>1, NoLargerPackages
  <2> QED BY <2>1, <2>2, NothingTallied
<1>2. CASE ~(size > Len(side.ids)) /\ IsLegacy(side.filter)
  BY <1>2, LegacyCount
<1>3. CASE ~(size > Len(side.ids)) /\ ~IsLegacy(side.filter)
  BY <1>3, OtherCount
<1> QED BY <1>1, <1>2, <1>3

(* A bijection keeps sizes. *)
LEMMA ImageSize ==
    ASSUME NEW S, IsFiniteSet(S), NEW f, \A x, y \in S : f[x] = f[y] => x = y
    PROVE  IsFiniteSet({f[x] : x \in S}) /\ Cardinality({f[x] : x \in S}) = Cardinality(S)
<1> DEFINE T == {f[x] : x \in S}
           g == [x \in S |-> f[x]]
<1>1. g \in [S -> T] /\ (\A x \in S : g[x] = f[x]) /\ \A y \in T : \E x \in S : g[x] = y
  OBVIOUS
<1> HIDE DEF g, T
<1>2. g \in Injection(S, T)
  BY <1>1 DEF Injection, IsInjective
<1>3. g \in Surjection(S, T)
  BY <1>1 DEF Surjection
<1>4. g \in Bijection(S, T)
  BY <1>2, <1>3 DEF Bijection
<1> QED BY <1>4, FS_Bijection DEF ExistsBijection, T

(* The ways to choose k of n. *)
LEMMA CombCounts ==
    ASSUME NEW P, IsFiniteSet(P), NEW k \in Nat
    PROVE  Comb(Cardinality(P), k) = Cardinality(OfSize(P, k))
<1> DEFINE n == Cardinality(P)
           N == 1 .. n
<1>1. PICK m \in Nat : ExistsBijection(1 .. m, P)
  BY FS_NatBijection
<1>2. n = m
  BY <1>1, FS_CountingElements
<1>3. PICK f : f \in Bijection(N, P)
  BY <1>1, <1>2 DEF ExistsBijection
<1>4. /\ f \in [N -> P] /\ (\A x, y \in N : f[x] = f[y] => x = y)
      /\ \A p \in P : \E x \in N : f[x] = p
  BY <1>3 DEF Bijection, Injection, Surjection, IsInjective
<1>5. IsFiniteSet(N)
  <2>1. n \in Nat
    BY <1>2
  <2> HIDE DEF n
  <2> QED BY <2>1, FS_Interval
<1> HIDE DEF N, n
<1> DEFINE A == OfSize(N, k)
           B == OfSize(P, k)
           b == [S \in A |-> {f[x] : x \in S}]
<1>6. \A S \in SUBSET N : Cardinality({f[x] : x \in S}) = Cardinality(S) /\ {f[x] : x \in S} \in SUBSET P
  <2> TAKE S \in SUBSET N
  <2>1. IsFiniteSet(S) /\ \A x, y \in S : f[x] = f[y] => x = y
    BY <1>4, <1>5, FS_Subset
  <2>2. Cardinality({f[x] : x \in S}) = Cardinality(S)
    BY <2>1, ImageSize
  <2> QED BY <1>4, <2>2
<1>7. \A S \in A : S \in SUBSET N /\ {f[x] : x \in S} \in B
  BY <1>6 DEF OfSize
<1>8. \A T \in B : \E S \in A : {f[x] : x \in S} = T
  <2> TAKE T \in B
  <2> DEFINE S == {x \in N : f[x] \in T}
  <2>1. T \in SUBSET P /\ Cardinality(T) = k
    BY DEF OfSize
  <2>2. {f[x] : x \in S} = T
    BY <1>4, <2>1
  <2>3. S \in SUBSET N
    OBVIOUS
  <2> HIDE DEF S
  <2>4. S \in A
    <3>1. Cardinality(S) = Cardinality({f[x] : x \in S})
      BY <1>6, <2>3
    <3> QED BY <2>1, <2>2, <2>3, <3>1 DEF OfSize
  <2> QED BY <2>2, <2>4
<1>9. \A S, T \in A : {f[x] : x \in S} = {f[x] : x \in T} => S = T
  <2> SUFFICES ASSUME NEW S \in A, NEW T \in A, {f[x] : x \in S} = {f[x] : x \in T}
               PROVE  S = T
    OBVIOUS
  <2>1. S \subseteq N /\ T \subseteq N
    BY <1>7
  <2>2. \A x \in S : x \in T
    <3> TAKE x \in S
    <3>1. f[x] \in {f[y] : y \in T}
      OBVIOUS
    <3>2. PICK y \in T : f[x] = f[y]
      BY <3>1
    <3> QED BY <1>4, <2>1, <3>2
  <2>3. \A x \in T : x \in S
    <3> TAKE x \in T
    <3>1. f[x] \in {f[y] : y \in S}
      OBVIOUS
    <3>2. PICK y \in S : f[x] = f[y]
      BY <3>1
    <3> QED BY <1>4, <2>1, <3>2
  <2> QED BY <2>2, <2>3
<1> HIDE DEF A, B
<1>10. b \in Bijection(A, B)
  <2>1. DOMAIN b = A /\ \A S \in A : b[S] = {f[x] : x \in S}
    OBVIOUS
  <2>2. b \in [A -> B]
    BY <1>7
  <2> HIDE DEF b
  <2>3. \A S, T \in A : b[S] = b[T] => S = T
    BY <1>9, <2>1
  <2>4. \A T \in B : \E S \in A : b[S] = T
    <3> TAKE T \in B
    <3>1. PICK S \in A : {f[x] : x \in S} = T
      BY <1>8
    <3> QED BY <2>1, <3>1
  <2>5. b \in Injection(A, B)
    BY <2>2, <2>3 DEF Injection, IsInjective
  <2>6. b \in Surjection(A, B)
    BY <2>2, <2>4 DEF Surjection
  <2> QED BY <2>5, <2>6 DEF Bijection
<1>11. IsFiniteSet(A)
  BY <1>5, ChoicesAreFinite DEF A
<1>12. Cardinality(B) = Cardinality(A)
  BY <1>10, <1>11, FS_Bijection DEF ExistsBijection
<1>13. Comb(n, k) = Cardinality(A)
  <2>1. kSubset(k, N) = A
    BY DEF kSubset, OfSize, A
  <2> QED BY <2>1, Zenon DEF Comb, N
<1> QED BY <1>12, <1>13 DEF n, B

(* count is the number of packages, with or without a binomial. *)
LEMMA PackageCountIsExact ==
    ASSUME NEW side, NEW U, Queue(side.ids, U), IsFilter(side.filter), NEW size \in Nat
    PROVE  /\ PackageCount(side, size) = Cardinality(Accepted(side.filter, U, size))
           /\ IsFiniteSet(Accepted(side.filter, U, size))
<1> DEFINE plan == Plan(side)
           rule == side.filter[1]
           R == Required(rule)
           A == Allowed(side, U)
           F == Accepted(side.filter, U, size)
           n == size - Len(plan.required)
           missing == Target(rule) \ UNION {Covers(rule, p) : p \in Range(plan.required)}
<1>1. PackageCount(side, size) =
        IF size > Len(side.ids) THEN 0
        ELSE IF side.filter = <<>> THEN Comb(Len(side.ids), size)
        ELSE IF IsLegacy(side.filter) /\ missing = {}
        THEN IF CanComplete(plan, size) THEN Comb(Len(plan.optional), n) ELSE 0
        ELSE SumFunction(CountBySignature(side, size))
  BY Zenon DEF PackageCount
<1>2. IsFiniteSet(U) /\ Len(side.ids) = Cardinality(U)
  BY QueueType
<1>3. IsFiniteSet(F) /\ IsFiniteSet(OfSize(U, size))
  <2>1. IsFiniteSet(OfSize(U, size)) /\ F \subseteq OfSize(U, size)
    BY <1>2, ChoicesAreFinite DEF Accepted
  <2> QED BY <2>1, FS_Subset
<1> HIDE DEF F, missing, n, plan
<1>4. CASE size > Len(side.ids)
  <2>1. F = {}
    BY <1>4, NoLargerPackages DEF F
  <2>2. PackageCount(side, size) = 0
    BY <1>1, <1>4
  <2> QED BY <1>3, <2>1, <2>2, FS_EmptySet DEF F
<1>5. CASE ~(size > Len(side.ids)) /\ side.filter = <<>>
  <2>1. F = OfSize(U, size)
    BY <1>5 DEF F, Accepted, FilterHolds
  <2>2. PackageCount(side, size) = Comb(Len(side.ids), size)
    BY <1>1, <1>5
  <2>3. Comb(Cardinality(U), size) = Cardinality(OfSize(U, size))
    BY <1>2, CombCounts
  <2> QED BY <1>2, <1>3, <2>1, <2>2, <2>3 DEF F
<1>6. CASE ~(size > Len(side.ids)) /\ side.filter # <<>> /\ IsLegacy(side.filter) /\ missing = {}
  <2>1. /\ CanComplete(plan, size) =>
             /\ R \in SUBSET A /\ Range(plan.required) = R /\ Len(plan.required) = Cardinality(R)
             /\ Cardinality(R) \in Nat /\ Cardinality(R) <= size
        /\ ~CanComplete(plan, size) => F = {}
        /\ F = {S \in Between(R, A, size) : Target(rule) \subseteq UNION {Covers(rule, p) : p \in S}}
    BY <1>6, PlanCompletes DEF plan, F
  <2>2. IsFiniteSet(A) /\ Queue(plan.optional, A \ R)
    BY PlanType DEF plan
  <2>3. CASE ~CanComplete(plan, size)
    <3>1. PackageCount(side, size) = 0 /\ F = {}
      BY <1>1, <1>6, <2>1, <2>3
    <3> QED BY <1>3, <3>1, FS_EmptySet DEF F
  <2>4. CASE CanComplete(plan, size)
    <3>1. PackageCount(side, size) = Comb(Len(plan.optional), n)
      BY <1>1, <1>6, <2>4
    <3>2. Len(plan.optional) = Cardinality(A \ R) /\ IsFiniteSet(A \ R)
      BY <2>2, QueueType
    <3>3. /\ R \in SUBSET A /\ Range(plan.required) = R
          /\ Cardinality(R) \in Nat /\ Cardinality(R) <= size /\ n = size - Cardinality(R)
      BY <2>1, <2>4 DEF n
    <3> HIDE DEF R, A
    <3>4. n \in Nat
      BY ONLY <3>3, size \in Nat
    <3> DEFINE P == OfSize(A \ R, n)
               B == Between(R, A, size)
    <3>5. Comb(Cardinality(A \ R), n) = Cardinality(P) /\ IsFiniteSet(P)
      BY <3>2, <3>4, CombCounts, ChoicesAreFinite
    <3>6. WithAll(R, P) = B /\ \A T \in P : T \cap R = {}
      <4>1. /\ WithAll(R, OfSize(A \ R, size - Cardinality(R))) = Between(R, A, size)
            /\ \A T \in OfSize(A \ R, size - Cardinality(R)) : T \cap R = {} /\ R \cup T \in Between(R, A, size)
        <5>1. IsFiniteSet(A) /\ R \in SUBSET A /\ size \in Nat /\ Cardinality(R) <= size
          BY <2>2, <3>3
        <5> QED BY ONLY <5>1, BetweenIsChosen, Zenon
      <4> QED BY <3>3, <4>1
    <3> HIDE DEF P, B
    <3> DEFINE f == [T \in P |-> R \cup T]
    <3>7. \A S, T \in P : f[S] = f[T] => S = T
      <4> SUFFICES ASSUME NEW S \in P, NEW T \in P, f[S] = f[T]
                   PROVE  S = T
        OBVIOUS
      <4>1. R \cup S = R \cup T /\ S \cap R = {} /\ T \cap R = {}
        BY <3>6
      <4> QED BY ONLY <4>1
    <3>8. {f[T] : T \in P} = B
      BY <3>6 DEF WithAll
    <3> HIDE DEF f
    <3>9. Cardinality(B) = Cardinality(P)
      BY <3>5, <3>7, <3>8, ImageSize
    <3>10. F = B
      <4>1. ASSUME NEW S \in B
            PROVE  Target(rule) \subseteq UNION {Covers(rule, p) : p \in S}
        <5>1. R \subseteq S
          BY DEF B, Between
        <5>2. Target(rule) \subseteq UNION {Covers(rule, p) : p \in R}
          BY <1>6, <3>3 DEF missing
        <5> QED BY <5>1, <5>2
      <4> QED BY <2>1, <4>1 DEF B
    <3> QED BY <1>3, <3>1, <3>2, <3>5, <3>9, <3>10 DEF F
  <2> QED BY <2>3, <2>4
<1>7. CASE ~(size > Len(side.ids)) /\ side.filter # <<>> /\ ~(IsLegacy(side.filter) /\ missing = {})
  <2>1. PackageCount(side, size) = SumFunction(CountBySignature(side, size))
    BY <1>1, <1>7
  <2>2. CountBySignature(side, size) = Tally(Marks(F, side.kindOf))
    BY CountIsTally DEF F
  <2>3. DOMAIN Marks(F, side.kindOf) = F
    BY DEF Marks
  <2>4. SumFunction(Tally(Marks(F, side.kindOf))) = Cardinality(F)
    BY <1>3, <2>3, TallyTotal
  <2> QED BY <1>3, <2>1, <2>2, <2>4 DEF F
<1> QED BY <1>4, <1>5, <1>6, <1>7

-----------------------------------------------------------------------------
(* The candidates of one pair of sizes of a two-team request.              *)

AmongTwo == request \in Requests /\ Len(request.rosters) = 2

\* The players a team may send.
Free(t) == Owned(request.rosters[t]) \ request.rules.locked

OutPackages(n) == Accepted(request.rules.outgoingFilter, Free(1), n)

InPackages(n) == Accepted(request.rules.incomingFilter, Free(2), n)

(* The two sides of the space. *)
LEMMA TwoSides ==
    ASSUME AmongTwo
    PROVE  /\ Teams(request) = 1 .. 2 /\ IsRoster(request.rosters[1]) /\ IsRoster(request.rosters[2])
           /\ Outgoing(request).filter = request.rules.outgoingFilter /\ IsFilter(request.rules.outgoingFilter)
           /\ Incoming(request).filter = request.rules.incomingFilter /\ IsFilter(request.rules.incomingFilter)
           /\ Outgoing(request).kindOf = request.rosters[1].kindOf
           /\ Incoming(request).kindOf = request.rosters[2].kindOf
           /\ Queue(Outgoing(request).ids, Free(1)) /\ Queue(Incoming(request).ids, Free(2))
<1>1. Teams(request) = 1 .. 2 /\ request \in Requests /\ Len(request.rosters) = 2
  BY RequestType DEF AmongTwo
<1>2. IsRoster(request.rosters[1]) /\ IsRoster(request.rosters[2])
  <2>1. 1 \in Teams(request) /\ 2 \in Teams(request)
    BY <1>1
  <2> QED BY <1>1, <2>1, RequestType
<1>3. IsFilter(request.rules.outgoingFilter) /\ IsFilter(request.rules.incomingFilter)
  BY <1>1, RulesAssumption
<1>4. ASSUME NEW t \in 1 .. 2, NEW filter
      PROVE  LET side == Side(request, t, filter)
             IN /\ side.filter = filter /\ side.kindOf = request.rosters[t].kindOf
                /\ Queue(side.ids, Free(t))
  <2> DEFINE players == request.rosters[t].players
             side == Side(request, t, filter)
             ids == Without(players, request.rules.locked)
             kindOf == request.rosters[t].kindOf
  <2>1. side = [ids |-> ids, filter |-> filter, kindOf |-> kindOf]
    BY Zenon DEF Side
  <2>2. Queue(players, Owned(request.rosters[t])) /\ Range(players) = Owned(request.rosters[t])
    <3>1. IsRoster(request.rosters[t])
      BY <1>2
    <3> QED BY <3>1 DEF IsRoster, Queue, Owned
  <2>3. Queue(Selected(players, Range(players) \ request.rules.locked),
              Owned(request.rosters[t]) \cap (Range(players) \ request.rules.locked))
    BY <2>2, SelectedQueue
  <2>4. Owned(request.rosters[t]) \cap (Range(players) \ request.rules.locked) = Free(t)
    BY <2>2 DEF Free
  <2>5. Queue(ids, Free(t))
    BY <2>3, <2>4 DEF Without
  <2> HIDE DEF ids, kindOf, side
  <2>6. side.filter = filter /\ side.kindOf = kindOf /\ side.ids = ids
    BY <2>1
  <2> QED BY <2>5, <2>6 DEF side, kindOf
<1>5. /\ Outgoing(request) = Side(request, 1, request.rules.outgoingFilter)
      /\ Incoming(request) = Side(request, 2, request.rules.incomingFilter)
  BY Zenon DEF Outgoing, Incoming
<1>6. 1 \in 1 .. 2 /\ 2 \in 1 .. 2
  OBVIOUS
<1> QED BY <1>1, <1>2, <1>3, <1>4, <1>5, <1>6

\* Whether the sizes and the reserve players of two packages are admitted.
ValidSets(pair, S, T) ==
  PairIsValid(request, pair, Signature(S, request.rosters[1].kindOf), Signature(T, request.rosters[2].kindOf))

\* The pairs of packages that make a trade of a pair of sizes.
Deals(pair) == {z \in OutPackages(pair[1]) \X InPackages(pair[2]) : ValidSets(pair, z[1], z[2])}

\* All pairs of packages of a pair of sizes.
AllPairs(pair) == Product(Packages(Outgoing(request), pair[1]), Packages(Incoming(request), pair[2]))

\* The candidates of a pair of sizes, in order.
PairList(pair) ==
  Selected(AllPairs(pair),
    {c \in Range(AllPairs(pair)) : ValidSets(pair, Range(c[<<1, 2>>]), Range(c[<<2, 1>>]))})

\* The candidates in C make the deals in D, each once.
Makes(C, D) ==
  /\ \A c \in C : /\ c = TwoTeamCandidate(c[<<1, 2>>], c[<<2, 1>>])
                  /\ Queue(c[<<1, 2>>], Range(c[<<1, 2>>])) /\ Queue(c[<<2, 1>>], Range(c[<<2, 1>>]))
                  /\ <<Range(c[<<1, 2>>]), Range(c[<<2, 1>>])>> \in D
  /\ \A c, d \in C : /\ Range(c[<<1, 2>>]) = Range(d[<<1, 2>>])
                     /\ Range(c[<<2, 1>>]) = Range(d[<<2, 1>>])
                     => c = d
  /\ \A z \in D : \E c \in C : z = <<Range(c[<<1, 2>>]), Range(c[<<2, 1>>])>>

\* A pair of sizes.
IsPair(pair) == pair = <<pair[1], pair[2]>> /\ pair[1] \in Nat /\ pair[2] \in Nat

(* The packages of both sides. *)
LEMMA BothPackages ==
    ASSUME AmongTwo, NEW pair, IsPair(pair)
    PROVE  /\ Catalogues(Packages(Outgoing(request), pair[1]), OutPackages(pair[1]))
           /\ Catalogues(Packages(Incoming(request), pair[2]), InPackages(pair[2]))
           /\ PackageCount(Outgoing(request), pair[1]) = Cardinality(OutPackages(pair[1]))
           /\ PackageCount(Incoming(request), pair[2]) = Cardinality(InPackages(pair[2]))
           /\ CountBySignature(Outgoing(request), pair[1])
                = Tally(Marks(OutPackages(pair[1]), request.rosters[1].kindOf))
           /\ CountBySignature(Incoming(request), pair[2])
                = Tally(Marks(InPackages(pair[2]), request.rosters[2].kindOf))
           /\ IsFiniteSet(OutPackages(pair[1])) /\ IsFiniteSet(InPackages(pair[2]))
<1>1. pair[1] \in Nat /\ pair[2] \in Nat
  BY DEF IsPair
<1>2. /\ Outgoing(request).filter = request.rules.outgoingFilter /\ IsFilter(Outgoing(request).filter)
      /\ Incoming(request).filter = request.rules.incomingFilter /\ IsFilter(Incoming(request).filter)
      /\ Outgoing(request).kindOf = request.rosters[1].kindOf
      /\ Incoming(request).kindOf = request.rosters[2].kindOf
      /\ Queue(Outgoing(request).ids, Free(1)) /\ Queue(Incoming(request).ids, Free(2))
  BY TwoSides
<1>3. /\ OutPackages(pair[1]) = Accepted(Outgoing(request).filter, Free(1), pair[1])
      /\ InPackages(pair[2]) = Accepted(Incoming(request).filter, Free(2), pair[2])
  BY <1>2 DEF OutPackages, InPackages
<1>4. /\ Catalogues(Packages(Outgoing(request), pair[1]), OutPackages(pair[1]))
      /\ Catalogues(Packages(Incoming(request), pair[2]), InPackages(pair[2]))
  BY <1>1, <1>2, <1>3, PackagesList
<1>5. /\ PackageCount(Outgoing(request), pair[1]) = Cardinality(OutPackages(pair[1]))
      /\ PackageCount(Incoming(request), pair[2]) = Cardinality(InPackages(pair[2]))
      /\ IsFiniteSet(OutPackages(pair[1])) /\ IsFiniteSet(InPackages(pair[2]))
  BY <1>1, <1>2, <1>3, PackageCountIsExact
<1>6. /\ CountBySignature(Outgoing(request), pair[1])
           = Tally(Marks(OutPackages(pair[1]), request.rosters[1].kindOf))
      /\ CountBySignature(Incoming(request), pair[2])
           = Tally(Marks(InPackages(pair[2]), request.rosters[2].kindOf))
  BY <1>1, <1>2, <1>3, CountIsTally
<1> QED BY <1>4, <1>5, <1>6

(* The list of a pair of sizes makes its deals. *)
LEMMA PairListHolds ==
    ASSUME AmongTwo, NEW pair, IsPair(pair)
    PROVE  \E C : Queue(PairList(pair), C) /\ Makes(C, Deals(pair))
<1> DEFINE a == Packages(Outgoing(request), pair[1])
           b == Packages(Incoming(request), pair[2])
           F == OutPackages(pair[1])
           G == InPackages(pair[2])
           Valid(S, T) == ValidSets(pair, S, T)
           K == {c \in Range(AllPairs(pair)) : Valid(Range(c[<<1, 2>>]), Range(c[<<2, 1>>]))}
<1>1. Catalogues(a, F) /\ Catalogues(b, G)
  BY BothPackages
<1>2. PICK A : Queue(a, A) /\ Arranges(A, F)
  BY <1>1, Zenon DEF Catalogues
<1>3. PICK B : Queue(b, B) /\ Arranges(B, G)
  BY <1>1, Zenon DEF Catalogues
<1>4. Queue(AllPairs(pair), Candidates(A, B))
  BY <1>2, <1>3, ProductQueue DEF AllPairs
<1>5. Range(AllPairs(pair)) = Candidates(A, B)
  BY <1>4, QueueType
<1> DEFINE C == Candidates(A, B) \cap K
<1>6. Queue(PairList(pair), C)
  BY <1>4, SelectedQueue DEF PairList
<1>7. \A x \in A, y \in B :
        LET c == TwoTeamCandidate(x, y)
        IN c[<<1, 2>>] = x /\ c[<<2, 1>>] = y /\ c \in Candidates(A, B)
  BY CandidateType DEF Candidates
<1>8. \A c \in C : \E x \in A, y \in B : c = TwoTeamCandidate(x, y) /\ Valid(Range(x), Range(y))
  <2> TAKE c \in C
  <2>1. PICK x \in A, y \in B : c = TwoTeamCandidate(x, y)
    BY DEF Candidates
  <2>2. c[<<1, 2>>] = x /\ c[<<2, 1>>] = y
    BY <1>7, <2>1
  <2>3. Valid(Range(c[<<1, 2>>]), Range(c[<<2, 1>>]))
    OBVIOUS
  <2> HIDE DEF Valid, C
  <2> QED BY <2>1, <2>2, <2>3
<1>9. ASSUME NEW x \in A, NEW y \in B, Valid(Range(x), Range(y))
      PROVE  TwoTeamCandidate(x, y) \in C
  <2> DEFINE c == TwoTeamCandidate(x, y)
  <2>1. c[<<1, 2>>] = x /\ c[<<2, 1>>] = y /\ c \in Candidates(A, B)
    BY <1>7
  <2> HIDE DEF c, Valid
  <2>2. c \in K
    BY <1>5, <1>9, <2>1
  <2> QED BY <2>1, <2>2 DEF c
<1>d. \A S, T : <<S, T>> \in Deals(pair) <=> S \in F /\ T \in G /\ Valid(S, T)
  BY DEF Deals
<1>e. \A z \in Deals(pair) : \E S \in F, T \in G : z = <<S, T>> /\ Valid(S, T)
  BY DEF Deals
<1> HIDE DEF C, K, Valid, F, G
<1>10. Makes(C, Deals(pair))
  <2>1. ASSUME NEW c \in C
        PROVE  /\ c = TwoTeamCandidate(c[<<1, 2>>], c[<<2, 1>>])
               /\ Queue(c[<<1, 2>>], Range(c[<<1, 2>>])) /\ Queue(c[<<2, 1>>], Range(c[<<2, 1>>]))
               /\ <<Range(c[<<1, 2>>]), Range(c[<<2, 1>>])>> \in Deals(pair)
               /\ c[<<1, 2>>] \in A /\ c[<<2, 1>>] \in B
    <3>1. PICK x \in A, y \in B : c = TwoTeamCandidate(x, y) /\ Valid(Range(x), Range(y))
      BY <1>8
    <3>2. c[<<1, 2>>] = x /\ c[<<2, 1>>] = y
      BY <1>7, <3>1
    <3>3. Queue(x, Range(x)) /\ Range(x) \in F /\ Queue(y, Range(y)) /\ Range(y) \in G
      BY <1>2, <1>3 DEF Arranges
    <3>4. <<Range(x), Range(y)>> \in Deals(pair)
      BY <1>d, <3>1, <3>3
    <3> QED BY <3>1, <3>2, <3>3, <3>4
  <2>2. ASSUME NEW c \in C, NEW d \in C,
               Range(c[<<1, 2>>]) = Range(d[<<1, 2>>]), Range(c[<<2, 1>>]) = Range(d[<<2, 1>>])
        PROVE  c = d
    <3>1. c[<<1, 2>>] = d[<<1, 2>>]
      BY <1>2, <2>1, <2>2 DEF Arranges
    <3>2. c[<<2, 1>>] = d[<<2, 1>>]
      BY <1>3, <2>1, <2>2 DEF Arranges
    <3>3. c = TwoTeamCandidate(c[<<1, 2>>], c[<<2, 1>>]) /\ d = TwoTeamCandidate(d[<<1, 2>>], d[<<2, 1>>])
      BY <2>1
    <3> QED BY <3>1, <3>2, <3>3
  <2>3. ASSUME NEW z \in Deals(pair)
        PROVE  \E c \in C : z = <<Range(c[<<1, 2>>]), Range(c[<<2, 1>>])>>
    <3>1. PICK S \in F, T \in G : z = <<S, T>> /\ Valid(S, T)
      BY <1>e
    <3>2. PICK x \in A : Range(x) = S
      BY <1>2 DEF Arranges
    <3>3. PICK y \in B : Range(y) = T
      BY <1>3 DEF Arranges
    <3>4. TwoTeamCandidate(x, y) \in C
      BY <1>9, <3>1, <3>2, <3>3
    <3>5. TwoTeamCandidate(x, y)[<<1, 2>>] = x /\ TwoTeamCandidate(x, y)[<<2, 1>>] = y
      BY <1>7
    <3> QED BY <3>1, <3>2, <3>3, <3>4, <3>5
  <2> QED BY <2>1, <2>2, <2>3 DEF Makes
<1> QED BY <1>6, <1>10

(* A pair of sizes has as many candidates as deals. *)
LEMMA PairListSize ==
    ASSUME AmongTwo, NEW pair, IsPair(pair)
    PROVE  /\ Len(PairList(pair)) = Cardinality(Deals(pair))
           /\ IsFiniteSet(Deals(pair)) /\ Cardinality(Deals(pair)) \in Nat
<1>1. PICK C : Queue(PairList(pair), C) /\ Makes(C, Deals(pair))
  BY PairListHolds
<1>2. IsFiniteSet(C) /\ Len(PairList(pair)) = Cardinality(C)
  BY <1>1, QueueType
<1> DEFINE D == Deals(pair)
           f == [c \in C |-> <<Range(c[<<1, 2>>]), Range(c[<<2, 1>>])>>]
<1> HIDE DEF D
<1>3. /\ \A c \in C : <<Range(c[<<1, 2>>]), Range(c[<<2, 1>>])>> \in D
      /\ \A c, d \in C : /\ Range(c[<<1, 2>>]) = Range(d[<<1, 2>>])
                         /\ Range(c[<<2, 1>>]) = Range(d[<<2, 1>>])
                         => c = d
      /\ \A z \in D : \E c \in C : z = <<Range(c[<<1, 2>>]), Range(c[<<2, 1>>])>>
  BY <1>1 DEF Makes, D
<1>4. \A c, d \in C : f[c] = f[d] => c = d
  BY <1>3
<1>5. {f[c] : c \in C} = D
  BY <1>3
<1> HIDE DEF f
<1>6. IsFiniteSet(D) /\ Cardinality(D) = Cardinality(C)
  <2>1. IsFiniteSet({f[c] : c \in C}) /\ Cardinality({f[c] : c \in C}) = Cardinality(C)
    BY <1>2, <1>4, ImageSize
  <2> QED BY <1>5, <2>1
<1> QED BY <1>2, <1>6, FS_CardinalityType DEF D

(* Without reserve slots nobody a team may send is a reserve player. *)
LEMMA NobodyInReserve ==
    ASSUME AmongTwo, ~HasReserve(request), NEW t \in 1 .. 2, NEW S, S \subseteq Free(t)
    PROVE  Signature(S, request.rosters[t].kindOf) = NoSlots
<1> DEFINE roster == request.rosters[t]
<1>1. IsRoster(roster) /\ t \in Teams(request)
  <2>1. Teams(request) = 1 .. 2 /\ IsRoster(request.rosters[1]) /\ IsRoster(request.rosters[2])
    BY TwoSides
  <2> QED BY <2>1
<1> HIDE DEF roster
<1>2. IsFiniteSet(Owned(roster))
  BY <1>1, RosterType
<1>3. \A k \in Kinds : OfKind(roster.kindOf, S, k) = {}
  <2> TAKE k \in Kinds
  <2> DEFINE O == OfKind(roster.kindOf, Owned(roster), k)
  <2>1. roster.slots[k] \in Nat /\ Cardinality(O) <= roster.slots[k]
    BY <1>1 DEF IsRoster
  <2>2. ~(roster.slots[k] > 0)
    BY <1>1 DEF HasReserve, roster
  <2>3. IsFiniteSet(O)
    BY <1>2, OfKindType
  <2>4. OfKind(roster.kindOf, S, k) \subseteq O
    BY DEF OfKind, Free, roster
  <2> HIDE DEF O
  <2>5. Cardinality(O) \in Nat
    BY <2>3, FS_CardinalityType
  <2>6. Cardinality(O) = 0
    BY <2>1, <2>2, <2>5
  <2>7. O = {}
    BY <2>3, <2>6, FS_EmptySet
  <2> QED BY <2>4, <2>7
<1>4. Cardinality({}) = 0
  BY FS_EmptySet
<1>5. Signature(S, roster.kindOf) = NoSlots
  BY <1>3, <1>4 DEF Signature, NoSlots
<1> QED BY <1>5 DEF roster

(* Without reserve slots every pair of packages is a deal, or none is. *)
LEMMA AllOrNone ==
    ASSUME AmongTwo, ~HasReserve(request), NEW pair
    PROVE  \A S \in OutPackages(pair[1]), T \in InPackages(pair[2]) :
             ValidSets(pair, S, T) <=> PairIsValid(request, pair, NoSlots, NoSlots)
<1> TAKE S \in OutPackages(pair[1]), T \in InPackages(pair[2])
<1>1. S \subseteq Free(1) /\ T \subseteq Free(2)
  BY DEF OutPackages, InPackages, Accepted, OfSize
<1>2. 1 \in 1 .. 2 /\ 2 \in 1 .. 2
  OBVIOUS
<1>3. Signature(S, request.rosters[1].kindOf) = NoSlots
  BY <1>1, <1>2, NobodyInReserve
<1>4. Signature(T, request.rosters[2].kindOf) = NoSlots
  BY <1>1, <1>2, NobodyInReserve
<1> QED BY <1>3, <1>4, Zenon DEF ValidSets

(* _count_candidates counts the deals of a pair of sizes, with or without reserve slots. *)
LEMMA PairCountHolds ==
    ASSUME AmongTwo, NEW pair, IsPair(pair)
    PROVE  PairCount(request, pair) = Cardinality(Deals(pair))
<1> DEFINE F == OutPackages(pair[1])
           G == InPackages(pair[2])
           f == Marks(F, request.rosters[1].kindOf)
           g == Marks(G, request.rosters[2].kindOf)
           outgoing == CountBySignature(Outgoing(request), pair[1])
           incoming == CountBySignature(Incoming(request), pair[2])
           valid == {v \in (DOMAIN outgoing) \X (DOMAIN incoming) : PairIsValid(request, pair, v[1], v[2])}
<1>1. /\ PackageCount(Outgoing(request), pair[1]) = Cardinality(F)
      /\ PackageCount(Incoming(request), pair[2]) = Cardinality(G)
      /\ outgoing = Tally(f) /\ incoming = Tally(g)
      /\ IsFiniteSet(F) /\ IsFiniteSet(G)
  BY BothPackages
<1>2. Deals(pair) = {z \in F \X G : ValidSets(pair, z[1], z[2])}
  BY DEF Deals
<1>3. CASE ~HasReserve(request)
  <2>1. PairCount(request, pair) =
          IF PairIsValid(request, pair, NoSlots, NoSlots)
          THEN PackageCount(Outgoing(request), pair[1]) * PackageCount(Incoming(request), pair[2])
          ELSE 0
    BY <1>3, Zenon DEF PairCount
  <2>2. \A S \in F, T \in G : ValidSets(pair, S, T) <=> PairIsValid(request, pair, NoSlots, NoSlots)
    BY <1>3, AllOrNone
  <2> HIDE DEF F, G
  <2>3. CASE PairIsValid(request, pair, NoSlots, NoSlots)
    <3>1. Deals(pair) = F \X G
      BY <1>2, <2>2, <2>3
    <3>2. Cardinality(F \X G) = Cardinality(F) * Cardinality(G)
      BY <1>1, FS_Product
    <3> QED BY <1>1, <2>1, <2>3, <3>1, <3>2
  <2>4. CASE ~PairIsValid(request, pair, NoSlots, NoSlots)
    <3>1. Deals(pair) = {}
      BY <1>2, <2>2, <2>4
    <3> QED BY <2>1, <2>4, <3>1, FS_EmptySet
  <2> QED BY <2>3, <2>4
<1>4. CASE HasReserve(request)
  <2>1. PairCount(request, pair) = SumFunction([v \in valid |-> outgoing[v[1]] * incoming[v[2]]])
    BY <1>4, Zenon DEF PairCount, ValidPairs
  <2>2. DOMAIN f = F /\ DOMAIN g = G
    BY DEF Marks
  <2>f. /\ \A S \in F : f[S] = Signature(S, request.rosters[1].kindOf) /\ f[S] \in Range(f)
        /\ \A T \in G : g[T] = Signature(T, request.rosters[2].kindOf) /\ g[T] \in Range(g)
    BY DEF Marks, Range
  <2>3. DOMAIN outgoing = Range(f) /\ DOMAIN incoming = Range(g)
    <3>1. DOMAIN Tally(f) = Range(f) /\ DOMAIN Tally(g) = Range(g)
      BY DEF Tally
    <3> QED BY <1>1, <3>1
  <2> HIDE DEF f, g, outgoing, incoming, F, G
  <2>4. valid \in SUBSET (Range(f) \X Range(g))
    BY <2>3
  <2>5. \A S \in F, T \in G : <<f[S], g[T]>> \in valid <=> ValidSets(pair, S, T)
    BY <2>f, <2>3 DEF ValidSets
  <2>6. {z \in F \X G : <<f[z[1]], g[z[2]]>> \in valid} = Deals(pair)
    <3> HIDE DEF valid
    <3> QED BY <1>2, <2>5
  <2> HIDE DEF valid
  <2>7. SumFunction([v \in valid |-> Tally(f)[v[1]] * Tally(g)[v[2]]])
          = Cardinality({z \in (DOMAIN f) \X (DOMAIN g) : <<f[z[1]], g[z[2]]>> \in valid})
    BY <1>1, <2>2, <2>4, TallyPairs
  <2>8. SumFunction([v \in valid |-> Tally(f)[v[1]] * Tally(g)[v[2]]]) = PairCount(request, pair)
    BY <1>1, <2>1
  <2> QED BY <2>2, <2>6, <2>7, <2>8
<1> QED BY <1>3, <1>4

(* Selecting all of a list. *)
LEMMA SelectedWhole ==
    ASSUME NEW s, NEW Q, Queue(s, Q), NEW S, Q \subseteq S
    PROVE  Selected(s, S) = s
<1> DEFINE n == Len(s)
           ss == [i \in 1 .. n |-> <<s[i]>>]
           f == [i \in 0 .. n |-> SubSeq(s, 1, i)]
<1>1. s \in Seq(Q) /\ n \in Nat /\ DOMAIN s = 1 .. n /\ \A i \in 1 .. n : s[i] \in Q
  BY QueueType
<1>2. Selected(s, S) = FlattenSeq(ss)
  <2>1. ss = [i \in DOMAIN s |-> IF s[i] \in S THEN <<s[i]>> ELSE <<>>]
    BY <1>1
  <2> HIDE DEF ss
  <2> QED BY <2>1, Zenon DEF Selected
<1>3. ss \in Seq(Seq(Q)) /\ Len(ss) = n /\ \A i \in 1 .. n : ss[i] = <<s[i]>>
  BY <1>1
<1> HIDE DEF n
<1>4. IsJoins(f, ss, Q)
  <2>1. \A i \in 0 .. n : SubSeq(s, 1, i) \in Seq(Q)
    BY <1>1 DEF n
  <2>2. SubSeq(s, 1, 0) = <<>>
    BY <1>1
  <2>3. \A i \in 1 .. n : i - 1 \in 0 .. n /\ SubSeq(s, 1, i) = SubSeq(s, 1, i - 1) \o <<s[i]>>
    BY <1>1 DEF n
  <2> HIDE DEF ss
  <2>a. f \in [0 .. n -> Seq(Q)] /\ \A i \in 0 .. n : f[i] = SubSeq(s, 1, i)
    BY <2>1
  <2> HIDE DEF f
  <2>b. f[0] = <<>>
    BY <1>1, <2>2, <2>a
  <2>c. \A i \in 1 .. n : f[i] = f[i - 1] \o ss[i]
    <3> TAKE i \in 1 .. n
    <3>1. i \in 0 .. n /\ i - 1 \in 0 .. n /\ ss[i] = <<s[i]>>
      BY <1>1, <1>3
    <3>2. f[i] = SubSeq(s, 1, i) /\ f[i - 1] = SubSeq(s, 1, i - 1)
      BY <2>a, <3>1
    <3>3. SubSeq(s, 1, i) = SubSeq(s, 1, i - 1) \o <<s[i]>>
      BY <2>3
    <3> QED BY ONLY <3>1, <3>2, <3>3
  <2>4. /\ f \in [0 .. n -> Seq(Q)] /\ f[0] = <<>>
        /\ \A i \in 1 .. n : f[i] = f[i - 1] \o ss[i]
    BY <2>a, <2>b, <2>c
  <2> QED BY <1>3, <2>3, <2>4, Zenon DEF IsJoins
<1> HIDE DEF ss
<1>5. f[n] = s
  <2>1. f[n] = SubSeq(s, 1, n)
    BY <1>1
  <2>2. SubSeq(s, 1, Len(s)) = s
    BY <1>1
  <2> QED BY <2>1, <2>2 DEF n
<1> HIDE DEF f
<1>6. FlattenSeq(ss) = f[Len(ss)]
  BY <1>3, <1>4, FlattenIsLast
<1> QED BY <1>2, <1>3, <1>5, <1>6

(* Without reserve slots, a pair of sizes with a candidate has every pair of packages. *)
LEMMA SimpleListIsWhole ==
    ASSUME AmongTwo, ~HasReserve(request), NEW pair, IsPair(pair), Cardinality(Deals(pair)) # 0
    PROVE  PairList(pair) = AllPairs(pair)
<1> DEFINE a == Packages(Outgoing(request), pair[1])
           b == Packages(Incoming(request), pair[2])
           F == OutPackages(pair[1])
           G == InPackages(pair[2])
           K == {c \in Range(AllPairs(pair)) : ValidSets(pair, Range(c[<<1, 2>>]), Range(c[<<2, 1>>]))}
<1>1. Catalogues(a, F) /\ Catalogues(b, G)
  BY BothPackages
<1>2. PICK A : Queue(a, A) /\ Arranges(A, F)
  BY <1>1, Zenon DEF Catalogues
<1>3. PICK B : Queue(b, B) /\ Arranges(B, G)
  BY <1>1, Zenon DEF Catalogues
<1>4. Queue(AllPairs(pair), Candidates(A, B))
  BY <1>2, <1>3, ProductQueue DEF AllPairs
<1>5. Range(AllPairs(pair)) = Candidates(A, B)
  BY <1>4, QueueType
<1>6. \A S \in F, T \in G : ValidSets(pair, S, T) <=> PairIsValid(request, pair, NoSlots, NoSlots)
  BY AllOrNone
<1>7. PairIsValid(request, pair, NoSlots, NoSlots)
  <2>1. Deals(pair) # {}
    BY FS_EmptySet
  <2>2. PICK z \in Deals(pair) : TRUE
    BY <2>1
  <2>3. z[1] \in F /\ z[2] \in G /\ ValidSets(pair, z[1], z[2])
    BY <2>2 DEF Deals
  <2> HIDE DEF F, G
  <2> QED BY <1>6, <2>3
<1>8. \A c \in Candidates(A, B) : c \in K
  <2> TAKE c \in Candidates(A, B)
  <2>1. PICK x \in A, y \in B : c = TwoTeamCandidate(x, y)
    BY DEF Candidates
  <2>2. c[<<1, 2>>] = x /\ c[<<2, 1>>] = y
    BY <2>1, CandidateType
  <2>3. Range(x) \in F /\ Range(y) \in G
    BY <1>2, <1>3 DEF Arranges
  <2> HIDE DEF F, G
  <2>4. ValidSets(pair, Range(x), Range(y))
    BY <1>6, <1>7, <2>3
  <2> QED BY <1>5, <2>2, <2>4
<1>9. Candidates(A, B) \subseteq K
  BY <1>8
<1>10. PairList(pair) = Selected(AllPairs(pair), K)
  BY DEF PairList
<1> HIDE DEF K
<1> QED BY <1>4, <1>9, <1>10, SelectedWhole

\* What _iterate_from yields of a pair of sizes, after the first skip of it.
PairFrom(pair, skip) ==
  IF HasReserve(request) THEN ReservePair(request, pair, skip) ELSE SimplePair(request, pair, skip)

(* A pair of sizes is iterated from any of its indexes on. *)
LEMMA PairFromHolds ==
    ASSUME AmongTwo, NEW pair, IsPair(pair), NEW skip \in Nat, skip < Cardinality(Deals(pair))
    PROVE  PairFrom(pair, skip) = From(PairList(pair), skip)
<1> DEFINE a == Packages(Outgoing(request), pair[1])
           b == Packages(Incoming(request), pair[2])
           F == OutPackages(pair[1])
           G == InPackages(pair[2])
<1>1. CASE HasReserve(request)
  <2>1. PairFrom(pair, skip) = ReservePair(request, pair, skip)
    BY <1>1 DEF PairFrom
  <2>2. ReservePair(request, pair, skip) = From(PairList(pair), skip)
    BY Zenon DEF ReservePair, PairList, AllPairs, ValidSets
  <2> QED BY <2>1, <2>2
<1>2. CASE ~HasReserve(request)
  <2>1. Cardinality(Deals(pair)) \in Nat
    BY PairListSize
  <2>2. PairList(pair) = AllPairs(pair)
    <3>1. Cardinality(Deals(pair)) # 0
      BY <2>1
    <3> QED BY <1>2, <3>1, SimpleListIsWhole
  <2>3. /\ Catalogues(a, F) /\ Catalogues(b, G)
        /\ PackageCount(Incoming(request), pair[2]) = Cardinality(G)
    BY BothPackages
  <2>4. PICK A : Queue(a, A)
    BY <2>3, Zenon DEF Catalogues
  <2>5. PICK B : Queue(b, B)
    BY <2>3, Zenon DEF Catalogues
  <2>6. a \in Seq(A) /\ b \in Seq(B)
    BY <2>4, <2>5 DEF Queue
  <2>7. Len(b) = PackageCount(Incoming(request), pair[2])
    BY <2>3, CatalogueSize
  <2>8. AllPairs(pair) = Product(a, b)
    BY DEF AllPairs
  <2>9. PairFrom(pair, skip) = SimplePair(request, pair, skip)
    BY <1>2 DEF PairFrom
  <2>10. SimplePair(request, pair, skip) =
           LET first == From(a, skip \div PackageCount(Incoming(request), pair[2]))
           IN From(Product(SubSeq(first, 1, 1), b), skip % PackageCount(Incoming(request), pair[2]))
                \o Product(From(first, 1), b)
    BY Zenon DEF SimplePair, PairsAfter
  <2>11. skip < Len(a) * Len(b)
    <3>1. Len(Product(a, b)) = Len(a) * Len(b)
      <4> HIDE DEF a, b
      <4>1. \A x, y \in Seq(A) : /\ Product(x \o y, b) = Product(x, b) \o Product(y, b)
                                 /\ Product(x, b) \in Seq(Candidates(A, B))
                                 /\ Len(Product(x, b)) = Len(x) * Len(b)
        BY <2>6, ProductJoin, Zenon
      <4> QED BY <2>6, <4>1
    <3>2. Len(PairList(pair)) = Cardinality(Deals(pair))
      BY PairListSize
    <3> HIDE DEF a, b
    <3>3. Cardinality(Deals(pair)) = Len(a) * Len(b)
      BY <2>2, <2>8, <3>1, <3>2
    <3> QED BY <3>3
  <2> HIDE DEF a, b, F, G
  <2>12. LET first == From(a, skip \div Len(b))
         IN From(Product(SubSeq(first, 1, 1), b), skip % Len(b)) \o Product(From(first, 1), b)
              = From(Product(a, b), skip)
    BY <2>6, <2>11, SimpleSkips
  <2>13. SimplePair(request, pair, skip) = From(Product(a, b), skip)
    BY <2>7, <2>10, <2>12
  <2> QED BY <2>2, <2>8, <2>9, <2>13
<1> QED BY <1>1, <1>2

-----------------------------------------------------------------------------
(* The pairs of sizes of a two-team request, one after another.            *)

\* The sizes _iter_size_pairs lets through.
Fits(pair) ==
  LET rules == request.rules
  IN /\ pair[1] \in rules.minOutgoing .. rules.maxOutgoing
     /\ pair[2] \in rules.minIncoming .. rules.maxIncoming
     /\ pair \notin rules.excluded
     /\ rules.balancedOnly => pair[1] = pair[2]
     /\ Within(pair[1] + pair[2], rules.maxTotal)
     /\ Within(Distance(pair[1], pair[2]), rules.maxImbalance)

AllSizes == (1 .. Cardinality(Free(1))) \X (1 .. Cardinality(Free(2)))

(* _iter_size_pairs lists the pairs of sizes that fit, each once. *)
LEMMA SizePairsList ==
    ASSUME AmongTwo
    PROVE  Queue(SizePairs(request), {pair \in AllSizes : Fits(pair)})
<1> DEFINE m == Len(Outgoing(request).ids)
           n == Len(Incoming(request).ids)
           outgoing == [i \in 1 .. m |-> i]
           incoming == [i \in 1 .. n |-> i]
           ss == [o \in DOMAIN outgoing |-> [i \in DOMAIN incoming |-> <<o, i>>]]
           F == [o \in 1 .. m |-> {<<o, i>> : i \in 1 .. n}]
           all == FlattenSeq(ss)
           K == {pair \in Range(all) : Fits(pair)}
<1>1. m = Cardinality(Free(1)) /\ n = Cardinality(Free(2)) /\ m \in Nat /\ n \in Nat
  BY TwoSides, QueueType
<1>2. SizePairs(request) = Selected(all, K)
  BY Zenon DEF SizePairs, Fits
<1>3. DOMAIN ss = 1 .. m /\ DOMAIN incoming = 1 .. n
      /\ \A o \in 1 .. m : ss[o] = [i \in 1 .. n |-> <<o, i>>] /\ F[o] = {<<o, i>> : i \in 1 .. n}
  OBVIOUS
<1>4. ss = [o \in 1 .. m |-> ss[o]]
  BY <1>3
<1> HIDE DEF m, n, ss, F
<1>5. \A o \in 1 .. m : Queue(ss[o], F[o])
  <2> TAKE o \in 1 .. m
  <2> DEFINE row == [i \in 1 .. n |-> <<o, i>>]
             R == {<<o, i>> : i \in 1 .. n}
  <2>1. row \in Seq(R) /\ DOMAIN row = 1 .. n /\ \A i \in 1 .. n : row[i] = <<o, i>>
    BY <1>1
  <2> HIDE DEF row
  <2>2. IsInjective(row)
    BY <2>1 DEF IsInjective
  <2>3. Range(row) = R
    BY <2>1 DEF Range
  <2>4. Queue(row, R)
    BY <2>1, <2>2, <2>3 DEF Queue
  <2> QED BY <1>3, <2>4 DEF row
<1>6. \A o, p \in 1 .. m : o # p => F[o] \cap F[p] = {}
  BY <1>3
<1>7. Queue(all, Members(F, 1 .. m))
  BY <1>1, <1>4, <1>5, <1>6, FlattenQueue
<1>8. Members(F, 1 .. m) = AllSizes
  <2>1. AllSizes = (1 .. m) \X (1 .. n)
    BY <1>1 DEF AllSizes
  <2>2. \A z \in (1 .. m) \X (1 .. n) : \E o \in 1 .. m : z \in F[o]
    BY <1>3
  <2>3. \A o \in 1 .. m : F[o] \subseteq (1 .. m) \X (1 .. n)
    BY <1>3
  <2> QED BY <2>1, <2>2, <2>3 DEF Members
<1> HIDE DEF all
<1>9. Queue(Selected(all, K), AllSizes \cap K)
  BY <1>7, <1>8, SelectedQueue
<1>10. AllSizes \cap K = {pair \in AllSizes : Fits(pair)}
  BY <1>7, <1>8, QueueType
<1> QED BY <1>2, <1>9, <1>10

Sizes == SizePairs(request)

(* The pairs of sizes are pairs of numbers. *)
LEMMA SizesType ==
    ASSUME AmongTwo
    PROVE  /\ Len(Sizes) \in Nat /\ DOMAIN Sizes = 1 .. Len(Sizes)
           /\ \A i \in 1 .. Len(Sizes) : IsPair(Sizes[i]) /\ Fits(Sizes[i])
           /\ \A i, j \in 1 .. Len(Sizes) : Sizes[i] = Sizes[j] => i = j
           /\ \A pair \in AllSizes : Fits(pair) => \E i \in 1 .. Len(Sizes) : pair = Sizes[i]
<1> DEFINE P == {pair \in AllSizes : Fits(pair)}
<1>1. \A pair \in AllSizes : IsPair(pair)
  BY DEF AllSizes, IsPair
<1>2. \A pair \in P : pair \in AllSizes /\ Fits(pair)
  OBVIOUS
<1>3. \A pair \in AllSizes : Fits(pair) => pair \in P
  OBVIOUS
<1> HIDE DEF P
<1>4. Queue(Sizes, P)
  BY SizePairsList DEF P, Sizes
<1>5. /\ Len(Sizes) \in Nat /\ DOMAIN Sizes = 1 .. Len(Sizes)
      /\ \A i \in 1 .. Len(Sizes) : Sizes[i] \in P
      /\ \A i, j \in 1 .. Len(Sizes) : Sizes[i] = Sizes[j] => i = j
      /\ \A x \in P : \E i \in 1 .. Len(Sizes) : x = Sizes[i]
  BY <1>4, QueueType
<1> QED BY <1>1, <1>2, <1>3, <1>5

\* The candidates of every pair of sizes, of one from the i-th on, and all.
Lines == [i \in 1 .. Len(Sizes) |-> PairList(Sizes[i])]

RestOf(i) == FlattenSeq(From(Lines, i - 1))

AllPairLists == FlattenSeq(Lines)

Made(i) == Range(PairList(Sizes[i]))

(* The candidates of a pair of sizes make its deals, those of two are different. *)
LEMMA EachLine ==
    ASSUME AmongTwo
    PROVE  /\ \A i \in 1 .. Len(Sizes) : Queue(Lines[i], Made(i)) /\ Makes(Made(i), Deals(Sizes[i]))
           /\ \A i, j \in 1 .. Len(Sizes) : i # j => /\ Deals(Sizes[i]) \cap Deals(Sizes[j]) = {}
                                                     /\ Made(i) \cap Made(j) = {}
<1>1. ASSUME NEW i \in 1 .. Len(Sizes)
      PROVE  Queue(Lines[i], Made(i)) /\ Makes(Made(i), Deals(Sizes[i]))
  <2>1. IsPair(Sizes[i])
    BY SizesType
  <2>2. PICK C : Queue(PairList(Sizes[i]), C) /\ Makes(C, Deals(Sizes[i]))
    BY <2>1, PairListHolds
  <2>3. C = Made(i)
    BY <2>2, QueueType DEF Made
  <2>4. Lines[i] = PairList(Sizes[i])
    BY DEF Lines
  <2> QED BY <2>2, <2>3, <2>4
<1>2. \A pair : IsPair(pair) => \A z \in Deals(pair) : <<Cardinality(z[1]), Cardinality(z[2])>> = pair
  BY DEF Deals, IsPair, OutPackages, InPackages, Accepted, OfSize
<1>3. ASSUME NEW i \in 1 .. Len(Sizes), NEW j \in 1 .. Len(Sizes), i # j
      PROVE  Deals(Sizes[i]) \cap Deals(Sizes[j]) = {}
  <2>1. IsPair(Sizes[i]) /\ IsPair(Sizes[j]) /\ Sizes[i] # Sizes[j]
    BY <1>3, SizesType
  <2>2. \A z \in Deals(Sizes[i]) : <<Cardinality(z[1]), Cardinality(z[2])>> = Sizes[i]
    BY <1>2, <2>1
  <2>3. \A z \in Deals(Sizes[j]) : <<Cardinality(z[1]), Cardinality(z[2])>> = Sizes[j]
    BY <1>2, <2>1
  <2> QED BY <2>1, <2>2, <2>3
<1>4. ASSUME NEW i \in 1 .. Len(Sizes), NEW j \in 1 .. Len(Sizes), i # j
      PROVE  Made(i) \cap Made(j) = {}
  <2>1. Deals(Sizes[i]) \cap Deals(Sizes[j]) = {}
    BY <1>3, <1>4
  <2>2. \A c \in Made(i) : <<Range(c[<<1, 2>>]), Range(c[<<2, 1>>])>> \in Deals(Sizes[i])
    BY <1>1 DEF Makes
  <2>3. \A c \in Made(j) : <<Range(c[<<1, 2>>]), Range(c[<<2, 1>>])>> \in Deals(Sizes[j])
    BY <1>1 DEF Makes
  <2> QED BY <2>1, <2>2, <2>3
<1> QED BY <1>1, <1>3, <1>4

AllMade == UNION {Made(i) : i \in 1 .. Len(Sizes)}

AllDeals == UNION {Deals(Sizes[i]) : i \in 1 .. Len(Sizes)}

(* All the candidates make all the deals, as many as the space counts. *)
LEMMA AllLines ==
    ASSUME AmongTwo
    PROVE  /\ Queue(AllPairLists, AllMade) /\ Lines \in Seq(Seq(AllMade)) /\ Len(Lines) = Len(Sizes)
           /\ Makes(AllMade, AllDeals)
           /\ TwoTeamsCount(request) = Len(AllPairLists)
<1> DEFINE n == Len(Sizes)
           F == [i \in 1 .. n |-> Made(i)]
           f == [i \in DOMAIN Sizes |-> PairCount(request, Sizes[i])]
<1>1. n \in Nat /\ DOMAIN Sizes = 1 .. n /\ \A i \in 1 .. n : IsPair(Sizes[i])
  BY SizesType
<1>2. /\ \A i \in 1 .. n : Queue(Lines[i], Made(i)) /\ Makes(Made(i), Deals(Sizes[i]))
      /\ \A i, j \in 1 .. n : i # j => /\ Deals(Sizes[i]) \cap Deals(Sizes[j]) = {}
                                       /\ Made(i) \cap Made(j) = {}
  BY EachLine
<1>3. Lines = [i \in 1 .. n |-> Lines[i]]
  BY DEF Lines
<1>4. Members(F, 1 .. n) = AllMade
  BY DEF Members, AllMade
<1>5. \A i \in 1 .. n : F[i] = Made(i)
  OBVIOUS
<1> HIDE DEF F, n
<1>6. Queue(AllPairLists, AllMade) /\ Lines \in Seq(Seq(AllMade))
  <2>1. \A i \in 1 .. n : Queue(Lines[i], F[i])
    BY <1>2, <1>5
  <2>2. \A i, j \in 1 .. n : i # j => F[i] \cap F[j] = {}
    BY <1>2, <1>5
  <2>3. Queue(FlattenSeq(Lines), Members(F, 1 .. n)) /\ Lines \in Seq(Seq(Members(F, 1 .. n)))
    BY <1>1, <1>3, <2>1, <2>2, FlattenQueue
  <2> QED BY <1>4, <2>3 DEF AllPairLists
<1>7. Len(Lines) = n
  <2>1. DOMAIN Lines = 1 .. n
    BY <1>3
  <2> QED BY <1>1, <1>6, <2>1
<1>8. Makes(AllMade, AllDeals)
  <2>1. \A c \in AllMade : \E i \in 1 .. n : c \in Made(i)
    BY DEF AllMade, n
  <2>2. \A z \in AllDeals : \E i \in 1 .. n : z \in Deals(Sizes[i])
    BY DEF AllDeals, n
  <2>3. \A i \in 1 .. n : Made(i) \subseteq AllMade /\ Deals(Sizes[i]) \subseteq AllDeals
    BY DEF AllMade, AllDeals, n
  <2> DEFINE D(i) == Deals(Sizes[i])
             M(i) == Made(i)
  <2>4. /\ \A i \in 1 .. n : Makes(M(i), D(i))
        /\ \A i, j \in 1 .. n : i # j => D(i) \cap D(j) = {}
    BY <1>2
  <2>5. /\ \A c \in AllMade : \E i \in 1 .. n : c \in M(i)
        /\ \A z \in AllDeals : \E i \in 1 .. n : z \in D(i)
        /\ \A i \in 1 .. n : M(i) \subseteq AllMade /\ D(i) \subseteq AllDeals
    BY <2>1, <2>2, <2>3
  <2> HIDE DEF D, M
  <2>6. ASSUME NEW c \in AllMade
        PROVE  /\ c = TwoTeamCandidate(c[<<1, 2>>], c[<<2, 1>>])
               /\ Queue(c[<<1, 2>>], Range(c[<<1, 2>>])) /\ Queue(c[<<2, 1>>], Range(c[<<2, 1>>]))
               /\ <<Range(c[<<1, 2>>]), Range(c[<<2, 1>>])>> \in AllDeals
    <3>1. PICK i \in 1 .. n : c \in M(i)
      BY <2>5
    <3>2. Makes(M(i), D(i)) /\ D(i) \subseteq AllDeals
      BY <2>4, <2>5
    <3> QED BY <3>1, <3>2 DEF Makes
  <2>7. ASSUME NEW c \in AllMade, NEW d \in AllMade,
               Range(c[<<1, 2>>]) = Range(d[<<1, 2>>]), Range(c[<<2, 1>>]) = Range(d[<<2, 1>>])
        PROVE  c = d
    <3>1. PICK i \in 1 .. n : c \in M(i)
      BY <2>5
    <3>2. PICK j \in 1 .. n : d \in M(j)
      BY <2>5
    <3>3. Makes(M(i), D(i)) /\ Makes(M(j), D(j))
      BY <2>4
    <3> DEFINE Z(x) == <<Range(x[<<1, 2>>]), Range(x[<<2, 1>>])>>
    <3>4. Z(c) \in D(i) /\ Z(d) \in D(j)
      BY <3>1, <3>2, <3>3 DEF Makes
    <3>5. Z(c) = Z(d)
      BY <2>7
    <3> HIDE DEF Z
    <3>6. i = j
      BY <2>4, <3>4, <3>5
    <3> QED BY <2>7, <3>1, <3>2, <3>3, <3>6 DEF Makes
  <2>8. ASSUME NEW z \in AllDeals
        PROVE  \E c \in AllMade : z = <<Range(c[<<1, 2>>]), Range(c[<<2, 1>>])>>
    <3>1. PICK i \in 1 .. n : z \in D(i)
      BY <2>5
    <3>2. Makes(M(i), D(i)) /\ M(i) \subseteq AllMade
      BY <2>4, <2>5
    <3> QED BY <3>1, <3>2 DEF Makes
  <2> QED BY <2>6, <2>7, <2>8 DEF Makes
<1>9. TwoTeamsCount(request) = Len(AllPairLists)
  <2>1. \A i \in 1 .. n : f[i] = Cardinality(F[i]) /\ IsFiniteSet(F[i])
    <3> TAKE i \in 1 .. n
    <3>1. PairCount(request, Sizes[i]) = Len(PairList(Sizes[i]))
      BY <1>1, PairCountHolds, PairListSize
    <3>2. Lines[i] = PairList(Sizes[i])
      BY DEF Lines, n
    <3>3. Len(Lines[i]) = Cardinality(Made(i)) /\ IsFiniteSet(Made(i))
      BY <1>2, QueueType
    <3>4. f[i] = PairCount(request, Sizes[i])
      BY <1>1
    <3> QED BY <1>5, <3>1, <3>2, <3>3, <3>4
  <2>2. TwoTeamsCount(request) = SumFunctionOnSet(f, 1 .. n)
    <3>1. TwoTeamsCount(request) = SumFunction(f)
      BY Zenon DEF TwoTeamsCount, Sizes
    <3>2. DOMAIN f = 1 .. n
      BY <1>1
    <3> HIDE DEF f
    <3>3. SumFunction(f) = SumFunctionOnSet(f, DOMAIN f)
      BY Zenon DEF SumFunction
    <3> QED BY <3>1, <3>2, <3>3
  <2>3. IsFiniteSet(1 .. n)
    BY <1>1, FS_Interval
  <2>4. AreApart(F, 1 .. n)
    BY <1>2, <1>5, <2>1 DEF AreApart
  <2> HIDE DEF f
  <2>5. SumFunctionOnSet(f, 1 .. n) = Cardinality(Members(F, 1 .. n))
    BY <2>1, <2>3, <2>4, SumOfSizes
  <2>6. Len(AllPairLists) = Cardinality(AllMade)
    BY <1>6, QueueType
  <2> QED BY <1>4, <2>2, <2>5, <2>6
<1> QED BY <1>6, <1>7, <1>8, <1>9 DEF n

(* What is listed from a pair of sizes on. *)
LEMMA RestUnfolds ==
    ASSUME AmongTwo
    PROVE  /\ RestOf(Len(Sizes) + 1) = <<>> /\ RestOf(1) = AllPairLists
           /\ \A i \in 1 .. Len(Sizes) :
                /\ RestOf(i) = Lines[i] \o RestOf(i + 1)
                /\ Lines[i] \in Seq(AllMade) /\ RestOf(i + 1) \in Seq(AllMade)
<1> DEFINE n == Len(Sizes)
<1>1. n \in Nat /\ Lines \in Seq(Seq(AllMade)) /\ Len(Lines) = n
  BY AllLines, SizesType
<1> HIDE DEF n
<1>2. RestOf(n + 1) = <<>>
  <2>1. From(Lines, n) = <<>>
    BY <1>1 DEF From
  <2>2. RestOf(n + 1) = FlattenSeq(From(Lines, n))
    <3> DEFINE k == n + 1
    <3>1. k - 1 = n
      BY <1>1
    <3> HIDE DEF k
    <3>2. RestOf(k) = FlattenSeq(From(Lines, k - 1))
      BY Zenon DEF RestOf
    <3>3. RestOf(k) = FlattenSeq(From(Lines, n))
      BY <3>1, <3>2, Zenon
    <3> QED BY <3>3, Zenon DEF k
  <2>3. FlattenSeq(<<>>) = <<>>
    <3>1. FlattenSeq(<< <<>> >>) = <<>> /\ FlattenSeq(<<>>) = <<>>
      <4>1. <<>> \in Seq(AllMade)
        OBVIOUS
      <4> QED BY <4>1, FlattenOne
    <3> QED BY <3>1
  <2> QED BY <2>1, <2>2, <2>3
<1>3. RestOf(1) = AllPairLists
  <2>1. From(Lines, 0) = Lines
    BY <1>1, FromType
  <2> QED BY <2>1 DEF RestOf, AllPairLists
<1>4. ASSUME NEW i \in 1 .. n
      PROVE  /\ RestOf(i) = Lines[i] \o RestOf(i + 1)
             /\ Lines[i] \in Seq(AllMade) /\ RestOf(i + 1) \in Seq(AllMade)
  <2> DEFINE s == From(Lines, i - 1)
             one == <<Lines[i]>>
             t == From(Lines, i)
  <2>1. /\ i - 1 \in Nat /\ i \in Nat /\ i + 1 - 1 = i /\ i - 1 < n
        /\ Lines[i] \in Seq(AllMade) /\ one \in Seq(Seq(AllMade))
    BY <1>1
  <2>2. s \in Seq(Seq(AllMade)) /\ Len(s) = n - (i - 1) /\ \A j \in 1 .. Len(s) : s[j] = Lines[i - 1 + j]
    BY <1>1, <2>1, FromType
  <2>3. t \in Seq(Seq(AllMade)) /\ Len(t) = n - i /\ \A j \in 1 .. Len(t) : t[j] = Lines[i + j]
    <3>1. /\ From(Lines, i) \in Seq(Seq(AllMade))
          /\ Len(From(Lines, i)) = IF i < Len(Lines) THEN Len(Lines) - i ELSE 0
          /\ \A j \in 1 .. Len(From(Lines, i)) : From(Lines, i)[j] = Lines[i + j]
      BY <1>1, <2>1, FromType
    <3> HIDE DEF one, s
    <3> QED BY <1>1, <3>1
  <2> HIDE DEF s, t
  <2>4. s = one \o t
    <3>1. /\ one \o t \in Seq(Seq(AllMade)) /\ Len(one \o t) = 1 + Len(t)
          /\ \A j \in 1 .. 1 + Len(t) : (one \o t)[j] = IF j <= 1 THEN Lines[i] ELSE t[j - 1]
      BY <2>1, <2>3
    <3> HIDE DEF one
    <3>2. Len(s) = Len(one \o t)
      BY <1>1, <2>1, <2>2, <2>3, <3>1
    <3>3. \A j \in 1 .. Len(s) : s[j] = (one \o t)[j]
      <4> TAKE j \in 1 .. Len(s)
      <4>1. Len(s) = 1 + Len(t) /\ Len(t) \in Nat /\ s[j] = Lines[i - 1 + j]
        BY <1>1, <2>1, <2>2, <2>3
      <4>2. (one \o t)[j] = IF j <= 1 THEN Lines[i] ELSE t[j - 1]
        BY <3>1, <4>1
      <4>3. CASE j <= 1
        <5>1. i - 1 + j = i
          BY <2>1, <4>3
        <5> QED BY <4>1, <4>2, <4>3, <5>1
      <4>4. CASE ~(j <= 1)
        <5>1. j - 1 \in 1 .. Len(t) /\ i + (j - 1) = i - 1 + j
          BY <2>1, <4>1, <4>4
        <5>2. t[j - 1] = Lines[i + (j - 1)]
          BY <2>3, <5>1
        <5> QED BY <4>1, <4>2, <4>4, <5>1, <5>2
      <4> QED BY <4>3, <4>4
    <3> QED BY <2>2, <3>1, <3>2, <3>3, SameSequence
  <2>5. FlattenSeq(one \o t) = FlattenSeq(one) \o FlattenSeq(t)
    BY <2>1, <2>3, FlattenJoin
  <2>6. FlattenSeq(one) = Lines[i]
    BY <2>1, FlattenOne
  <2>7. FlattenSeq(t) \in Seq(AllMade)
    BY <2>3, FlattenType
  <2>8. RestOf(i) = FlattenSeq(s) /\ RestOf(i + 1) = FlattenSeq(t)
    BY <2>1 DEF RestOf, s, t
  <2> QED BY <2>1, <2>4, <2>5, <2>6, <2>7, <2>8
<1> QED BY <1>2, <1>3, <1>4 DEF n

\* The body of the recursion of _iterate_from.
SkipsFrom(i, f) ==
  [skip \in Nat |->
     IF i > Len(Sizes) THEN <<>>
     ELSE Onward(skip, PairCount(request, Sizes[i]), PairFrom(Sizes[i], skip), f[i + 1])]

(* What the iterator of two teams recurses on. *)
LEMMA TwoTeamsUnfold ==
    ASSUME NEW start
    PROVE  TwoTeamsFrom(request, start)
             = (CHOOSE f : f = [i \in 1 .. Len(Sizes) + 1 |-> SkipsFrom(i, f)])[1][start]
BY Zenon DEF TwoTeamsFrom, SkipsFrom, PairFrom, Sizes

\* What the recursion yields.
Yielded == [i \in 1 .. Len(Sizes) + 1 |-> [skip \in Nat |-> From(RestOf(i), skip)]]

(* One step of the recursion, whichever function stands for its later steps. *)
LEMMA OneSkip ==
    ASSUME AmongTwo, NEW i \in 1 .. Len(Sizes), NEW g, \A skip \in Nat : g[skip] = From(RestOf(i + 1), skip),
           NEW skip \in Nat
    PROVE  Onward(skip, PairCount(request, Sizes[i]), PairFrom(Sizes[i], skip), g) = From(RestOf(i), skip)
<1> DEFINE count == PairCount(request, Sizes[i])
           s == Lines[i]
           t == RestOf(i + 1)
<1>1. RestOf(i) = s \o t /\ s \in Seq(AllMade) /\ t \in Seq(AllMade)
  BY RestUnfolds
<1>2. IsPair(Sizes[i]) /\ s = PairList(Sizes[i])
  BY SizesType DEF Lines
<1>3. count = Cardinality(Deals(Sizes[i])) /\ count = Len(s)
  BY <1>2, PairCountHolds, PairListSize
<1>4. Len(s) \in Nat
  BY <1>1
<1> HIDE DEF s, t, count
<1>5. /\ skip >= Len(s) => skip - Len(s) \in Nat /\ From(s \o t, skip) = From(t, skip - Len(s))
      /\ skip < Len(s) => From(s \o t, skip) = From(s, skip) \o t
  <2>1. CASE skip >= Len(s)
    <3>1. skip - Len(s) \in Nat /\ From(s \o t, skip) = From(t, skip - Len(s))
      BY <1>1, <2>1, FromJoin
    <3> QED BY <1>4, <2>1, <3>1
  <2>2. CASE skip < Len(s)
    <3>1. From(s \o t, skip) = From(s, skip) \o t
      BY <1>1, <2>2, FromJoin
    <3> QED BY <1>4, <2>2, <3>1
  <2> QED BY <1>4, <2>1, <2>2
<1>6. CASE skip >= count
  <2>1. skip - count \in Nat /\ From(RestOf(i), skip) = From(t, skip - count)
    BY <1>1, <1>3, <1>5, <1>6
  <2>2. g[skip - count] = From(t, skip - count)
    BY <2>1 DEF t
  <2>3. Onward(skip, count, PairFrom(Sizes[i], skip), g) = g[skip - count]
    BY <1>6 DEF Onward
  <2> QED BY <2>1, <2>2, <2>3 DEF count
<1>7. CASE ~(skip >= count)
  <2>1. skip < count /\ skip < Len(s)
    BY <1>3, <1>4, <1>7
  <2>2. PairFrom(Sizes[i], skip) = From(s, skip)
    BY <1>2, <1>3, <2>1, PairFromHolds
  <2>3. g[0] = t
    <3>1. g[0] = From(t, 0)
      BY DEF t
    <3>2. From(t, 0) = t
      BY <1>1, FromType
    <3> QED BY <3>1, <3>2
  <2>4. Onward(skip, count, PairFrom(Sizes[i], skip), g) = PairFrom(Sizes[i], skip) \o g[0]
    BY <1>7 DEF Onward
  <2> QED BY <1>1, <1>5, <2>1, <2>2, <2>3, <2>4 DEF count
<1> QED BY <1>6, <1>7

(* The pairs of sizes that lie before an index are counted off, and the rest is listed. *)
LEMMA TwoTeamsFromHolds ==
    ASSUME AmongTwo, NEW start \in Nat
    PROVE  TwoTeamsFrom(request, start) = From(AllPairLists, start)
<1> DEFINE n == Len(Sizes)
           N == 1 .. n + 1
           R(i, skip) == From(RestOf(i), skip)
<1>1. n \in Nat
  BY SizesType
<1>2. /\ \A i \in N : i > n => i = n + 1
      /\ \A i \in N : ~(i > n) => i \in 1 .. n /\ i + 1 \in N
      /\ 1 \in N /\ n + 1 \in N /\ n + 1 > n /\ \A i \in 1 .. n : i \in N /\ ~(i > n)
  BY <1>1
<1>3. \A skip \in Nat : From(RestOf(n + 1), skip) = <<>>
  <2> TAKE skip \in Nat
  <2>1. RestOf(n + 1) = <<>>
    BY RestUnfolds
  <2>2. From(<<>>, skip) = <<>>
    BY DEF From
  <2> QED BY <2>1, <2>2
<1>4. ASSUME NEW i \in N, NEW f, ~(i > n) => \A skip \in Nat : f[i + 1][skip] = From(RestOf(i + 1), skip)
      PROVE  SkipsFrom(i, f) = [skip \in Nat |-> From(RestOf(i), skip)]
  <2>1. ASSUME NEW skip \in Nat
        PROVE  (IF i > n THEN <<>>
                ELSE Onward(skip, PairCount(request, Sizes[i]), PairFrom(Sizes[i], skip), f[i + 1]))
                 = From(RestOf(i), skip)
    <3>1. CASE i > n
      BY <1>2, <1>3, <3>1
    <3>2. CASE ~(i > n)
      <4>1. i \in 1 .. Len(Sizes) /\ \A k \in Nat : f[i + 1][k] = From(RestOf(i + 1), k)
        BY <1>2, <1>4, <3>2
      <4>2. Onward(skip, PairCount(request, Sizes[i]), PairFrom(Sizes[i], skip), f[i + 1]) = From(RestOf(i), skip)
        BY <4>1, OneSkip
      <4> QED BY <3>2, <4>2
    <3> QED BY <3>1, <3>2
  <2> QED BY <2>1 DEF SkipsFrom
<1> DEFINE f == CHOOSE f : f = [i \in 1 .. Len(Sizes) + 1 |-> SkipsFrom(i, f)]
<1>5. Yielded = [i \in 1 .. Len(Sizes) + 1 |-> SkipsFrom(i, Yielded)]
  <2>1. \A i \in N : \A skip \in Nat : Yielded[i][skip] = From(RestOf(i), skip)
    BY DEF Yielded
  <2>2. \A i \in N : SkipsFrom(i, Yielded) = [skip \in Nat |-> From(RestOf(i), skip)]
    <3> TAKE i \in N
    <3>1. ~(i > n) => \A skip \in Nat : Yielded[i + 1][skip] = From(RestOf(i + 1), skip)
      BY <1>2, <2>1
    <3> QED BY <1>4, <3>1
  <2> QED BY <2>2 DEF Yielded
<1>6. f = [i \in 1 .. Len(Sizes) + 1 |-> SkipsFrom(i, f)]
  <2>1. \E g : g = [i \in 1 .. Len(Sizes) + 1 |-> SkipsFrom(i, g)]
    BY <1>5, Zenon
  <2> QED BY <2>1, Zenon
<1>7. TwoTeamsFrom(request, start) = f[1][start]
  BY TwoTeamsUnfold, Zenon
<1> HIDE DEF f
<1>8. \A i \in N : f[i] = SkipsFrom(i, f)
  BY <1>6
<1> DEFINE Good(i) == \A skip \in Nat : f[i][skip] = From(RestOf(i), skip)
           M == {d \in Nat : d <= n => Good(n + 1 - d)}
<1>9. ASSUME NEW i \in N, ~(i > n) => Good(i + 1)
      PROVE  Good(i)
  <2>1. SkipsFrom(i, f) = [skip \in Nat |-> From(RestOf(i), skip)]
    BY <1>4, <1>9
  <2> QED BY <1>8, <2>1
<1> HIDE DEF Good
<1>10. \A d \in Nat : d \in M
  <2>1. 0 \in M
    <3>1. Good(n + 1)
      BY <1>2, <1>9
    <3>2. n + 1 - 0 = n + 1
      BY <1>1
    <3> QED BY <3>1, <3>2
  <2>2. ASSUME NEW d \in Nat, d \in M
        PROVE  d + 1 \in M
    <3> SUFFICES ASSUME d + 1 <= n
                 PROVE  Good(n + 1 - (d + 1))
      OBVIOUS
    <3>1. n + 1 - (d + 1) \in N /\ n + 1 - (d + 1) + 1 = n + 1 - d /\ d <= n
      BY <1>1
    <3>2. Good(n + 1 - d)
      BY <2>2, <3>1
    <3>3. Good(n + 1 - (d + 1) + 1)
      BY <3>1, <3>2
    <3> QED BY <1>9, <3>1, <3>3
  <2> HIDE DEF M
  <2> QED BY <2>1, <2>2, AllNaturals
<1>11. Good(1)
  <2>1. n \in M /\ n + 1 - n = 1
    BY <1>1, <1>10
  <2> QED BY <1>1, <2>1
<1>12. f[1][start] = From(RestOf(1), start)
  BY <1>11 DEF Good
<1>13. RestOf(1) = AllPairLists
  BY RestUnfolds
<1> QED BY <1>7, <1>12, <1>13

-----------------------------------------------------------------------------
(* The trades of two teams are the deals.                                  *)

Own(t) == Owned(request.rosters[t])

Both == Own(1) \cup Own(2)

\* Who leaves a team and who joins it, by a move.
LeavesBy(m, t) == {p \in Own(t) : m[p] # t}

JoinsBy(m, t) == {p \in Both \ Own(t) : m[p] = t}

\* The move of a deal.
SwapOf(S, T) == [p \in Both |-> IF p \in S THEN 2 ELSE IF p \in T THEN 1 ELSE IF p \in Own(1) THEN 1 ELSE 2]

(* The two teams. *)
LEMMA TwoTeams ==
    ASSUME AmongTwo
    PROVE  /\ Teams(request) = 1 .. 2 /\ request \in Requests /\ Len(request.rosters) = 2
           /\ Both = UNION {Own(t) : t \in Teams(request)}
           /\ Own(1) \cap Own(2) = {} /\ IsFiniteSet(Own(1)) /\ IsFiniteSet(Own(2))
           /\ Free(1) \subseteq Own(1) /\ Free(2) \subseteq Own(2)
<1>1. Teams(request) = 1 .. 2 /\ request \in Requests /\ Len(request.rosters) = 2
  BY TwoSides DEF AmongTwo
<1>2. 1 \in Teams(request) /\ 2 \in Teams(request) /\ \A t \in Teams(request) : t = 1 \/ t = 2
  BY <1>1
<1>3. Own(1) \cap Own(2) = {}
  <2>1. \A t, u \in Teams(request) : t # u => Owned(request.rosters[t]) \cap Owned(request.rosters[u]) = {}
    BY <1>1, RequestType
  <2> QED BY <1>2, <2>1 DEF Own
<1>4. IsFiniteSet(Own(1)) /\ IsFiniteSet(Own(2))
  BY TwoSides, RosterType DEF Own
<1>5. Free(1) \subseteq Own(1) /\ Free(2) \subseteq Own(2)
  BY DEF Free, Own
<1>6. Both = UNION {Own(t) : t \in Teams(request)}
  BY <1>2 DEF Both
<1> QED BY <1>1, <1>3, <1>4, <1>5, <1>6

(* Every move of the players is made by one deal. *)
LEMMA SwapsAreMoves ==
    ASSUME AmongTwo
    PROVE  /\ \A S \in SUBSET Own(1), T \in SUBSET Own(2) :
                /\ SwapOf(S, T) \in [Both -> 1 .. 2]
                /\ LeavesBy(SwapOf(S, T), 1) = S /\ LeavesBy(SwapOf(S, T), 2) = T
                /\ JoinsBy(SwapOf(S, T), 1) = T /\ JoinsBy(SwapOf(S, T), 2) = S
           /\ \A m \in [Both -> 1 .. 2] : m = SwapOf(LeavesBy(m, 1), LeavesBy(m, 2))
<1>1. Own(1) \cap Own(2) = {} /\ Both = Own(1) \cup Own(2)
  BY TwoTeams DEF Both
<1>2. ASSUME NEW S \in SUBSET Own(1), NEW T \in SUBSET Own(2)
      PROVE  /\ SwapOf(S, T) \in [Both -> 1 .. 2]
             /\ LeavesBy(SwapOf(S, T), 1) = S /\ LeavesBy(SwapOf(S, T), 2) = T
             /\ JoinsBy(SwapOf(S, T), 1) = T /\ JoinsBy(SwapOf(S, T), 2) = S
  <2> DEFINE m == SwapOf(S, T)
  <2>1. m \in [Both -> 1 .. 2]
    BY DEF SwapOf
  <2>2. \A p \in Both : m[p] = IF p \in S THEN 2 ELSE IF p \in T THEN 1 ELSE IF p \in Own(1) THEN 1 ELSE 2
    BY DEF SwapOf
  <2> HIDE DEF m
  <2>3. \A p \in Own(1) : m[p] # 1 <=> p \in S
    BY <1>1, <2>2
  <2>4. \A p \in Own(2) : m[p] # 2 <=> p \in T
    BY <1>1, <2>2
  <2>5. \A p \in Own(1) : m[p] = 2 <=> p \in S
    BY <1>1, <2>2
  <2>6. \A p \in Own(2) : m[p] = 1 <=> p \in T
    BY <1>1, <2>2
  <2>7. Both \ Own(1) = Own(2) /\ Both \ Own(2) = Own(1)
    BY <1>1
  <2>8. LeavesBy(m, 1) = S
    BY <2>3 DEF LeavesBy
  <2>9. LeavesBy(m, 2) = T
    BY <2>4 DEF LeavesBy
  <2>10. JoinsBy(m, 1) = T
    BY <2>6, <2>7 DEF JoinsBy
  <2>11. JoinsBy(m, 2) = S
    BY <2>5, <2>7 DEF JoinsBy
  <2> QED BY <2>1, <2>8, <2>9, <2>10, <2>11 DEF m
<1>3. ASSUME NEW m \in [Both -> 1 .. 2]
      PROVE  m = SwapOf(LeavesBy(m, 1), LeavesBy(m, 2))
  <2> DEFINE S == LeavesBy(m, 1)
             T == LeavesBy(m, 2)
             n == SwapOf(S, T)
  <2>1. n = [p \in Both |-> n[p]] /\ m = [p \in Both |-> m[p]]
    BY DEF SwapOf
  <2>2. \A p \in Both : n[p] = IF p \in S THEN 2 ELSE IF p \in T THEN 1 ELSE IF p \in Own(1) THEN 1 ELSE 2
    BY DEF SwapOf
  <2>3. \A p : (p \in S <=> p \in Own(1) /\ m[p] # 1) /\ (p \in T <=> p \in Own(2) /\ m[p] # 2)
    BY DEF LeavesBy
  <2>4. \A p \in Both : m[p] = 1 \/ m[p] = 2
    OBVIOUS
  <2> HIDE DEF n, S, T
  <2>5. \A p \in Both : n[p] = m[p]
    <3> TAKE p \in Both
    <3>1. CASE p \in Own(1)
      BY <1>1, <2>2, <2>3, <2>4, <3>1
    <3>2. CASE p \in Own(2)
      BY <1>1, <2>2, <2>3, <2>4, <3>2
    <3> QED BY <1>1, <3>1, <3>2
  <2>6. n = m
    BY <2>1, <2>5
  <2> QED BY <2>6 DEF n, S, T
<1> QED BY <1>2, <1>3

\* What makes a pair of packages a trade.
IsDeal(S, T) ==
  /\ S \subseteq Free(1) /\ T \subseteq Free(2)
  /\ Fits(<<Cardinality(S), Cardinality(T)>>)
  /\ FilterHolds(request.rules.outgoingFilter, S) /\ FilterHolds(request.rules.incomingFilter, T)
  /\ CanMakeRoom(request.rosters[1], Own(1) \ S, T, request.rules.noDrops)
  /\ CanMakeRoom(request.rosters[2], Own(2) \ T, S, request.rules.noDrops)

(* The move of a deal is a trade if and only if the deal is one. *)
LEMMA SwapMeans ==
    ASSUME AmongTwo, NEW S \in SUBSET Own(1), NEW T \in SUBSET Own(2)
    PROVE  SwapOf(S, T) \in Trades <=> IsDeal(S, T)
<1> DEFINE m == SwapOf(S, T)
           rules == request.rules
           OutOf(n, t) == {p \in Owned(request.rosters[t]) : n[p] # t}
           InOf(players, n, t) == {p \in players \ Owned(request.rosters[t]) : n[p] = t}
           SizesOf(players, n, t) ==
             LET out == Cardinality(OutOf(n, t))
                 in == Cardinality(InOf(players, n, t))
             IN /\ out \in rules.minOutgoing .. rules.maxOutgoing
                /\ in \in rules.minIncoming .. rules.maxIncoming
                /\ <<out, in>> \notin rules.excluded
                /\ rules.balancedOnly => out = in
                /\ Within(Distance(out, in), rules.maxImbalance)
           HomeOf(players, teams, n) ==
             \A p \in players \cap rules.locked : \A t \in teams :
               p \in Owned(request.rosters[t]) => n[p] = t
           FewOf(teams, n) == Within(Cardinality(UNION {OutOf(n, t) : t \in teams}), rules.maxTotal)
           RoomOf(players, n, t) ==
             CanMakeRoom(request.rosters[t], Owned(request.rosters[t]) \ OutOf(n, t), InOf(players, n, t),
                         rules.noDrops)
           TradesOf(players, teams, judged) ==
             {n \in [players -> teams] :
               /\ HomeOf(players, teams, n)
               /\ \A t \in judged : SizesOf(players, n, t)
               /\ FewOf(teams, n)
               /\ FilterHolds(rules.outgoingFilter, OutOf(n, 1))
               /\ FilterHolds(rules.incomingFilter, InOf(players, n, 1))
               /\ \A t \in teams : RoomOf(players, n, t)}
<1>1. Trades = {n \in [Both -> 1 .. 2] :
                 /\ HomeOf(Both, 1 .. 2, n)
                 /\ \A t \in {1} : SizesOf(Both, n, t)
                 /\ FewOf(1 .. 2, n)
                 /\ FilterHolds(rules.outgoingFilter, OutOf(n, 1))
                 /\ FilterHolds(rules.incomingFilter, InOf(Both, n, 1))
                 /\ \A t \in 1 .. 2 : RoomOf(Both, n, t)}
  <2>1. Trades = TradesOf(UNION {Owned(request.rosters[t]) : t \in Teams(request)}, Teams(request),
                          IF Len(request.rosters) = 2 THEN {1} ELSE Teams(request))
    BY Zenon DEF Trades
  <2>2. Teams(request) = 1 .. 2 /\ Len(request.rosters) = 2
        /\ Both = UNION {Own(t) : t \in Teams(request)}
    BY TwoTeams
  <2>3. (IF Len(request.rosters) = 2 THEN {1} ELSE Teams(request)) = {1}
    BY <2>2
  <2>a. Both = UNION {Owned(request.rosters[t]) : t \in Teams(request)}
    BY <2>2, Zenon DEF Own
  <2> HIDE DEF TradesOf
  <2>4. Trades = TradesOf(Both, 1 .. 2, {1})
    BY <2>1, <2>2, <2>3, <2>a, Zenon
  <2> QED BY <2>4, Zenon DEF TradesOf
<1>2. /\ m \in [Both -> 1 .. 2]
      /\ OutOf(m, 1) = S /\ OutOf(m, 2) = T /\ InOf(Both, m, 1) = T /\ InOf(Both, m, 2) = S
  <2>1. /\ m \in [Both -> 1 .. 2]
        /\ LeavesBy(m, 1) = S /\ LeavesBy(m, 2) = T /\ JoinsBy(m, 1) = T /\ JoinsBy(m, 2) = S
    BY SwapsAreMoves
  <2> HIDE DEF m
  <2> QED BY <2>1, Zenon DEF LeavesBy, JoinsBy, Own
<1>3. HomeOf(Both, 1 .. 2, m) <=> S \subseteq Free(1) /\ T \subseteq Free(2)
  <2>1. Both = Own(1) \cup Own(2) /\ Own(1) \cap Own(2) = {}
    BY TwoTeams DEF Both
  <2>2. \A p \in Own(1) : m[p] # 1 <=> p \in S
    BY <1>2 DEF Own
  <2>3. \A p \in Own(2) : m[p] # 2 <=> p \in T
    BY <1>2 DEF Own
  <2> HIDE DEF m
  <2>4. HomeOf(Both, 1 .. 2, m) <=> /\ \A p \in Own(1) \cap rules.locked : m[p] = 1
                                    /\ \A p \in Own(2) \cap rules.locked : m[p] = 2
    <3>1. HomeOf(Both, 1 .. 2, m) <=> \A p \in Both \cap rules.locked : \A t \in 1 .. 2 : p \in Own(t) => m[p] = t
      BY DEF Own
    <3>2. 1 \in 1 .. 2 /\ 2 \in 1 .. 2 /\ \A t \in 1 .. 2 : t = 1 \/ t = 2
      OBVIOUS
    <3> HIDE DEF HomeOf, rules
    <3> QED BY <2>1, <3>1, <3>2
  <2> QED BY <2>2, <2>3, <2>4 DEF Free, Own
<1>4. IsFiniteSet(S) /\ IsFiniteSet(T) /\ Cardinality(S) \in Nat /\ Cardinality(T) \in Nat
      /\ Cardinality(S \cup T) = Cardinality(S) + Cardinality(T)
  <2>1. IsFiniteSet(S) /\ IsFiniteSet(T) /\ S \cap T = {}
    BY TwoTeams, FS_Subset
  <2> QED BY <2>1, UnionOfApart, FS_CardinalityType
<1>5. UNION {OutOf(m, t) : t \in 1 .. 2} = S \cup T
  <2>1. OutOf(m, 1) = S /\ OutOf(m, 2) = T
    BY <1>2
  <2> HIDE DEF OutOf, m
  <2>2. 1 \in 1 .. 2 /\ 2 \in 1 .. 2 /\ \A t \in 1 .. 2 : t = 1 \/ t = 2
    OBVIOUS
  <2> QED BY <2>1, <2>2
<1>6. FewOf(1 .. 2, m) <=> Within(Cardinality(S) + Cardinality(T), rules.maxTotal)
  <2>1. Cardinality(UNION {OutOf(m, t) : t \in 1 .. 2}) = Cardinality(S) + Cardinality(T)
    BY <1>4, <1>5
  <2> HIDE DEF OutOf, m, rules
  <2> QED BY <2>1, Zenon
<1>7. SizesOf(Both, m, 1) <=>
        /\ Cardinality(S) \in rules.minOutgoing .. rules.maxOutgoing
        /\ Cardinality(T) \in rules.minIncoming .. rules.maxIncoming
        /\ <<Cardinality(S), Cardinality(T)>> \notin rules.excluded
        /\ rules.balancedOnly => Cardinality(S) = Cardinality(T)
        /\ Within(Distance(Cardinality(S), Cardinality(T)), rules.maxImbalance)
  <2>1. OutOf(m, 1) = S /\ InOf(Both, m, 1) = T
    BY <1>2
  <2> HIDE DEF OutOf, InOf, m, rules
  <2> QED BY <2>1, Zenon
<1>8. /\ RoomOf(Both, m, 1) <=> CanMakeRoom(request.rosters[1], Own(1) \ S, T, rules.noDrops)
      /\ RoomOf(Both, m, 2) <=> CanMakeRoom(request.rosters[2], Own(2) \ T, S, rules.noDrops)
  <2>1. OutOf(m, 1) = S /\ OutOf(m, 2) = T /\ InOf(Both, m, 1) = T /\ InOf(Both, m, 2) = S
    BY <1>2
  <2> HIDE DEF OutOf, InOf, m, rules
  <2> QED BY <2>1, Zenon DEF Own
<1>9. OutOf(m, 1) = S /\ InOf(Both, m, 1) = T
  BY <1>2
<1>10. Fits(<<Cardinality(S), Cardinality(T)>>) <=>
        /\ Cardinality(S) \in rules.minOutgoing .. rules.maxOutgoing
        /\ Cardinality(T) \in rules.minIncoming .. rules.maxIncoming
        /\ <<Cardinality(S), Cardinality(T)>> \notin rules.excluded
        /\ rules.balancedOnly => Cardinality(S) = Cardinality(T)
        /\ Within(Cardinality(S) + Cardinality(T), rules.maxTotal)
        /\ Within(Distance(Cardinality(S), Cardinality(T)), rules.maxImbalance)
  <2> DEFINE pair == <<Cardinality(S), Cardinality(T)>>
  <2>1. pair[1] = Cardinality(S) /\ pair[2] = Cardinality(T)
    OBVIOUS
  <2> HIDE DEF pair
  <2>2. Fits(pair) <=>
        /\ Cardinality(S) \in rules.minOutgoing .. rules.maxOutgoing
        /\ Cardinality(T) \in rules.minIncoming .. rules.maxIncoming
        /\ pair \notin rules.excluded
        /\ rules.balancedOnly => Cardinality(S) = Cardinality(T)
        /\ Within(Cardinality(S) + Cardinality(T), rules.maxTotal)
        /\ Within(Distance(Cardinality(S), Cardinality(T)), rules.maxImbalance)
    BY <2>1, Zenon DEF Fits
  <2> QED BY <2>2 DEF pair
<1>11. IsDeal(S, T) <=>
        /\ S \subseteq Free(1) /\ T \subseteq Free(2)
        /\ Fits(<<Cardinality(S), Cardinality(T)>>)
        /\ FilterHolds(rules.outgoingFilter, S) /\ FilterHolds(rules.incomingFilter, T)
        /\ CanMakeRoom(request.rosters[1], Own(1) \ S, T, rules.noDrops)
        /\ CanMakeRoom(request.rosters[2], Own(2) \ T, S, rules.noDrops)
  BY Zenon DEF IsDeal
<1>12. (\A t \in {1} : SizesOf(Both, m, t)) <=> SizesOf(Both, m, 1)
  <2> HIDE DEF SizesOf, m
  <2> QED OBVIOUS
<1>13. (\A t \in 1 .. 2 : RoomOf(Both, m, t)) <=> RoomOf(Both, m, 1) /\ RoomOf(Both, m, 2)
  <2> HIDE DEF RoomOf, m
  <2>1. 1 \in 1 .. 2 /\ 2 \in 1 .. 2 /\ \A t \in 1 .. 2 : t = 1 \/ t = 2
    OBVIOUS
  <2> QED BY <2>1
<1> HIDE DEF m, rules, OutOf, InOf, SizesOf, HomeOf, FewOf, RoomOf, TradesOf
<1>14. m \in Trades <=>
        /\ HomeOf(Both, 1 .. 2, m)
        /\ \A t \in {1} : SizesOf(Both, m, t)
        /\ FewOf(1 .. 2, m)
        /\ FilterHolds(rules.outgoingFilter, S)
        /\ FilterHolds(rules.incomingFilter, T)
        /\ \A t \in 1 .. 2 : RoomOf(Both, m, t)
  BY <1>1, <1>2, <1>9, Zenon
<1>15. m \in Trades <=> IsDeal(S, T)
  BY <1>3, <1>6, <1>7, <1>8, <1>10, <1>11, <1>12, <1>13, <1>14, Zenon
<1> QED BY <1>15 DEF m

-----------------------------------------------------------------------------
(* The deals the lists are made of are the trades.                         *)

(* The reserve placements of a team's own players are those of its roster. *)
LEMMA OwnSignature ==
    ASSUME request \in Requests, NEW t \in Teams(request), NEW S, S \subseteq Own(t)
    PROVE  Signature(S, request.rosters[t].kindOf) = Signature(S, Placements)
<1> DEFINE kindOf == request.rosters[t].kindOf
           f == Signature(S, kindOf)
           g == Signature(S, Placements)
<1>1. \A kind \in Kinds : OfKind(Placements, Own(t), kind) = OfKind(kindOf, Own(t), kind)
  BY PlacedAsBefore DEF Own
<1>2. \A kindOf1, kind : OfKind(kindOf1, S, kind) = OfKind(kindOf1, Own(t), kind) \cap S
  BY DEF OfKind
<1> HIDE DEF kindOf
<1>3. \A kind \in Kinds : OfKind(Placements, S, kind) = OfKind(kindOf, S, kind)
  BY <1>1, <1>2
<1>4. /\ f = [k \in Kinds |-> Cardinality(OfKind(kindOf, S, k))]
      /\ g = [k \in Kinds |-> Cardinality(OfKind(Placements, S, k))]
  BY DEF Signature
<1>5. \A k \in Kinds : Cardinality(OfKind(Placements, S, k)) = Cardinality(OfKind(kindOf, S, k))
  BY <1>3
<1>6. f = g
  BY <1>4, <1>5
<1> QED BY <1>6 DEF kindOf

(* A pair of packages passes exactly if both teams can make room. *)
LEMMA ValidMeansRoom ==
    ASSUME AmongTwo, NEW S \in SUBSET Own(1), NEW T \in SUBSET Own(2)
    PROVE  ValidSets(<<Cardinality(S), Cardinality(T)>>, S, T) <=>
             /\ CanMakeRoom(request.rosters[1], Own(1) \ S, T, request.rules.noDrops)
             /\ CanMakeRoom(request.rosters[2], Own(2) \ T, S, request.rules.noDrops)
<1> DEFINE out == Signature(S, request.rosters[1].kindOf)
           in == Signature(T, request.rosters[2].kindOf)
           a == Cardinality(S)
           b == Cardinality(T)
<1>1. 1 \in Teams(request) /\ 2 \in Teams(request) /\ request \in Requests
  BY TwoTeams
<1>2. out = Signature(S, Placements) /\ in = Signature(T, Placements)
  BY <1>1, OwnSignature
<1>3. IsFiniteSet(S) /\ IsFiniteSet(T) /\ T \cap Own(1) = {} /\ S \cap Own(2) = {}
  BY TwoTeams, FS_Subset
<1>4. Admits(PlanFor(request.rosters[1], Placements, S, T), request.rules.noDrops)
        <=> CanMakeRoom(request.rosters[1], Own(1) \ S, T, request.rules.noDrops)
  BY <1>1, <1>3, SetsDecide DEF Own
<1>5. Admits(PlanFor(request.rosters[2], Placements, T, S), request.rules.noDrops)
        <=> CanMakeRoom(request.rosters[2], Own(2) \ T, S, request.rules.noDrops)
  BY <1>1, <1>3, SetsDecide DEF Own
<1>6. ValidSets(<<a, b>>, S, T) <=>
        /\ Admits(CapacityPlan(request.rosters[1], a, out, b, in), request.rules.noDrops)
        /\ Admits(CapacityPlan(request.rosters[2], b, in, a, out), request.rules.noDrops)
  <2> DEFINE pair == <<a, b>>
  <2>1. pair[1] = a /\ pair[2] = b
    OBVIOUS
  <2> HIDE DEF pair, a, b
  <2>2. ValidSets(pair, S, T) <=>
          /\ Admits(CapacityPlan(request.rosters[1], pair[1], out, pair[2], in), request.rules.noDrops)
          /\ Admits(CapacityPlan(request.rosters[2], pair[2], in, pair[1], out), request.rules.noDrops)
    BY Zenon DEF ValidSets, PairIsValid
  <2>3. ValidSets(pair, S, T) <=>
          /\ Admits(CapacityPlan(request.rosters[1], a, out, b, in), request.rules.noDrops)
          /\ Admits(CapacityPlan(request.rosters[2], b, in, a, out), request.rules.noDrops)
    BY <2>1, <2>2, Zenon
  <2> QED BY <2>3 DEF pair
<1>7. /\ PlanFor(request.rosters[1], Placements, S, T) = CapacityPlan(request.rosters[1], a, out, b, in)
      /\ PlanFor(request.rosters[2], Placements, T, S) = CapacityPlan(request.rosters[2], b, in, a, out)
  <2> HIDE DEF out, in
  <2> QED BY <1>2, Zenon DEF PlanFor
<1> HIDE DEF out, in
<1> QED BY <1>4, <1>5, <1>6, <1>7, Zenon

(* The packages of a pair of sizes. *)
LEMMA DealsOfSizes ==
    ASSUME NEW pair, NEW S, NEW T
    PROVE  <<S, T>> \in Deals(pair) <=>
             /\ S \subseteq Free(1) /\ Cardinality(S) = pair[1] /\ FilterHolds(request.rules.outgoingFilter, S)
             /\ T \subseteq Free(2) /\ Cardinality(T) = pair[2] /\ FilterHolds(request.rules.incomingFilter, T)
             /\ ValidSets(pair, S, T)
<1> DEFINE z == <<S, T>>
<1>1. z[1] = S /\ z[2] = T
  OBVIOUS
<1>2. \A A, B : z \in A \X B <=> S \in A /\ T \in B
  OBVIOUS
<1> HIDE DEF z
<1>3. z \in Deals(pair) <=>
        z \in OutPackages(pair[1]) \X InPackages(pair[2]) /\ ValidSets(pair, z[1], z[2])
  BY DEF Deals
<1>4. z \in Deals(pair) <=> S \in OutPackages(pair[1]) /\ T \in InPackages(pair[2]) /\ ValidSets(pair, S, T)
  BY <1>1, <1>2, <1>3, Zenon
<1>5. \A filter, U, n, P : P \in Accepted(filter, U, n)
        <=> P \subseteq U /\ Cardinality(P) = n /\ FilterHolds(filter, P)
  BY DEF Accepted, OfSize
<1>6. /\ S \in OutPackages(pair[1]) <=> /\ S \subseteq Free(1) /\ Cardinality(S) = pair[1]
                                        /\ FilterHolds(request.rules.outgoingFilter, S)
      /\ T \in InPackages(pair[2]) <=> /\ T \subseteq Free(2) /\ Cardinality(T) = pair[2]
                                       /\ FilterHolds(request.rules.incomingFilter, T)
  BY <1>5, Zenon DEF OutPackages, InPackages
<1>7. z \in Deals(pair) <=>
        /\ S \subseteq Free(1) /\ Cardinality(S) = pair[1] /\ FilterHolds(request.rules.outgoingFilter, S)
        /\ T \subseteq Free(2) /\ Cardinality(T) = pair[2] /\ FilterHolds(request.rules.incomingFilter, T)
        /\ ValidSets(pair, S, T)
  BY <1>4, <1>6, Zenon
<1> QED BY <1>7 DEF z

(* The listed pairs of packages are those that make a trade. *)
LEMMA DealMeans ==
    ASSUME AmongTwo, NEW S, NEW T
    PROVE  <<S, T>> \in AllDeals <=> IsDeal(S, T)
<1> DEFINE sizes == <<Cardinality(S), Cardinality(T)>>
<1>1. ASSUME S \subseteq Free(1), T \subseteq Free(2)
      PROVE  /\ ValidSets(sizes, S, T) <=>
                  /\ CanMakeRoom(request.rosters[1], Own(1) \ S, T, request.rules.noDrops)
                  /\ CanMakeRoom(request.rosters[2], Own(2) \ T, S, request.rules.noDrops)
             /\ Cardinality(S) \in Nat /\ Cardinality(S) <= Cardinality(Free(1)) /\ Cardinality(Free(1)) \in Nat
             /\ Cardinality(T) \in Nat /\ Cardinality(T) <= Cardinality(Free(2)) /\ Cardinality(Free(2)) \in Nat
  <2>1. /\ Free(1) \subseteq Own(1) /\ Free(2) \subseteq Own(2)
        /\ IsFiniteSet(Own(1)) /\ IsFiniteSet(Own(2))
    BY TwoTeams
  <2>2. S \in SUBSET Own(1) /\ T \in SUBSET Own(2)
    BY <1>1, <2>1
  <2>3. IsFiniteSet(Free(1)) /\ IsFiniteSet(Free(2))
    BY <2>1, FS_Subset
  <2>4. /\ Cardinality(S) \in Nat /\ Cardinality(S) <= Cardinality(Free(1)) /\ Cardinality(Free(1)) \in Nat
        /\ Cardinality(T) \in Nat /\ Cardinality(T) <= Cardinality(Free(2)) /\ Cardinality(Free(2)) \in Nat
    BY <1>1, <2>3, FS_Subset, FS_CardinalityType
  <2>5. ValidSets(sizes, S, T) <=>
          /\ CanMakeRoom(request.rosters[1], Own(1) \ S, T, request.rules.noDrops)
          /\ CanMakeRoom(request.rosters[2], Own(2) \ T, S, request.rules.noDrops)
    BY <2>2, ValidMeansRoom
  <2> QED BY <2>4, <2>5
<1>2. IsDeal(S, T) <=>
        /\ S \subseteq Free(1) /\ T \subseteq Free(2) /\ Fits(sizes)
        /\ FilterHolds(request.rules.outgoingFilter, S) /\ FilterHolds(request.rules.incomingFilter, T)
        /\ CanMakeRoom(request.rosters[1], Own(1) \ S, T, request.rules.noDrops)
        /\ CanMakeRoom(request.rosters[2], Own(2) \ T, S, request.rules.noDrops)
  BY Zenon DEF IsDeal
<1>3. /\ \A i \in 1 .. Len(Sizes) : IsPair(Sizes[i]) /\ Fits(Sizes[i])
      /\ \A pair \in AllSizes : Fits(pair) => \E i \in 1 .. Len(Sizes) : pair = Sizes[i]
  BY SizesType
<1>4. sizes[1] = Cardinality(S) /\ sizes[2] = Cardinality(T)
  OBVIOUS
<1>5. ASSUME <<S, T>> \in AllDeals
      PROVE  IsDeal(S, T)
  <2>1. PICK i \in 1 .. Len(Sizes) : <<S, T>> \in Deals(Sizes[i])
    BY <1>5 DEF AllDeals
  <2>2. /\ S \subseteq Free(1) /\ Cardinality(S) = Sizes[i][1] /\ FilterHolds(request.rules.outgoingFilter, S)
        /\ T \subseteq Free(2) /\ Cardinality(T) = Sizes[i][2] /\ FilterHolds(request.rules.incomingFilter, T)
        /\ ValidSets(Sizes[i], S, T)
    BY <2>1, DealsOfSizes
  <2>3. Sizes[i] = sizes /\ Fits(Sizes[i])
    BY <1>3, <2>2 DEF IsPair
  <2> HIDE DEF sizes
  <2> QED BY <1>1, <1>2, <2>2, <2>3
<1>6. ASSUME IsDeal(S, T)
      PROVE  <<S, T>> \in AllDeals
  <2>1. /\ S \subseteq Free(1) /\ T \subseteq Free(2) /\ Fits(sizes) /\ ValidSets(sizes, S, T)
        /\ FilterHolds(request.rules.outgoingFilter, S) /\ FilterHolds(request.rules.incomingFilter, T)
    BY <1>1, <1>2, <1>6, Zenon
  <2>2. /\ Cardinality(S) \in Nat /\ Cardinality(S) <= Cardinality(Free(1)) /\ Cardinality(Free(1)) \in Nat
        /\ Cardinality(T) \in Nat /\ Cardinality(T) <= Cardinality(Free(2)) /\ Cardinality(Free(2)) \in Nat
    BY <1>1, <2>1
  <2>3. /\ Cardinality(S) \in request.rules.minOutgoing .. request.rules.maxOutgoing
        /\ Cardinality(T) \in request.rules.minIncoming .. request.rules.maxIncoming
    BY <1>4, <2>1, Zenon DEF Fits
  <2>4. /\ request.rules.minOutgoing \in Nat /\ request.rules.minOutgoing # 0
        /\ request.rules.minIncoming \in Nat /\ request.rules.minIncoming # 0
    BY RulesType DEF AmongTwo
  <2>5. Cardinality(S) \in 1 .. Cardinality(Free(1)) /\ Cardinality(T) \in 1 .. Cardinality(Free(2))
    BY <2>2, <2>3, <2>4
  <2>6. sizes \in AllSizes
    BY <2>5 DEF AllSizes
  <2>7. PICK i \in 1 .. Len(Sizes) : sizes = Sizes[i]
    BY <1>3, <2>1, <2>6
  <2>8. <<S, T>> \in Deals(sizes)
    BY <1>4, <2>1, DealsOfSizes
  <2> HIDE DEF sizes
  <2> QED BY <2>7, <2>8 DEF AllDeals
<1> QED BY <1>5, <1>6

-----------------------------------------------------------------------------
(* What a listed candidate does.                                           *)

Gives(c) == Range(c[<<1, 2>>])

Gets(c) == Range(c[<<2, 1>>])

(* A listed candidate carries a deal, in both directions. *)
LEMMA CandidateCarries ==
    ASSUME AmongTwo, NEW c \in AllMade
    PROVE  /\ c = TwoTeamCandidate(c[<<1, 2>>], c[<<2, 1>>])
           /\ Queue(c[<<1, 2>>], Gives(c)) /\ Queue(c[<<2, 1>>], Gets(c))
           /\ IsDeal(Gives(c), Gets(c))
           /\ Gives(c) \in SUBSET Own(1) /\ Gets(c) \in SUBSET Own(2)
           /\ Gives(c) # {} /\ Gets(c) # {}
<1>1. Makes(AllMade, AllDeals)
  BY AllLines
<1>2. /\ c = TwoTeamCandidate(c[<<1, 2>>], c[<<2, 1>>])
      /\ Queue(c[<<1, 2>>], Gives(c)) /\ Queue(c[<<2, 1>>], Gets(c))
      /\ <<Gives(c), Gets(c)>> \in AllDeals
  BY <1>1, Zenon DEF Makes, Gives, Gets
<1>3. IsDeal(Gives(c), Gets(c))
  BY <1>2, DealMeans
<1>4. Gives(c) \in SUBSET Own(1) /\ Gets(c) \in SUBSET Own(2)
  BY <1>3, TwoTeams DEF IsDeal
<1>5. /\ Cardinality(Gives(c)) \in request.rules.minOutgoing .. request.rules.maxOutgoing
      /\ Cardinality(Gets(c)) \in request.rules.minIncoming .. request.rules.maxIncoming
  <2> DEFINE pair == <<Cardinality(Gives(c)), Cardinality(Gets(c))>>
  <2>1. Fits(pair)
    BY <1>3 DEF IsDeal
  <2>2. pair[1] = Cardinality(Gives(c)) /\ pair[2] = Cardinality(Gets(c))
    OBVIOUS
  <2> HIDE DEF pair
  <2> QED BY <2>1, <2>2, Zenon DEF Fits
<1>6. /\ request.rules.minOutgoing \in Nat /\ request.rules.minOutgoing # 0
      /\ request.rules.minIncoming \in Nat /\ request.rules.minIncoming # 0
  BY RulesType DEF AmongTwo
<1>7. Gives(c) # {} /\ Gets(c) # {}
  <2>1. Cardinality(Gives(c)) # 0 /\ Cardinality(Gets(c)) # 0
    BY <1>5, <1>6
  <2> QED BY <2>1, FS_EmptySet
<1> QED BY <1>2, <1>3, <1>4, <1>7

(* Each team sends its side of the deal and receives the other. *)
LEMMA BothTrade ==
    ASSUME AmongTwo, NEW c \in AllMade
    PROVE  /\ Sent(c, 1) = c[<<1, 2>>] /\ Received(c, 1) = c[<<2, 1>>]
           /\ Sent(c, 2) = c[<<2, 1>>] /\ Received(c, 2) = c[<<1, 2>>]
<1> DEFINE a == c[<<1, 2>>]
           b == c[<<2, 1>>]
<1>1. c = TwoTeamCandidate(a, b) /\ Queue(a, Gives(c)) /\ Queue(b, Gets(c))
  BY CandidateCarries
<1>2. DOMAIN c = {<<1, 2>>, <<2, 1>>}
  <2> HIDE DEF a, b
  <2> QED BY <1>1 DEF TwoTeamCandidate
<1>3. a \in Seq(Gives(c)) /\ b \in Seq(Gets(c))
  BY <1>1 DEF Queue
<1>4. /\ Carried(c, <<1, 2>>) = a /\ Carried(c, <<2, 1>>) = b
      /\ Carried(c, <<1, 1>>) = <<>> /\ Carried(c, <<1, 3>>) = <<>> /\ Carried(c, <<3, 1>>) = <<>>
      /\ Carried(c, <<2, 2>>) = <<>> /\ Carried(c, <<2, 3>>) = <<>> /\ Carried(c, <<3, 2>>) = <<>>
  BY <1>2 DEF Carried
<1>5. ASSUME NEW X, NEW s \in Seq(X)
      PROVE  s \o <<>> = s /\ <<>> \o s = s /\ s \o <<>> \o <<>> = s /\ <<>> \o s \o <<>> = s
  BY <1>5
<1> HIDE DEF a, b
<1>6. Sent(c, 1) = <<>> \o a \o <<>> /\ Received(c, 1) = <<>> \o b \o <<>>
      /\ Sent(c, 2) = b \o <<>> \o <<>> /\ Received(c, 2) = a \o <<>> \o <<>>
  BY <1>4, Zenon DEF Sent, Received
<1>7. Sent(c, 1) = a /\ Received(c, 1) = b /\ Sent(c, 2) = b /\ Received(c, 2) = a
  BY <1>3, <1>5, <1>6
<1> QED BY <1>7 DEF a, b

(* A listed candidate is a transfer, and it makes the move of its deal. *)
LEMMA CandidateIsTransfer ==
    ASSUME AmongTwo, NEW c \in AllMade
    PROVE  IsTransfer(c) /\ MoveOf(c) = SwapOf(Gives(c), Gets(c))
<1> DEFINE out == [t \in Teams(request) |-> Sent(c, t)]
           in == [t \in Teams(request) |-> Received(c, t)]
           S == Gives(c)
           T == Gets(c)
<1>1. /\ Teams(request) = 1 .. 2 /\ Own(1) \cap Own(2) = {}
      /\ Both = UNION {Own(t) : t \in Teams(request)}
  BY TwoTeams
<1>2. /\ Queue(c[<<1, 2>>], S) /\ Queue(c[<<2, 1>>], T)
      /\ S \in SUBSET Own(1) /\ T \in SUBSET Own(2) /\ S # {} /\ T # {}
  BY CandidateCarries
<1>3. /\ Sent(c, 1) = c[<<1, 2>>] /\ Received(c, 1) = c[<<2, 1>>]
      /\ Sent(c, 2) = c[<<2, 1>>] /\ Received(c, 2) = c[<<1, 2>>]
  BY BothTrade
<1>4. 1 \in 1 .. 2 /\ 2 \in 1 .. 2 /\ \A t \in 1 .. 2 : t = 1 \/ t = 2
  OBVIOUS
<1> HIDE DEF S, T
<1>5. /\ out[1] = c[<<1, 2>>] /\ in[1] = c[<<2, 1>>] /\ out[2] = c[<<2, 1>>] /\ in[2] = c[<<1, 2>>]
  BY <1>1, <1>3
<1> HIDE DEF out, in
<1>6. /\ Queue(out[1], S) /\ Queue(in[1], T) /\ Queue(out[2], T) /\ Queue(in[2], S)
  BY <1>2, <1>5
<1>7. /\ IsInjective(out[1]) /\ out[1] \in Seq(S) /\ Range(out[1]) = S /\ out[1] # <<>>
      /\ IsInjective(out[2]) /\ out[2] \in Seq(T) /\ Range(out[2]) = T /\ out[2] # <<>>
      /\ IsInjective(in[1]) /\ in[1] \in Seq(T) /\ Range(in[1]) = T
      /\ IsInjective(in[2]) /\ in[2] \in Seq(S) /\ Range(in[2]) = S
  <2>1. Range(<<>>) = {}
    BY DEF Range
  <2>2. \A s, Q : Queue(s, Q) /\ Q # {} => IsInjective(s) /\ s \in Seq(Q) /\ Range(s) = Q /\ s # <<>>
    BY <2>1 DEF Queue
  <2> QED BY <1>2, <1>6, <2>2, Zenon
<1>8. IsTransfer(c)
  <2>1. (\A t \in Teams(request) :
           /\ IsInjective(out[t]) /\ IsInjective(in[t])
           /\ Len(request.rosters) = 2 => out[t] # <<>>
           /\ out[t] \in Seq(Own(t))
           /\ in[t] \in Seq(UNION {Range(out[u]) : u \in Teams(request)})
           /\ Range(in[t]) \cap Own(t) = {}
           /\ \A u \in Teams(request) : u # t => Range(in[t]) \cap Range(in[u]) = {}
           /\ Range(out[t]) \subseteq UNION {Range(in[u]) : u \in Teams(request)}) => IsTransfer(c)
    BY Zenon DEF IsTransfer, out, in, Own
  <2>2. UNION {Range(out[u]) : u \in Teams(request)} = S \cup T
        /\ UNION {Range(in[u]) : u \in Teams(request)} = S \cup T
    BY <1>1, <1>4, <1>7
  <2>3. /\ out[1] \in Seq(Own(1)) /\ out[2] \in Seq(Own(2))
        /\ in[1] \in Seq(S \cup T) /\ in[2] \in Seq(S \cup T)
    BY <1>2, <1>7, SeqMonotonic
  <2>4. S \cap T = {} /\ T \cap Own(1) = {} /\ S \cap Own(2) = {}
    BY <1>1, <1>2
  <2>5. \A t \in 1 .. 2 :
          /\ IsInjective(out[t]) /\ IsInjective(in[t])
          /\ out[t] # <<>>
          /\ out[t] \in Seq(Own(t))
          /\ in[t] \in Seq(S \cup T)
          /\ Range(in[t]) \cap Own(t) = {}
          /\ \A u \in 1 .. 2 : u # t => Range(in[t]) \cap Range(in[u]) = {}
          /\ Range(out[t]) \subseteq S \cup T
    BY <1>4, <1>7, <2>3, <2>4
  <2> QED BY <1>1, <2>1, <2>2, <2>5
<1>9. MoveOf(c) = SwapOf(S, T)
  <2> DEFINE
         To(p) == IF \E t \in 1 .. 2 : p \in Range(Received(c, t))
                  THEN CHOOSE t \in 1 .. 2 : p \in Range(Received(c, t))
                  ELSE CHOOSE t \in 1 .. 2 : p \in Own(t)
         ToOf(teams, p) == IF \E t \in teams : p \in Range(Received(c, t))
                           THEN CHOOSE t \in teams : p \in Range(Received(c, t))
                           ELSE CHOOSE t \in teams : p \in Own(t)
         MovesOf(players, teams) == [p \in players |-> ToOf(teams, p)]
         m == SwapOf(S, T)
         n == MoveOf(c)
  <2>1. n = [p \in Both |-> To(p)]
    <3>1. MoveOf(c) = MovesOf(UNION {Own(t) : t \in Teams(request)}, Teams(request))
      BY Zenon DEF MoveOf, Own
    <3>2. MovesOf(Both, 1 .. 2) = [p \in Both |-> To(p)]
      OBVIOUS
    <3> HIDE DEF MovesOf
    <3>3. MoveOf(c) = MovesOf(Both, 1 .. 2)
      BY <1>1, <3>1, Zenon
    <3> QED BY <3>2, <3>3
  <2>2. m = [p \in Both |-> IF p \in S THEN 2 ELSE IF p \in T THEN 1 ELSE IF p \in Own(1) THEN 1 ELSE 2]
    BY DEF SwapOf
  <2>3. Range(Received(c, 1)) = T /\ Range(Received(c, 2)) = S
    BY <1>3, <1>5, <1>7
  <2>4. Both = Own(1) \cup Own(2)
    BY DEF Both
  <2> HIDE DEF m, n
  <2>5. ASSUME NEW p \in Both
        PROVE  To(p) = IF p \in S THEN 2 ELSE IF p \in T THEN 1 ELSE IF p \in Own(1) THEN 1 ELSE 2
    <3>1. /\ \A t \in 1 .. 2 : p \in Range(Received(c, t)) <=> (t = 1 /\ p \in T) \/ (t = 2 /\ p \in S)
      BY <1>4, <2>3
    <3>2. S \cap T = {}
      BY <1>1, <1>2
    <3>3. CASE p \in S
      <4>1. To(p) = CHOOSE t \in 1 .. 2 : p \in Range(Received(c, t))
        BY <1>4, <3>1, <3>3
      <4>2. \A t \in 1 .. 2 : p \in Range(Received(c, t)) <=> t = 2
        BY <3>1, <3>2, <3>3, <1>4
      <4>3. (CHOOSE t \in 1 .. 2 : p \in Range(Received(c, t))) = 2
        BY <1>4, <4>2
      <4> QED BY <3>3, <4>1, <4>3
    <3>4. CASE p \notin S /\ p \in T
      <4>1. To(p) = CHOOSE t \in 1 .. 2 : p \in Range(Received(c, t))
        BY <1>4, <3>1, <3>4
      <4>2. \A t \in 1 .. 2 : p \in Range(Received(c, t)) <=> t = 1
        BY <3>1, <3>4, <1>4
      <4>3. (CHOOSE t \in 1 .. 2 : p \in Range(Received(c, t))) = 1
        BY <1>4, <4>2
      <4> QED BY <3>4, <4>1, <4>3
    <3>5. CASE p \notin S /\ p \notin T
      <4>1. To(p) = CHOOSE t \in 1 .. 2 : p \in Own(t)
        BY <3>1, <3>5
      <4>2. \A t \in 1 .. 2 : p \in Own(t) <=> (t = IF p \in Own(1) THEN 1 ELSE 2)
        BY <1>1, <1>4, <2>4
      <4>3. (IF p \in Own(1) THEN 1 ELSE 2) \in 1 .. 2
        OBVIOUS
      <4>4. (CHOOSE t \in 1 .. 2 : p \in Own(t)) = IF p \in Own(1) THEN 1 ELSE 2
        BY <4>2, <4>3
      <4> QED BY <3>5, <4>1, <4>4
    <3> QED BY <3>3, <3>4, <3>5
  <2> HIDE DEF To
  <2>6. n = m
    BY <2>1, <2>2, <2>5
  <2> QED BY <2>6 DEF m, n
<1> QED BY <1>8, <1>9 DEF S, T

(* Counting admits both teams of a listed candidate. *)
LEMMA CandidateIsAdmitted ==
    ASSUME AmongTwo, NEW c \in AllMade, NEW t \in 1 .. 2
    PROVE  IsAdmitted(c, t)
<1> DEFINE S == Gives(c)
           T == Gets(c)
<1>1. request \in Requests /\ 1 \in Teams(request) /\ 2 \in Teams(request)
  BY TwoTeams
<1>2. /\ IsDeal(S, T) /\ S \in SUBSET Own(1) /\ T \in SUBSET Own(2)
      /\ Queue(c[<<1, 2>>], S) /\ Queue(c[<<2, 1>>], T)
  BY CandidateCarries
<1>3. IsFiniteSet(S) /\ IsFiniteSet(T) /\ T \cap Own(1) = {} /\ S \cap Own(2) = {}
  BY <1>2, TwoTeams, FS_Subset
<1>4. /\ Sent(c, 1) = c[<<1, 2>>] /\ Received(c, 1) = c[<<2, 1>>]
      /\ Sent(c, 2) = c[<<2, 1>>] /\ Received(c, 2) = c[<<1, 2>>]
  BY BothTrade
<1> HIDE DEF S, T
<1>5. ASSUME NEW u \in Teams(request), NEW A \in SUBSET Own(u), NEW B, IsFiniteSet(B), B \cap Own(u) = {},
             Queue(Sent(c, u), A), Queue(Received(c, u), B),
             CanMakeRoom(request.rosters[u], Own(u) \ A, B, request.rules.noDrops)
      PROVE  IsAdmitted(c, u)
  <2>1. Admits(PlanFor(request.rosters[u], Placements, A, B), request.rules.noDrops)
    BY <1>1, <1>5, SetsDecide DEF Own
  <2>2. /\ Range(Sent(c, u)) = A /\ Len(Sent(c, u)) = Cardinality(A)
        /\ Range(Received(c, u)) = B /\ Len(Received(c, u)) = Cardinality(B)
    BY <1>5, QueueSize
  <2>3. PlanOf(c, u) = PlanFor(request.rosters[u], Placements, A, B)
    BY <2>2, Zenon DEF PlanOf, PlanFor
  <2> QED BY <2>1, <2>3 DEF IsAdmitted
<1>6. /\ CanMakeRoom(request.rosters[1], Own(1) \ S, T, request.rules.noDrops)
      /\ CanMakeRoom(request.rosters[2], Own(2) \ T, S, request.rules.noDrops)
  BY <1>2 DEF IsDeal
<1>7. Queue(Sent(c, 1), S) /\ Queue(Received(c, 1), T) /\ Queue(Sent(c, 2), T) /\ Queue(Received(c, 2), S)
  BY <1>2, <1>4
<1>8. IsAdmitted(c, 1) /\ IsAdmitted(c, 2)
  BY <1>1, <1>2, <1>3, <1>5, <1>6, <1>7
<1> QED BY <1>8

(* A listed candidate is not taken for none. *)
LEMMA CandidateRoutes ==
    ASSUME AmongTwo, NEW c \in AllMade
    PROVE  c \in [Routes(request) -> Seq(Both)]
<1> DEFINE a == c[<<1, 2>>]
           b == c[<<2, 1>>]
<1>1. /\ c = TwoTeamCandidate(a, b) /\ Queue(a, Gives(c)) /\ Queue(b, Gets(c))
      /\ Gives(c) \in SUBSET Own(1) /\ Gets(c) \in SUBSET Own(2)
  BY CandidateCarries
<1>2. a \in Seq(Both) /\ b \in Seq(Both)
  BY <1>1, SeqMonotonic DEF Queue, Both
<1>3. Routes(request) = {<<1, 2>>, <<2, 1>>}
  <2>1. Teams(request) = 1 .. 2
    BY TwoTeams
  <2> QED BY <2>1 DEF Routes
<1> HIDE DEF a, b
<1> QED BY <1>1, <1>2, <1>3 DEF TwoTeamCandidate

(* The iterator of a two-team request yields, from any index on, the rest of a list of its trades. *)
LEMMA TwoTeamsIterate ==
    ASSUME AmongTwo
    PROVE  IteratesTrades
<1> DEFINE all == AllPairLists
           N == CandidateCount(request)
           from == [n \in 0 .. N |-> IterFrom(request, n)]
<1>1. /\ Queue(all, AllMade) /\ TwoTeamsCount(request) = Len(all)
  BY AllLines
<1>2. Len(request.rosters) = 2 /\ Teams(request) = 1 .. 2 /\ request \in Requests
  BY TwoTeams
<1> HIDE DEF all
<1>3. /\ all \in Seq(AllMade) /\ Range(all) = AllMade /\ Len(all) \in Nat /\ DOMAIN all = 1 .. Len(all)
      /\ \A i, j \in 1 .. Len(all) : all[i] = all[j] => i = j
      /\ \A i \in 1 .. Len(all) : all[i] \in AllMade
      /\ \A c \in AllMade : \E i \in 1 .. Len(all) : c = all[i]
  <2>1. all \in Seq(AllMade) /\ IsInjective(all) /\ Range(all) = AllMade
    BY <1>1 DEF Queue
  <2>2. Len(all) \in Nat /\ DOMAIN all = 1 .. Len(all) /\ \A i \in 1 .. Len(all) : all[i] \in AllMade
    BY <2>1
  <2>3. \A i, j \in 1 .. Len(all) : all[i] = all[j] => i = j
    BY <2>1, <2>2 DEF IsInjective
  <2>4. \A c \in AllMade : \E i \in 1 .. Len(all) : c = all[i]
    BY <2>1, <2>2 DEF Range
  <2> QED BY <2>1, <2>2, <2>3, <2>4
<1>4. N = Len(all)
  BY <1>1, <1>2 DEF CandidateCount
<1>5. \A n \in 0 .. N : IterFrom(request, n) = From(all, n)
  <2> SUFFICES ASSUME NEW n \in 0 .. N
               PROVE  IterFrom(request, n) = From(all, n)
    OBVIOUS
  <2>1. n \in Nat
    BY <1>3, <1>4
  <2>2. TwoTeamsFrom(request, n) = From(all, n)
    BY <2>1, TwoTeamsFromHolds DEF all
  <2> QED BY <1>2, <2>2, Zenon DEF IterFrom
<1>6. \A c \in AllMade : /\ IsTransfer(c) /\ MoveOf(c) = SwapOf(Gives(c), Gets(c))
                         /\ IsDeal(Gives(c), Gets(c)) /\ \A t \in 1 .. 2 : IsAdmitted(c, t)
                         /\ Gives(c) \in SUBSET Own(1) /\ Gets(c) \in SUBSET Own(2)
                         /\ c \in [Routes(request) -> Seq(Both)]
  <2> SUFFICES ASSUME NEW c \in AllMade
               PROVE  /\ IsTransfer(c) /\ MoveOf(c) = SwapOf(Gives(c), Gets(c))
                      /\ IsDeal(Gives(c), Gets(c)) /\ \A t \in 1 .. 2 : IsAdmitted(c, t)
                      /\ Gives(c) \in SUBSET Own(1) /\ Gets(c) \in SUBSET Own(2)
                      /\ c \in [Routes(request) -> Seq(Both)]
    OBVIOUS
  <2>1. IsTransfer(c) /\ MoveOf(c) = SwapOf(Gives(c), Gets(c))
    BY CandidateIsTransfer
  <2>2. \A t \in 1 .. 2 : IsAdmitted(c, t)
    BY CandidateIsAdmitted
  <2>3. IsDeal(Gives(c), Gets(c)) /\ Gives(c) \in SUBSET Own(1) /\ Gets(c) \in SUBSET Own(2)
    BY CandidateCarries
  <2>4. c \in [Routes(request) -> Seq(Both)]
    BY CandidateRoutes
  <2> QED BY <2>1, <2>2, <2>3, <2>4
<1>7. all \in Seq(Range(all)) /\ None \notin Range(all)
  <2>1. Both = UNION {Owned(request.rosters[t]) : t \in Teams(request)}
    BY TwoTeams, Zenon DEF Own
  <2>2. None \notin [Routes(request) -> Seq(Both)]
    BY <1>2, <2>1, NoneAssumption
  <2> QED BY <1>3, <1>6, <2>2
<1>8. {MoveOf(all[i]) : i \in DOMAIN all} = Trades
  <2>1. ASSUME NEW i \in 1 .. Len(all)
        PROVE  MoveOf(all[i]) \in Trades
    <3>1. all[i] \in AllMade
      BY <1>3
    <3>2. /\ MoveOf(all[i]) = SwapOf(Gives(all[i]), Gets(all[i])) /\ IsDeal(Gives(all[i]), Gets(all[i]))
          /\ Gives(all[i]) \in SUBSET Own(1) /\ Gets(all[i]) \in SUBSET Own(2)
      BY <1>6, <3>1
    <3> QED BY <3>2, SwapMeans
  <2>2. ASSUME NEW m \in Trades
        PROVE  \E i \in 1 .. Len(all) : m = MoveOf(all[i])
    <3>1. m \in [Both -> 1 .. 2]
      BY <1>2, TwoTeams DEF Trades, Own
    <3> DEFINE S == LeavesBy(m, 1)
               T == LeavesBy(m, 2)
    <3>2. m = SwapOf(S, T)
      BY <3>1, SwapsAreMoves
    <3>3. S \in SUBSET Own(1) /\ T \in SUBSET Own(2)
      BY DEF LeavesBy
    <3> HIDE DEF S, T
    <3>4. IsDeal(S, T)
      BY <3>2, <3>3, SwapMeans
    <3>5. <<S, T>> \in AllDeals
      BY <3>4, DealMeans
    <3>6. \E c \in AllMade : <<S, T>> = <<Gives(c), Gets(c)>>
      <4>1. Makes(AllMade, AllDeals)
        BY AllLines
      <4> QED BY <3>5, <4>1, Zenon DEF Makes, Gives, Gets
    <3>7. PICK c \in AllMade : S = Gives(c) /\ T = Gets(c)
      BY <3>6
    <3>8. MoveOf(c) = m
      BY <1>6, <3>2, <3>7
    <3>9. PICK i \in 1 .. Len(all) : c = all[i]
      BY <1>3
    <3> QED BY <3>8, <3>9
  <2> QED BY <1>3, <2>1, <2>2
<1>9. \A i, j \in DOMAIN all : MoveOf(all[i]) = MoveOf(all[j]) => i = j
  <2> SUFFICES ASSUME NEW i \in 1 .. Len(all), NEW j \in 1 .. Len(all), MoveOf(all[i]) = MoveOf(all[j])
               PROVE  i = j
    BY <1>3
  <2> DEFINE c == all[i]
             d == all[j]
  <2>1. c \in AllMade /\ d \in AllMade
    BY <1>3
  <2> HIDE DEF c, d
  <2>2. /\ MoveOf(c) = SwapOf(Gives(c), Gets(c)) /\ Gives(c) \in SUBSET Own(1) /\ Gets(c) \in SUBSET Own(2)
        /\ MoveOf(d) = SwapOf(Gives(d), Gets(d)) /\ Gives(d) \in SUBSET Own(1) /\ Gets(d) \in SUBSET Own(2)
    BY <1>6, <2>1
  <2>3. \A S \in SUBSET Own(1), T \in SUBSET Own(2) :
          LeavesBy(SwapOf(S, T), 1) = S /\ LeavesBy(SwapOf(S, T), 2) = T
    BY SwapsAreMoves
  <2>4. MoveOf(c) = MoveOf(d)
    BY DEF c, d
  <2>5. Gives(c) = Gives(d) /\ Gets(c) = Gets(d)
    <3>1. LeavesBy(MoveOf(c), 1) = Gives(c) /\ LeavesBy(MoveOf(c), 2) = Gets(c)
      BY <2>2, <2>3
    <3>2. LeavesBy(MoveOf(d), 1) = Gives(d) /\ LeavesBy(MoveOf(d), 2) = Gets(d)
      BY <2>2, <2>3
    <3> QED BY <2>4, <3>1, <3>2
  <2>6. c = d
    <3>1. Makes(AllMade, AllDeals)
      BY AllLines
    <3>2. \A x, y \in AllMade : Gives(x) = Gives(y) /\ Gets(x) = Gets(y) => x = y
      BY <3>1, Zenon DEF Makes, Gives, Gets
    <3> QED BY <2>1, <2>5, <3>2
  <2>7. all[i] = all[j]
    BY <2>6 DEF c, d
  <2> QED BY <1>3, <2>7
<1>10. /\ \A n \in DOMAIN from : from[n] = From(all, n)
       /\ from[0] = all
  <2>1. DOMAIN from = 0 .. N /\ \A n \in 0 .. N : from[n] = From(all, n)
    BY <1>5
  <2>2. 0 \in 0 .. N
    BY <1>3, <1>4
  <2>3. From(all, 0) = all
    <3>1. 0 \in Nat
      OBVIOUS
    <3> QED BY <1>3, <3>1, FromType
  <2> HIDE DEF from
  <2> QED BY <2>1, <2>2, <2>3
<1>11. \A i \in DOMAIN all : IsTransfer(all[i]) /\ \A t \in Teams(request) : IsAdmitted(all[i], t)
  BY <1>2, <1>3, <1>6
<1>12. Len(all) = N
  BY <1>4
<1> HIDE DEF from, N
<1>13. LET first == from[0]
       IN /\ first \in Seq(Range(first)) /\ None \notin Range(first)
          /\ Len(first) = N
          /\ \A n \in DOMAIN from : from[n] = From(first, n)
          /\ {MoveOf(first[i]) : i \in DOMAIN first} = Trades
          /\ \A i, j \in DOMAIN first : MoveOf(first[i]) = MoveOf(first[j]) => i = j
          /\ \A i \in DOMAIN first :
               IsTransfer(first[i]) /\ \A t \in Teams(request) : IsAdmitted(first[i], t)
  BY <1>7, <1>8, <1>9, <1>10, <1>11, <1>12, Zenon
<1> QED BY <1>13, Zenon DEF IteratesTrades, from, N

(* The space of a search among two or three teams is exactly its trades, though it is    *)
(* counted by sizes, slots and evidence, without building a package, and skips by those  *)
(* counts: from any index on, the iterator yields what it yields from the first on, and  *)
(* that is every trade once, as many as were counted (TradeSpace and ThreeWayTradeSpace). *)
THEOREM SpacesAreExact == Spec => []SpaceIsExact
<1>1. TrialInv => SpaceIsExact
  <2> SUFFICES ASSUME TrialInv PROVE IteratesTrades
    BY DEF SpaceIsExact
  <2>1. request \in Requests /\ (Len(request.rosters) = 2 \/ Len(request.rosters) = 3)
    BY RequestType DEF TrialInv
  <2> QED BY <2>1, TwoTeamsIterate, ThreeTeamsIterate DEF AmongTwo, AmongThree
<1> QED BY <1>1, TrialInvAlways, PTL

-----------------------------------------------------------------------------
(* The walk over the candidates.                                           *)

All == IterFrom(request, 0)

Move(i) == MoveOf(All[i + 1])

\* Every index below next was examined, and the open iterator stands at next, or
\* behind the candidate on trial.
WalkInv ==
  /\ request \in Requests
  /\ phase \in {"new", "ready", "running", "complete"}
  /\ verdict \in {"none", "adjusted", "waivers"}
  /\ phase = "new" => stops = 0 /\ next = 0 /\ examined = {}
  /\ phase # "new" => IteratesTrades /\ total = Len(All)
  /\ next \in Nat /\ (phase # "new" => next <= Len(All))
  /\ phase = "complete" => next = Len(All)
  /\ phase = "running" /\ trial = NoTrial => todo = From(All, next)
  /\ phase = "running" /\ trial # NoTrial =>
       /\ next < Len(All) /\ trial.candidate = All[next + 1] /\ todo = From(All, next + 1)
       /\ <<next, Move(next)>> \in examined
  /\ phase # "new" => /\ \A i \in Nat : i < next => <<i, Move(i)>> \in examined
                      /\ examined \subseteq {<<i, Move(i)>> : i \in 0 .. Len(All) - 1}

LEMMA IteratesType ==
    ASSUME IteratesTrades
    PROVE  /\ All \in Seq(Range(All)) /\ None \notin Range(All) /\ Len(All) \in Nat
           /\ \A n \in 0 .. Len(All) : IterFrom(request, n) = From(All, n)
           /\ Len(All) = CandidateCount(request)
           /\ {MoveOf(All[i]) : i \in DOMAIN All} = Trades
           /\ \A i, j \in DOMAIN All : MoveOf(All[i]) = MoveOf(All[j]) => i = j
           /\ \A i \in DOMAIN All :
                IsTransfer(All[i]) /\ \A t \in Teams(request) : IsAdmitted(All[i], t)
<1>1. PICK from \in {[n \in 0 .. CandidateCount(request) |-> IterFrom(request, n)]} :
           /\ from[0] \in Seq(Range(from[0])) /\ None \notin Range(from[0])
           /\ Len(from[0]) = CandidateCount(request)
           /\ \A n \in DOMAIN from : from[n] = From(from[0], n)
           /\ {MoveOf(from[0][i]) : i \in DOMAIN from[0]} = Trades
           /\ \A i, j \in DOMAIN from[0] : MoveOf(from[0][i]) = MoveOf(from[0][j]) => i = j
           /\ \A i \in DOMAIN from[0] :
                IsTransfer(from[0][i]) /\ \A t \in Teams(request) : IsAdmitted(from[0][i], t)
  BY DEF IteratesTrades
<1>2. /\ DOMAIN from = 0 .. CandidateCount(request)
      /\ \A n \in 0 .. CandidateCount(request) : from[n] = IterFrom(request, n)
  OBVIOUS
<1>3. Len(from[0]) \in Nat
  BY <1>1
<1>4. from[0] = All
  BY <1>1, <1>2, <1>3 DEF All
<1> HIDE DEF All
<1> QED
  BY <1>1, <1>2, <1>3, <1>4

(* The rest of a sequence after its first n members. *)
LEMMA RestOfSequence ==
    ASSUME NEW s, s \in Seq(Range(s)), NEW n \in Nat, n <= Len(s)
    PROVE  /\ From(s, n) = <<>> <=> n = Len(s)
           /\ From(s, n) # <<>> => /\ n < Len(s)
                                   /\ Head(From(s, n)) = s[n + 1]
                                   /\ Tail(From(s, n)) = From(s, n + 1)
<1>1. Len(s) \in Nat
  OBVIOUS
<1>2. CASE n = Len(s)
  BY <1>1, <1>2, SubSeqEmpty DEF From
<1>3. CASE n < Len(s)
  <2>1. n + 1 \in 1 .. Len(s) /\ Len(s) \in n + 1 .. Len(s)
    BY <1>1, <1>3
  <2>2. Head(From(s, n)) = s[n + 1] /\ Tail(From(s, n)) = From(s, n + 1)
    BY <2>1, HeadTailOfSubSeq DEF From
  <2>3. From(s, n) # <<>>
    <3>1. \A i \in n + 1 .. Len(s) : s[i] \in Range(s)
      BY <1>1 DEF Range
    <3>2. Len(From(s, n)) # 0
      BY <1>1, <1>3, <3>1, SubSeqProperties DEF From
    <3> QED
      BY <3>2
  <2> QED
    BY <1>3, <2>2, <2>3
<1> QED
  BY <1>1, <1>2, <1>3

LEMMA SameSpace ==
    ASSUME request' = request
    PROVE  /\ All' = All /\ IteratesTrades' = IteratesTrades
           /\ \A i : Move(i)' = Move(i)
           /\ NoTrial' = NoTrial
BY DEF All, Move, MoveOf, IteratesTrades, Trades, IsTransfer, IsAdmitted, PlanOf, Placements, Teams,
       FilterHolds, RuleHolds, CanMakeRoom, NoTrial

LEMMA WalkInvInit == Init => WalkInv
BY DEF Init, WalkInv

LEMMA CountWalks ==
    ASSUME WalkInv, Count, SpaceIsExact'
    PROVE  WalkInv'
<1>1. /\ request' = request /\ request \in Requests /\ phase' = "ready" /\ stops' = 0
      /\ total' = CandidateCount(request) /\ next' = 0 /\ examined' = {} /\ verdict' = verdict
      /\ verdict \in {"none", "adjusted", "waivers"}
  BY DEF WalkInv, Count
<1>2. IteratesTrades'
  BY <1>1 DEF SpaceIsExact
<1>3. IteratesTrades /\ All' = All
  BY <1>1, <1>2, SameSpace
<1>4. total' = Len(All) /\ Len(All) \in Nat
  BY <1>1, <1>3, IteratesType
<1> QED
  BY <1>1, <1>2, <1>3, <1>4 DEF WalkInv

\* What does not move the search.
LEMMA StandsStill ==
    ASSUME WalkInv, phase # "new",
           UNCHANGED <<request, total, examined, verdict>>, phase' \in {"ready", "running"},
           next' \in Nat, next' <= next,
           phase' = "running" => /\ next' = next
                                 /\ trial' = NoTrial => todo' = From(All, next)
                                 /\ trial' # NoTrial =>
                                      /\ next < Len(All) /\ trial'.candidate = All[next + 1]
                                      /\ todo' = From(All, next + 1)
                                      /\ <<next, Move(next)>> \in examined
    PROVE  WalkInv'
<1>1. /\ All' = All /\ IteratesTrades' = IteratesTrades /\ NoTrial' = NoTrial
      /\ \A i : Move(i)' = Move(i)
  BY SameSpace
<1>2. /\ IteratesTrades /\ total = Len(All) /\ next \in Nat /\ next <= Len(All)
      /\ \A i \in Nat : i < next => <<i, Move(i)>> \in examined
      /\ examined \subseteq {<<i, Move(i)>> : i \in 0 .. Len(All) - 1}
      /\ request \in Requests /\ verdict \in {"none", "adjusted", "waivers"}
  BY DEF WalkInv
<1>3. Len(All) \in Nat
  BY <1>2, IteratesType
<1>4. next' <= Len(All) /\ \A i \in Nat : i < next' => <<i, Move(i)>> \in examined
  BY <1>2, <1>3
<1>5. examined' \subseteq {<<i, Move(i)'>> : i \in 0 .. Len(All') - 1}
  BY <1>1, <1>2
<1>6. \A i \in Nat : i < next' => <<i, Move(i)'>> \in examined'
  BY <1>1, <1>4
<1>7. phase' = "running" /\ trial' # NoTrial => <<next', Move(next)'>> \in examined'
  BY <1>1
<1> QED
  BY <1>1, <1>2, <1>4, <1>5, <1>6, <1>7 DEF WalkInv

LEMMA OpenWalks ==
    ASSUME WalkInv, TrialInv, Open
    PROVE  WalkInv'
<1>1. /\ phase = "ready" /\ trial' = NoTrial /\ phase' = "running" /\ next' = next
      /\ UNCHANGED <<request, total, examined, verdict>> /\ todo' = IterFrom(request, next)
  BY DEF Open, TrialInv, TrialIsTransfer
<1>2. IteratesTrades /\ next \in Nat /\ next <= Len(All)
  BY <1>1 DEF WalkInv
<1>3. todo' = From(All, next)
  BY <1>1, <1>2, IteratesType
<1> QED
  BY <1>1, <1>2, <1>3, StandsStill

LEMMA StopWalks ==
    ASSUME WalkInv, Stop
    PROVE  WalkInv'
<1>1. /\ phase = "running" /\ phase' = "ready"
      /\ UNCHANGED <<request, total, examined, verdict>>
      /\ next' \in (next - (next % CheckpointInterval)) .. next
  BY DEF Stop
<1>2. next \in Nat /\ CheckpointInterval \in Nat /\ CheckpointInterval > 0
  BY BoundAssumption DEF WalkInv
<1>3. next % CheckpointInterval \in Nat /\ next % CheckpointInterval <= next
  BY <1>2
<1>4. next' \in Nat /\ next' <= next
  BY <1>1, <1>2, <1>3
<1> QED
  BY <1>1, <1>4, StandsStill

LEMMA FinishWalks ==
    ASSUME WalkInv, Finish
    PROVE  WalkInv'
<1>1. /\ phase = "running" /\ phase' = "complete" /\ trial = NoTrial /\ todo = <<>> /\ next' = total
      /\ UNCHANGED <<request, total, examined, verdict, trial>>
  BY DEF Finish
<1>2. /\ IteratesTrades /\ total = Len(All) /\ next \in Nat /\ next <= Len(All) /\ todo = From(All, next)
      /\ \A i \in Nat : i < next => <<i, Move(i)>> \in examined
      /\ examined \subseteq {<<i, Move(i)>> : i \in 0 .. Len(All) - 1}
      /\ request \in Requests /\ verdict \in {"none", "adjusted", "waivers"}
  BY <1>1 DEF WalkInv
<1>3. next = Len(All) /\ Len(All) \in Nat
  BY <1>1, <1>2, IteratesType, RestOfSequence
<1>4. /\ All' = All /\ IteratesTrades' = IteratesTrades /\ \A i : Move(i)' = Move(i)
  BY <1>1, SameSpace
<1>5. /\ examined' \subseteq {<<i, Move(i)'>> : i \in 0 .. Len(All') - 1}
      /\ \A i \in Nat : i < next' => <<i, Move(i)'>> \in examined'
  BY <1>1, <1>2, <1>3, <1>4
<1> QED
  BY <1>1, <1>2, <1>3, <1>4, <1>5 DEF WalkInv

LEMMA TakeWalks ==
    ASSUME WalkInv, Take
    PROVE  WalkInv'
<1>1. /\ phase = "running" /\ trial = NoTrial /\ todo # <<>>
      /\ trial' = [candidate |-> Head(todo), done |-> <<>>] /\ todo' = Tail(todo)
      /\ examined' = examined \cup {<<next, MoveOf(Head(todo))>>}
      /\ phase' = IF IsTransfer(Head(todo)) THEN "running" ELSE "failed"
      /\ UNCHANGED <<request, total, next, verdict>>
  BY DEF Take
<1>2. /\ IteratesTrades /\ total = Len(All) /\ next \in Nat /\ next <= Len(All) /\ todo = From(All, next)
      /\ \A i \in Nat : i < next => <<i, Move(i)>> \in examined
      /\ examined \subseteq {<<i, Move(i)>> : i \in 0 .. Len(All) - 1}
      /\ request \in Requests /\ verdict \in {"none", "adjusted", "waivers"}
  BY <1>1 DEF WalkInv
<1>3. /\ next < Len(All) /\ Len(All) \in Nat
      /\ Head(todo) = All[next + 1] /\ Tail(todo) = From(All, next + 1)
  BY <1>1, <1>2, IteratesType, RestOfSequence
<1>4. /\ All' = All /\ IteratesTrades' = IteratesTrades /\ NoTrial' = NoTrial
      /\ \A i : Move(i)' = Move(i)
  BY <1>1, SameSpace
<1>5. next + 1 \in DOMAIN All
  BY <1>2, <1>3, IteratesType
<1>6. phase' = "running" /\ trial' # NoTrial
  <2>1. IsTransfer(All[next + 1])
    BY <1>2, <1>5, IteratesType
  <2>2. All[next + 1] # None
    BY <1>2, <1>5, IteratesType DEF Range
  <2> QED
    BY <1>1, <1>3, <2>1, <2>2 DEF NoTrial
<1>7. examined' = examined \cup {<<next, Move(next)>>}
  BY <1>1, <1>3 DEF Move
<1>8. /\ examined' \subseteq {<<i, Move(i)'>> : i \in 0 .. Len(All') - 1}
      /\ \A i \in Nat : i < next' => <<i, Move(i)'>> \in examined'
      /\ <<next', Move(next)'>> \in examined'
  BY <1>1, <1>2, <1>3, <1>4, <1>7
<1>9. trial'.candidate = All'[next' + 1] /\ todo' = From(All', next' + 1) /\ next' < Len(All')
  BY <1>1, <1>3, <1>4
<1> QED
  BY <1>1, <1>2, <1>3, <1>4, <1>6, <1>8, <1>9 DEF WalkInv

\* The candidate on trial is done with.
LEMMA StepsOn ==
    ASSUME WalkInv, phase = "running", trial # NoTrial,
           trial' = NoTrial, phase' = "running", next' = next + 1,
           verdict' \in {"adjusted", "waivers"},
           UNCHANGED <<request, total, todo, examined>>
    PROVE  WalkInv'
<1>1. /\ IteratesTrades /\ total = Len(All) /\ next \in Nat
      /\ next < Len(All) /\ todo = From(All, next + 1) /\ <<next, Move(next)>> \in examined
      /\ \A i \in Nat : i < next => <<i, Move(i)>> \in examined
      /\ examined \subseteq {<<i, Move(i)>> : i \in 0 .. Len(All) - 1}
      /\ request \in Requests
  BY DEF WalkInv
<1>2. Len(All) \in Nat
  BY <1>1, IteratesType
<1>3. /\ All' = All /\ IteratesTrades' = IteratesTrades /\ NoTrial' = NoTrial
      /\ \A i : Move(i)' = Move(i)
  BY SameSpace
<1>4. \A i \in Nat : i < next + 1 => i < next \/ i = next
  BY <1>1
<1>5. /\ examined' \subseteq {<<i, Move(i)'>> : i \in 0 .. Len(All') - 1}
      /\ \A i \in Nat : i < next' => <<i, Move(i)'>> \in examined'
  BY <1>1, <1>3, <1>4
<1>6. next' \in Nat /\ next' <= Len(All)
  BY <1>1, <1>2
<1> QED
  BY <1>1, <1>3, <1>5, <1>6 DEF WalkInv

LEMMA AdjustWalks ==
    ASSUME WalkInv, TrialInv, Adjust
    PROVE  WalkInv'
<1>1. /\ phase = "running" /\ trial # NoTrial /\ UNCHANGED <<request, total, todo, examined>>
      /\ request \in Requests
  BY DEF Adjust, WalkInv
<1>2. /\ IteratesTrades /\ next \in Nat /\ next < Len(All) /\ trial.candidate = All[next + 1]
      /\ todo = From(All, next + 1) /\ <<next, Move(next)>> \in examined
  BY <1>1 DEF WalkInv
<1>3. Len(trial.done) + 1 \in 1 .. Len(request.rosters)
  <2>1. trial.done \in Seq(Range(trial.done)) /\ Len(trial.done) < Len(request.rosters)
    BY DEF TrialInv, TrialType, Adjust
  <2>2. Len(trial.done) \in Nat /\ Len(request.rosters) \in Nat
    BY <1>1, <2>1, RequestType
  <2> QED
    BY <2>1, <2>2
<1>4. next + 1 \in DOMAIN All
  BY <1>2, IteratesType
<1>5. IsAdmitted(trial.candidate, Turn(Len(trial.done) + 1))
  BY <1>1, <1>2, <1>3, <1>4, IteratesType, TurnsAreTeams
<1>6. CASE Succeeds
  <2>1. /\ trial'.candidate = trial.candidate /\ trial' # NoTrial
        /\ verdict' = verdict /\ next' = next /\ phase' = "running"
    BY <1>6 DEF Succeeds, NoTrial
  <2> QED
    BY <1>1, <1>2, <2>1, StandsStill
<1>7. CASE RefusedForWaivers
  BY <1>1, <1>7, StepsOn DEF RefusedForWaivers
<1> QED
  BY <1>5, <1>6, <1>7, AdmittedOutcome

LEMMA ConcludeWalks ==
    ASSUME WalkInv, TrialInv, NobodyIsTakenTwice, Conclude
    PROVE  WalkInv'
<1>1. /\ phase = "running" /\ trial' = NoTrial /\ next' = next + 1
      /\ verdict' = "adjusted" /\ phase' = "running"
      /\ UNCHANGED <<request, total, todo, examined>>
  BY DEF Conclude, NobodyIsTakenTwice
<1>2. trial # NoTrial
  <2>1. Len(trial.done) \in {2, 3}
    BY RequestType DEF Conclude, TrialInv
  <2> QED
    BY <2>1, NothingDone
<1> QED
  BY <1>1, <1>2, StepsOn

LEMMA WalkInvNext ==
    ASSUME WalkInv, TrialInv, NobodyIsTakenTwice, [Next]_vars, SpaceIsExact'
    PROVE  WalkInv'
<1>1. CASE UNCHANGED vars
  <2>1. /\ UNCHANGED <<request, phase, total, todo, next, trial, verdict, examined, stops>>
    BY <1>1 DEF vars
  <2>2. /\ All' = All /\ IteratesTrades' = IteratesTrades /\ NoTrial' = NoTrial
        /\ \A i : Move(i)' = Move(i)
    BY <2>1, SameSpace
  <2> QED
    BY <2>1, <2>2 DEF WalkInv
<1>2. CASE Next
  BY <1>2, CountWalks, OpenWalks, TakeWalks, AdjustWalks, ConcludeWalks, StopWalks, FinishWalks DEF Next
<1> QED
  BY <1>1, <1>2

(* The invariant of the walk holds always, because the space is exact. *)
LEMMA WalkInvAlways == Spec => []WalkInv
<1>1. WalkInv /\ TrialInv /\ NobodyIsTakenTwice /\ [Next]_vars /\ SpaceIsExact' => WalkInv'
  BY WalkInvNext
<1> QED
  BY <1>1, WalkInvInit, TrialInvAlways, NobodyIsOnTwoRosters, SpacesAreExact, PTL DEF Spec

(* The count shown before a search, or before it is resumed, is the number of its trades. *)
THEOREM CountsTheTrades == Spec => []CountIsExact
<1>1. WalkInv => CountIsExact
  <2> SUFFICES ASSUME WalkInv, phase = "ready"
               PROVE  total = Cardinality(Trades)
    BY DEF CountIsExact
  <2> DEFINE f == [i \in DOMAIN All |-> MoveOf(All[i])]
  <2>1. IteratesTrades /\ total = Len(All)
    BY DEF WalkInv
  <2>2. /\ All \in Seq(Range(All)) /\ Len(All) \in Nat
        /\ {MoveOf(All[i]) : i \in DOMAIN All} = Trades
        /\ \A i, j \in DOMAIN All : MoveOf(All[i]) = MoveOf(All[j]) => i = j
    BY <2>1, IteratesType
  <2>3. DOMAIN All = 1 .. Len(All)
    BY <2>2
  <2>4. IsFiniteSet(1 .. Len(All)) /\ Cardinality(1 .. Len(All)) = Len(All)
    <3>1. \A n \in Nat : IsFiniteSet(1 .. n) /\ Cardinality(1 .. n) = n
      BY FS_Interval
    <3> QED
      BY <2>2, <3>1
  <2>5. IsInjective(f) /\ DOMAIN f = DOMAIN All /\ At(f, DOMAIN All) = Trades
    BY <2>2 DEF IsInjective, At
  <2> HIDE DEF f
  <2>6. Cardinality(At(f, DOMAIN All)) = Cardinality(DOMAIN All)
    BY <2>3, <2>4, <2>5, Distinct
  <2> QED
    BY <2>1, <2>3, <2>4, <2>5, <2>6
<1> QED
  BY <1>1, WalkInvAlways, PTL

(* Whatever checkpoint a search resumes from, an index is always the same candidate, *)
(* and no two indexes are: no trade is stored twice under two indexes.               *)
THEOREM IndexesStay == Spec => []IndexesAreStable
<1>1. WalkInv => IndexesAreStable
  <2> SUFFICES ASSUME WalkInv
               PROVE  /\ Cardinality({x[1] : x \in examined}) = Cardinality(examined)
                      /\ Cardinality({x[2] : x \in examined}) = Cardinality(examined)
    BY DEF IndexesAreStable
  <2> DEFINE index == [x \in examined |-> x[1]]
             move == [x \in examined |-> x[2]]
  <2>1. /\ IsFiniteSet(examined)
        /\ \A x, y \in examined : x[1] = y[1] \/ x[2] = y[2] => x = y
    <3>1. CASE phase = "new"
      <4>1. examined = {}
        BY <3>1 DEF WalkInv
      <4> QED
        BY <4>1, FS_EmptySet
    <3>2. CASE phase # "new"
      <4> DEFINE graph == [i \in 0 .. Len(All) - 1 |-> <<i, Move(i)>>]
      <4>1. /\ IteratesTrades /\ examined \subseteq {<<i, Move(i)>> : i \in 0 .. Len(All) - 1}
        BY <3>2 DEF WalkInv
      <4>2. /\ DOMAIN All = 1 .. Len(All) /\ Len(All) \in Nat
            /\ \A i, j \in DOMAIN All : MoveOf(All[i]) = MoveOf(All[j]) => i = j
        BY <4>1, IteratesType
      <4>3. \A i, j \in 0 .. Len(All) - 1 : Move(i) = Move(j) => i = j
        <5>1. \A i \in 0 .. Len(All) - 1 : i + 1 \in DOMAIN All
          BY <4>2
        <5>2. ASSUME NEW i \in 0 .. Len(All) - 1, NEW j \in 0 .. Len(All) - 1, Move(i) = Move(j)
              PROVE  i = j
          <6>1. i + 1 = j + 1
            BY <4>2, <5>1, <5>2 DEF Move
          <6> QED
            BY <4>2, <6>1
        <5> QED
          BY <5>2
      <4>4. \A x \in examined : \E i \in 0 .. Len(All) - 1 : x = <<i, Move(i)>>
        BY <4>1
      <4>5. \A x, y \in examined : x[1] = y[1] \/ x[2] = y[2] => x = y
        BY <4>3, <4>4
      <4>6. IsFiniteSet(0 .. Len(All) - 1)
        BY <4>2, FS_Interval
      <4>7. graph \in Surjection(0 .. Len(All) - 1, At(graph, 0 .. Len(All) - 1))
        BY DEF Surjection, At
      <4>8. IsFiniteSet(At(graph, 0 .. Len(All) - 1))
        BY <4>6, <4>7, FS_Surjection
      <4>9. examined \in SUBSET At(graph, 0 .. Len(All) - 1)
        BY <4>1 DEF At
      <4> QED
        BY <4>5, <4>8, <4>9, FS_Subset
    <3> QED
      BY <3>1, <3>2
  <2>2. /\ IsInjective(index) /\ DOMAIN index = examined
        /\ IsInjective(move) /\ DOMAIN move = examined
    BY <2>1 DEF IsInjective
  <2>3. At(index, examined) = {x[1] : x \in examined} /\ At(move, examined) = {x[2] : x \in examined}
    BY DEF At
  <2> HIDE DEF index, move
  <2>4. /\ Cardinality(At(index, examined)) = Cardinality(examined)
        /\ Cardinality(At(move, examined)) = Cardinality(examined)
    BY <2>1, <2>2, Distinct
  <2> QED
    BY <2>3, <2>4
<1> QED
  BY <1>1, WalkInvAlways, PTL

(* A search that ends has examined every trade, however often it was stopped and *)
(* whatever checkpoints it was resumed from.                                     *)
THEOREM CompletesWithEveryTrade == Spec => []CompleteIsEveryTrade
<1>1. WalkInv => CompleteIsEveryTrade
  <2> SUFFICES ASSUME WalkInv, phase = "complete"
               PROVE  {x[2] : x \in examined} = Trades
    BY DEF CompleteIsEveryTrade
  <2>1. /\ IteratesTrades /\ next = Len(All)
        /\ \A i \in Nat : i < next => <<i, Move(i)>> \in examined
        /\ examined \subseteq {<<i, Move(i)>> : i \in 0 .. Len(All) - 1}
    BY DEF WalkInv
  <2>2. /\ DOMAIN All = 1 .. Len(All) /\ Len(All) \in Nat
        /\ {MoveOf(All[i]) : i \in DOMAIN All} = Trades
    BY <2>1, IteratesType
  <2>3. {x[2] : x \in examined} = {Move(i) : i \in 0 .. Len(All) - 1}
    <3>1. \A i \in 0 .. Len(All) - 1 : <<i, Move(i)>> \in examined
      BY <2>1, <2>2
    <3>2. \A x \in examined : \E i \in 0 .. Len(All) - 1 : x = <<i, Move(i)>>
      BY <2>1
    <3>3. ASSUME NEW i \in 0 .. Len(All) - 1
          PROVE  Move(i) \in {x[2] : x \in examined}
      <4>1. <<i, Move(i)>>[2] = Move(i)
        OBVIOUS
      <4> QED
        BY <3>1, <4>1
    <3>4. ASSUME NEW x \in examined
          PROVE  x[2] \in {Move(i) : i \in 0 .. Len(All) - 1}
      <4>1. PICK i \in 0 .. Len(All) - 1 : x = <<i, Move(i)>>
        BY <3>2
      <4>2. x[2] = Move(i)
        BY <4>1
      <4> QED
        BY <4>2
    <3> QED
      BY <3>3, <3>4
  <2>4. {Move(i) : i \in 0 .. Len(All) - 1} = {MoveOf(All[i]) : i \in DOMAIN All}
    <3>1. \A i \in 0 .. Len(All) - 1 : i + 1 \in DOMAIN All
      BY <2>2
    <3>2. \A i \in DOMAIN All : i - 1 \in 0 .. Len(All) - 1 /\ (i - 1) + 1 = i
      BY <2>2
    <3> QED
      BY <3>1, <3>2 DEF Move
  <2> QED
    BY <2>2, <2>3, <2>4
<1> QED
  BY <1>1, WalkInvAlways, PTL

(* No candidate is refused but for the waiver pool, and no search ends with an error. *)
THEOREM SearchesRefuseForWaiversOnly == Spec => []OnlyWaiversRefuse
<1>1. WalkInv => OnlyWaiversRefuse
  BY DEF WalkInv, OnlyWaiversRefuse
<1> QED
  BY <1>1, WalkInvAlways, PTL
=============================================================================

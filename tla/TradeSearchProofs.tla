-------------------------- MODULE TradeSearchProofs --------------------------
(***************************************************************************)
(* The resumable search, for any processes, stores, candidates, interval   *)
(* and batch limit: IInv is inductive, a store holds exactly the           *)
(* qualifying candidates before its checkpoint, the closing assertions     *)
(* never fail, outcomes are snapshots, stores only grow and the reported   *)
(* progress of a job never retreats.                                       *)
(***************************************************************************)
EXTENDS TradeSearch, FiniteSetTheorems, TLAPS

USE NobodyAssumption

-----------------------------------------------------------------------------
(* The qualifying candidates before an index.                              *)

LEMMA StoreConstants ==
  ASSUME NEW d \in Databases
  PROVE  /\ Total[d] \in Nat
         /\ Qualified[d] \subseteq 0 .. Total[d] - 1
         /\ Gains[d] \subseteq Qualified[d]
  BY CandidateAssumption

LEMMA BelowIsFinite ==
  ASSUME NEW d \in Databases, NEW n \in Nat
  PROVE  /\ Below(d, n) \in SUBSET Nat
         /\ IsFiniteSet(Below(d, n))
         /\ IsFiniteSet(Below(d, n) \cap Gains[d])
         /\ Cardinality(Below(d, n)) \in Nat
         /\ Cardinality(Below(d, n) \cap Gains[d]) \in Nat
  <1>1. Below(d, n) \subseteq 0 .. Total[d] - 1
    BY StoreConstants DEF Below
  <1>2. IsFiniteSet(0 .. Total[d] - 1)
    BY StoreConstants, FS_Interval
  <1>3. IsFiniteSet(Below(d, n))
    BY <1>1, <1>2, FS_Subset
  <1>4. IsFiniteSet(Below(d, n) \cap Gains[d])
    BY <1>3, FS_Subset
  <1>5. Below(d, n) \in SUBSET Nat
    BY <1>1, StoreConstants
  <1> QED BY <1>3, <1>4, <1>5, FS_CardinalityType

LEMMA NothingBelowZero ==
  ASSUME NEW d \in Databases
  PROVE  Below(d, 0) = {}
  BY StoreConstants DEF Below

\* Adding what one index contributes to a finite set that lacks it.
LEMMA AddAtMostOne ==
  ASSUME NEW S, IsFiniteSet(S), NEW i, i \notin S, NEW Q
  PROVE  Cardinality(S \cup ({i} \cap Q)) = Cardinality(S) + Cardinality({i} \cap Q)
  <1>1. Cardinality(S) \in Nat
    BY FS_CardinalityType
  <1>2. CASE i \in Q
    <2>1. {i} \cap Q = {i}
      BY <1>2
    <2>2. Cardinality({i}) = 1
      BY FS_Singleton
    <2>3. Cardinality(S \cup {i}) = Cardinality(S) + 1
      BY FS_AddElement
    <2> QED BY <2>1, <2>2, <2>3
  <1>3. CASE i \notin Q
    <2>1. {i} \cap Q = {} /\ S \cup ({i} \cap Q) = S
      BY <1>3
    <2>2. Cardinality({i} \cap Q) = 0
      BY <2>1, FS_EmptySet
    <2>3. Cardinality(S \cup ({i} \cap Q)) = Cardinality(S)
      BY <2>1
    <2> QED BY <2>2, <2>3, <1>1
  <1> QED BY <1>2, <1>3

\* Evaluating the candidate i extends what lies before i by what i contributes.
LEMMA BelowNext ==
  ASSUME NEW d \in Databases, NEW i \in Nat
  PROVE  /\ Below(d, i + 1) = Below(d, i) \cup ({i} \cap Qualified[d])
         /\ Cardinality(Below(d, i + 1)) = Cardinality(Below(d, i)) + Cardinality({i} \cap Qualified[d])
         /\ Cardinality(Below(d, i + 1) \cap Gains[d]) =
              Cardinality(Below(d, i) \cap Gains[d])
                + Cardinality(({i} \cap Qualified[d]) \cap Gains[d])
  <1> DEFINE found == {i} \cap Qualified[d]
  <1>1. Below(d, i + 1) = Below(d, i) \cup found
    BY StoreConstants DEF Below
  <1>2. i \notin Below(d, i)
    BY DEF Below
  <1>3. \A S, Q : IsFiniteSet(S) /\ i \notin S =>
          Cardinality(S \cup ({i} \cap Q)) = Cardinality(S) + Cardinality({i} \cap Q)
    <2> SUFFICES ASSUME NEW S, NEW Q, IsFiniteSet(S), i \notin S
                 PROVE  Cardinality(S \cup ({i} \cap Q)) = Cardinality(S) + Cardinality({i} \cap Q)
      OBVIOUS
    <2> QED BY AddAtMostOne
  <1>4. Cardinality(Below(d, i) \cup found) = Cardinality(Below(d, i)) + Cardinality(found)
    BY <1>2, <1>3, BelowIsFinite, Zenon
  <1>5. Cardinality((Below(d, i) \cap Gains[d]) \cup ({i} \cap (Qualified[d] \cap Gains[d])))
          = Cardinality(Below(d, i) \cap Gains[d]) + Cardinality({i} \cap (Qualified[d] \cap Gains[d]))
    <2>1. i \notin Below(d, i) \cap Gains[d]
      BY <1>2
    <2>2. IsFiniteSet(Below(d, i) \cap Gains[d])
      BY BelowIsFinite
    <2> QED BY <1>3, <2>1, <2>2, Zenon
  <1>6. \A B, Q, G : /\ (B \cup ({i} \cap Q)) \cap G = (B \cap G) \cup ({i} \cap (Q \cap G))
                    /\ ({i} \cap Q) \cap G = {i} \cap (Q \cap G)
    BY Zenon
  <1>7. /\ (Below(d, i) \cup found) \cap Gains[d]
             = (Below(d, i) \cap Gains[d]) \cup ({i} \cap (Qualified[d] \cap Gains[d]))
        /\ found \cap Gains[d] = {i} \cap (Qualified[d] \cap Gains[d])
    BY <1>6, Zenon
  <1> QED BY <1>1, <1>4, <1>5, <1>7

-----------------------------------------------------------------------------
(* The jobs and their stores.                                              *)

LEMMA AtAStore ==
  ASSUME IInv, NEW p \in Processes, pc[p] \in Active
  PROVE  /\ Db(p) \in Databases
         /\ plan[p] \in Requests
         /\ at[p] \in 1 .. Len(plan[p])
         /\ Len(plan[p]) \in Nat
  <1>1. plan[p] \in Requests /\ at[p] \in 1 .. Len(plan[p])
    BY DEF IInv, TypeOK
  <1>2. plan[p] \in Seq(Databases)
    BY <1>1, RequestAssumption
  <1> QED BY <1>1, <1>2 DEF Db

\* No two jobs have the same store open.
LEMMA OneJobPerStore ==
  ASSUME IInv, NEW p \in Processes, NEW q \in Processes,
         pc[p] \in Opening \cup Searching, pc[q] \in Opening \cup Searching, Db(p) = Db(q)
  PROVE  p = q
  <1>1. Db(p) \in Databases
    BY AtAStore DEF Active
  <1> QED BY <1>1 DEF IInv, LockMatchesJob

LEMMA InitIInv == Init => IInv
  <1> SUFFICES ASSUME Init PROVE IInv
    OBVIOUS
  <1>1. \A d \in Databases : checkpoint[d] \in Nat /\ checkpoint[d] <= Total[d]
    <2>1. UNION {0 .. Total[d] : d \in Databases} \subseteq Nat
      BY CandidateAssumption
    <2>2. \A d \in Databases : checkpoint[d] \in Nat
      BY <2>1 DEF Init
    <2> QED BY <2>2, CandidateAssumption DEF Init
  <1>2. checkpoint \in [Databases -> Nat]
    BY <1>1 DEF Init
  <1>3. TypeOK
    <2>1. rows \in [Databases -> SUBSET Nat]
      BY <1>1, BelowIsFinite DEF Init
    <2>2. loop \in [Processes -> [next : Nat, pending : SUBSET Nat, qualified : Nat,
                             gains : Nat, cancelled : BOOLEAN]]
      BY DEF Init, NotSearching
    <2>3. before \in [Processes -> [examined : Nat, qualified : Nat, gains : Nat]]
      BY DEF Init, NothingBefore
    <2>4. stage \in [Databases -> Stages]
      BY DEF Init, Stages
    <2> QED BY <1>2, <2>1, <2>2, <2>3, <2>4 DEF Init, TypeOK, Ended, Active, Opening, Searching
  <1>4. LockMatchesJob
    BY DEF Init, LockMatchesJob, Opening, Searching
  <1>5. SchemaMatchesJob
    <2>1. \A d \in Databases : stage[d] = "empty" => checkpoint[d] = 0
      <3> SUFFICES ASSUME NEW d \in Databases, stage[d] = "empty" PROVE checkpoint[d] = 0
        OBVIOUS
      <3>1. checkpoint[d] <= 0
        BY DEF Init
      <3> QED BY <3>1, <1>1
    <2> QED BY <2>1 DEF Init, SchemaMatchesJob, Searching
  <1>6. StoreHoldsTheQualified
    BY <1>1 DEF Init, StoreHoldsTheQualified
  <1> QED BY <1>3, <1>4, <1>5, <1>6 DEF Init, IInv, CountsReconcile, Searching
-----------------------------------------------------------------------------
(* The steps.                                                              *)

\* What holds of a loop does not depend on anything but its job's fields and
\* its store.
LEMMA LoopFrame ==
  ASSUME NEW q \in Processes, LoopInv(q),
         pc'[q] = pc[q], plan'[q] = plan[q], at'[q] = at[q], loop'[q] = loop[q],
         checkpoint'[Db(q)] = checkpoint[Db(q)], rows'[Db(q)] = rows[Db(q)]
  PROVE  LoopInv(q)' /\ Db(q)' = Db(q)
  <1>1. Db(q)' = Db(q)
    BY DEF Db
  <1> QED BY <1>1 DEF LoopInv, Below

\* A step that leaves the disk alone and after which p has no store open.
LEMMA LeaveFrame ==
  ASSUME IInv, NEW p \in Processes, NEW out \in (Ended \cup {"open"}) \ {"inconsistent"},
         Leave(p, out), UNCHANGED disk,
         \A q \in Processes \ {p} : plan'[q] = plan[q] /\ at'[q] = at[q]
  PROVE  /\ pc' \in [Processes -> Ended \cup Active]
         /\ writer' \in [Databases -> Processes \cup {Nobody}]
         /\ loop' \in [Processes -> [next : Nat, pending : SUBSET Nat, qualified : Nat,
                                     gains : Nat, cancelled : BOOLEAN]]
         /\ pc'[p] = out /\ \A q \in Processes \ {p} : pc'[q] = pc[q]
         /\ LockMatchesJob'
         /\ SchemaMatchesJob'
         /\ StoreHoldsTheQualified'
         /\ \A q \in Processes : pc'[q] \in Searching => LoopInv(q)'
         /\ CountsReconcile'
  <1> USE DEF Leave, disk
  <1>1. pc' \in [Processes -> Ended \cup Active] /\ pc'[p] = out
        /\ \A q \in Processes \ {p} : pc'[q] = pc[q]
    BY DEF IInv, TypeOK, Active
  <1>2. writer' \in [Databases -> Processes \cup {Nobody}]
    BY DEF IInv, TypeOK
  <1>3. loop' \in [Processes -> [next : Nat, pending : SUBSET Nat, qualified : Nat,
                                 gains : Nat, cancelled : BOOLEAN]]
    BY DEF IInv, TypeOK, NotSearching
  <1>4. \A q \in Processes \ {p} : Db(q)' = Db(q)
    BY DEF Db
  <1>5. out \notin Opening \cup Searching
    BY DEF Ended, Opening, Searching
  <1>6. LockMatchesJob'
    <2> SUFFICES ASSUME NEW d \in Databases, NEW q \in Processes
                 PROVE  writer'[d] = q <=> pc'[q] \in Opening \cup Searching /\ d = Db(q)'
      BY DEF LockMatchesJob
    <2>1. writer[d] = q <=> pc[q] \in Opening \cup Searching /\ d = Db(q)
      BY DEF IInv, LockMatchesJob
    <2>2. writer'[d] = IF writer[d] = p THEN Nobody ELSE writer[d]
      OBVIOUS
    <2>3. CASE q = p
      BY <1>1, <1>5, <2>2, <2>3
    <2>4. CASE q # p
      BY <1>1, <1>4, <2>1, <2>2, <2>4
    <2> QED BY <2>3, <2>4
  <1>7. SchemaMatchesJob'
    BY <1>1, <1>4, <1>5 DEF IInv, SchemaMatchesJob, Opening
  <1>8. StoreHoldsTheQualified'
    BY DEF IInv, StoreHoldsTheQualified, Below
  <1>9. \A q \in Processes : pc'[q] \in Searching => LoopInv(q)'
    <2> SUFFICES ASSUME NEW q \in Processes, pc'[q] \in Searching PROVE LoopInv(q)'
      OBVIOUS
    <2>1. q # p
      BY <1>1, <1>5
    <2>2. LoopInv(q) /\ pc'[q] = pc[q]
      BY <1>1, <2>1 DEF IInv
    <2>3. loop'[q] = loop[q]
      BY <2>1 DEF IInv, TypeOK
    <2> QED BY <2>1, <2>2, <2>3, LoopFrame
  <1>10. CountsReconcile'
    BY <1>1 DEF IInv, CountsReconcile
  <1> QED BY <1>1, <1>2, <1>3, <1>6, <1>7, <1>8, <1>9, <1>10

\* Outcomes stay what they are while their store only grows.
LEMMA ViewFrame ==
  ASSUME IInv, NEW v, NEW p \in Processes, v \in views[p], checkpoint' \in [Databases -> Nat],
         \A d \in Databases : checkpoint[d] <= checkpoint'[d]
  PROVE  ViewInv(v)'
  <1>1. v.db \in Databases /\ v.maximum \in Nat
    BY DEF IInv, TypeOK
  <1>2. ViewInv(v)
    BY DEF IInv
  <1>3. checkpoint[v.db] \in Nat /\ checkpoint'[v.db] \in Nat
    BY <1>1 DEF IInv, TypeOK
  <1> QED BY <1>1, <1>2, <1>3 DEF ViewInv, Below

LEMMA StartKeeps ==
  ASSUME IInv, NEW p \in Processes, NEW q \in Requests, Start(p, q)
  PROVE  IInv'
  <1> USE DEF Start, disk
  <1>1. \A r \in Processes \ {p} : pc'[r] = pc[r] /\ Db(r)' = Db(r)
    BY DEF IInv, TypeOK, Db
  <1>2. pc'[p] = "prepare"
    BY DEF IInv, TypeOK
  <1>3. TypeOK'
    <2>1. Len(q) \in Nat /\ Len(q) > 0
      BY RequestAssumption
    <2>2. 1 \in 1 .. Len(q)
      BY <2>1
    <2>3. \A r \in Processes : pc'[r] \in Active => plan'[r] \in Requests /\ at'[r] \in 1 .. Len(plan'[r])
      BY <2>2 DEF IInv, TypeOK
    <2>4. /\ pc' \in [Processes -> Ended \cup Active]
          /\ plan' \in [Processes -> Requests \cup {<<>>}]
          /\ at' \in [Processes -> Nat]
          /\ cancel' \in [Processes -> BOOLEAN]
          /\ before' \in [Processes -> [examined : Nat, qualified : Nat, gains : Nat]]
          /\ reported' \in [Processes -> Nat]
          /\ starts' \in Nat
      BY DEF IInv, TypeOK, Active, NothingBefore
    <2> QED BY <2>3, <2>4 DEF IInv, TypeOK
  <1>4. pc[p] \notin Opening \cup Searching /\ pc'[p] \notin Opening \cup Searching
    BY <1>2 DEF Ended, Opening, Searching
  <1>5. LockMatchesJob'
    BY <1>1, <1>4 DEF IInv, LockMatchesJob
  <1>6. SchemaMatchesJob'
    BY <1>1, <1>2 DEF IInv, SchemaMatchesJob, Searching
  <1>7. \A r \in Processes : pc'[r] \in Searching => LoopInv(r)'
    <2> SUFFICES ASSUME NEW r \in Processes, pc'[r] \in Searching PROVE LoopInv(r)'
      OBVIOUS
    <2>1. r # p /\ LoopInv(r)
      BY <1>1, <1>4 DEF IInv
    <2>2. plan'[r] = plan[r] /\ at'[r] = at[r]
      BY <2>1 DEF IInv, TypeOK
    <2> QED BY <1>1, <2>1, <2>2, LoopFrame
  <1>8. \A r \in Processes : \A v \in views'[r] : ViewInv(v)'
    BY DEF IInv, ViewInv, Below
  <1> QED BY <1>1, <1>2, <1>3, <1>5, <1>6, <1>7, <1>8
         DEF IInv, StoreHoldsTheQualified, Below, CountsReconcile

\* The steps that end the job, other than Verify.
LEMMA EndKeeps ==
  ASSUME IInv, NEW p \in Processes, Fail(p) \/ Crash(p) \/ Refused(p)
  PROVE  IInv'
  <1> USE DEF Fail, Crash, Refused, job, disk
  <1>1. PICK out \in {"failed", "idle"} : Leave(p, out)
    OBVIOUS
  <1>2. out \in (Ended \cup {"open"}) \ {"inconsistent"} /\ out \notin Active
    BY DEF Ended, Active, Opening, Searching
  <1>3. UNCHANGED <<plan, at>>
    OBVIOUS
  <1>4. \A q \in Processes : views'[q] \subseteq views[q]
    BY DEF IInv, TypeOK
  <1>5. /\ pc' \in [Processes -> Ended \cup Active]
        /\ writer' \in [Databases -> Processes \cup {Nobody}]
        /\ loop' \in [Processes -> [next : Nat, pending : SUBSET Nat, qualified : Nat,
                                    gains : Nat, cancelled : BOOLEAN]]
        /\ pc'[p] = out /\ \A q \in Processes \ {p} : pc'[q] = pc[q]
        /\ LockMatchesJob' /\ SchemaMatchesJob' /\ StoreHoldsTheQualified' /\ CountsReconcile'
        /\ \A q \in Processes : pc'[q] \in Searching => LoopInv(q)'
    BY <1>1, <1>2, <1>3, LeaveFrame
  <1>6. TypeOK'
    <2>1. /\ cancel' \in [Processes -> BOOLEAN]
          /\ before' \in [Processes -> [examined : Nat, qualified : Nat, gains : Nat]]
          /\ reported' \in [Processes -> Nat]
      <3>1. CASE UNCHANGED <<cancel, before, reported>>
        BY <3>1 DEF IInv, TypeOK
      <3>2. CASE Crash(p)
        <4>1. NothingBefore \in [examined : Nat, qualified : Nat, gains : Nat]
          BY DEF NothingBefore
        <4> QED BY <3>2, <4>1 DEF IInv, TypeOK
      <3> QED BY <3>1, <3>2
    <2>2. views' \in [Processes -> SUBSET [db : Databases, maximum : Nat, count : Nat, shown : SUBSET Nat]]
      BY DEF IInv, TypeOK
    <2> QED BY <1>2, <1>3, <1>5, <2>1, <2>2 DEF IInv, TypeOK
  <1>7. \A q \in Processes : \A v \in views'[q] : ViewInv(v)'
    BY <1>4 DEF IInv, ViewInv, Below
  <1> QED BY <1>5, <1>6, <1>7 DEF IInv

LEMMA RequestCancelKeeps ==
  ASSUME IInv, NEW p \in Processes, RequestCancel(p)
  PROVE  IInv'
  <1> USE DEF RequestCancel, disk
  <1>1. \A q \in Processes : Db(q)' = Db(q)
    BY DEF Db
  <1>2. TypeOK'
    BY DEF IInv, TypeOK
  <1>3. LockMatchesJob' /\ SchemaMatchesJob'
    BY <1>1 DEF IInv, LockMatchesJob, SchemaMatchesJob
  <1>4. \A q \in Processes : pc'[q] \in Searching => LoopInv(q)'
    BY LoopFrame DEF IInv
  <1>5. \A q \in Processes : \A v \in views'[q] : ViewInv(v)'
    BY DEF IInv, ViewInv, Below
  <1> QED BY <1>2, <1>3, <1>4, <1>5 DEF IInv, StoreHoldsTheQualified, Below, CountsReconcile

\* A cancel before the search is a way to end; otherwise only pc changes.
LEMMA PrepareKeeps ==
  ASSUME IInv, NEW p \in Processes, Prepare(p)
  PROVE  IInv'
  <1> USE DEF Prepare, job, disk
  <1>1. \A q \in Processes : \A v \in views'[q] : ViewInv(v)'
    BY DEF IInv, ViewInv, Below
  <1>2. CASE cancel[p]
    <2>1. "cancelled" \in (Ended \cup {"open"}) \ {"inconsistent"} /\ "cancelled" \notin Active
      BY DEF Ended, Active, Opening, Searching
    <2>2. /\ pc' \in [Processes -> Ended \cup Active]
          /\ writer' \in [Databases -> Processes \cup {Nobody}]
          /\ loop' \in [Processes -> [next : Nat, pending : SUBSET Nat, qualified : Nat,
                                      gains : Nat, cancelled : BOOLEAN]]
          /\ pc'[p] = "cancelled" /\ \A q \in Processes \ {p} : pc'[q] = pc[q]
          /\ LockMatchesJob' /\ SchemaMatchesJob' /\ StoreHoldsTheQualified' /\ CountsReconcile'
          /\ \A q \in Processes : pc'[q] \in Searching => LoopInv(q)'
      BY <1>2, <2>1, LeaveFrame
    <2>3. TypeOK'
      BY <2>1, <2>2 DEF IInv, TypeOK
    <2> QED BY <1>1, <2>2, <2>3 DEF IInv
  <1>3. CASE ~cancel[p]
    <2>1. /\ pc[p] = "prepare" /\ pc'[p] = "open"
          /\ \A q \in Processes \ {p} : pc'[q] = pc[q]
          /\ \A q \in Processes : Db(q)' = Db(q)
      BY <1>3 DEF IInv, TypeOK, Db
    <2>2. TypeOK'
      BY <1>3 DEF IInv, TypeOK, Active
    <2>3. LockMatchesJob'
      BY <1>3, <2>1 DEF IInv, LockMatchesJob, Opening, Searching
    <2>4. SchemaMatchesJob'
      BY <2>1 DEF IInv, SchemaMatchesJob, Searching
    <2>5. \A q \in Processes : pc'[q] \in Searching => LoopInv(q)'
      <3> SUFFICES ASSUME NEW q \in Processes, pc'[q] \in Searching PROVE LoopInv(q)'
        OBVIOUS
      <3>1. q # p
        BY <2>1 DEF Searching
      <3> QED BY <1>3, <2>1, <3>1, LoopFrame DEF IInv
    <2> QED BY <1>1, <2>1, <2>2, <2>3, <2>4, <2>5
            DEF IInv, StoreHoldsTheQualified, Below, CountsReconcile
  <1> QED BY <1>2, <1>3

-----------------------------------------------------------------------------
(* The steps with a store open.                                            *)

\* What a step of p that changes no other job and no other store preserves.
LEMMA OthersKeep ==
  ASSUME IInv, NEW p \in Processes, pc[p] \in Opening \cup Searching,
         UNCHANGED <<plan, at>>,
         \A q \in Processes \ {p} : pc'[q] = pc[q] /\ loop'[q] = loop[q],
         \A d \in Databases \ {Db(p)} :
           stage'[d] = stage[d] /\ checkpoint'[d] = checkpoint[d] /\ rows'[d] = rows[d]
  PROVE  /\ \A q \in Processes : Db(q)' = Db(q)
         /\ \A q \in Processes \ {p} :
              /\ pc'[q] \in Opening \cup Searching =>
                   Db(q) \in Databases \ {Db(p)} /\ stage'[Db(q)] = stage[Db(q)]
              /\ pc'[q] \in Searching => LoopInv(q)'
  <1>1. \A q \in Processes : Db(q)' = Db(q)
    BY DEF Db
  <1>2. ASSUME NEW q \in Processes \ {p}, pc'[q] \in Opening \cup Searching
        PROVE  Db(q) \in Databases \ {Db(p)}
    BY <1>2, AtAStore, OneJobPerStore DEF Active
  <1>3. ASSUME NEW q \in Processes \ {p}, pc'[q] \in Searching
        PROVE  LoopInv(q)'
    <2>1. Db(q) \in Databases \ {Db(p)}
      BY <1>2, <1>3
    <2>2. LoopInv(q)
      BY <1>3 DEF IInv
    <2> QED BY <2>1, <2>2, LoopFrame
  <1> QED BY <1>1, <1>2, <1>3

\* The lock stays with a job that stays inside its store.
LEMMA LockFrame ==
  ASSUME IInv, NEW p \in Processes, pc[p] \in Opening \cup Searching,
         pc'[p] \in Opening \cup Searching,
         UNCHANGED <<plan, at, writer>>, \A q \in Processes \ {p} : pc'[q] = pc[q]
  PROVE  LockMatchesJob'
  <1>1. \A q \in Processes : Db(q)' = Db(q)
    BY DEF Db
  <1> QED BY <1>1 DEF IInv, LockMatchesJob

LEMMA OpenKeeps ==
  ASSUME IInv, NEW p \in Processes, Open(p)
  PROVE  IInv'
  <1> USE DEF Open, job, disk
  <1>1. Db(p) \in Databases /\ \A q \in Processes : Db(q)' = Db(q)
    BY AtAStore DEF Active, Db
  <1>2. Entry(Db(p)) \in Opening /\ pc[p] = "open" /\ pc'[p] = Entry(Db(p))
    BY DEF Entry, Opening, IInv, TypeOK
  <1>3. \A q \in Processes \ {p} : pc'[q] = pc[q]
    BY DEF IInv, TypeOK
  <1>4. TypeOK'
    <2>1. pc' \in [Processes -> Ended \cup Active]
      BY <1>2 DEF IInv, TypeOK, Active
    <2>2. writer' \in [Databases -> Processes \cup {Nobody}]
      BY DEF IInv, TypeOK
    <2>3. pc[p] \in Active
      BY <1>2 DEF Active
    <2> QED BY <1>3, <2>1, <2>2, <2>3 DEF IInv, TypeOK
  <1>5. LockMatchesJob'
    <2> SUFFICES ASSUME NEW d \in Databases, NEW q \in Processes
                 PROVE  (writer[d] = q <=> pc[q] \in Opening \cup Searching /\ d = Db(q))'
      BY DEF LockMatchesJob
    <2>1. pc[p] \notin Opening \cup Searching /\ pc'[p] \in Opening \cup Searching
      BY <1>2 DEF Opening, Searching
    <2>2. writer[Db(p)] = Nobody /\ writer' = [writer EXCEPT ![Db(p)] = p]
      OBVIOUS
    <2>3. writer'[d] = IF d = Db(p) THEN p ELSE writer[d]
      BY <1>1, <2>2 DEF IInv, TypeOK
    <2>4. writer[d] = q <=> pc[q] \in Opening \cup Searching /\ d = Db(q)
      BY DEF IInv, LockMatchesJob
    <2>5. Db(q)' = Db(q) /\ Nobody \notin Processes
      BY <1>1, NobodyAssumption
    <2>6. CASE q = p
      BY <2>1, <2>3, <2>4, <2>5, <2>6
    <2>7. CASE q # p
      <3>1. pc'[q] = pc[q]
        BY <1>3, <2>7
      <3>2. CASE d = Db(p)
        BY <2>2, <2>3, <2>4, <2>5, <2>7, <3>1, <3>2
      <3>3. CASE d # Db(p)
        BY <2>3, <2>4, <2>5, <3>1, <3>3
      <3> QED BY <3>2, <3>3
    <2> QED BY <2>6, <2>7
  <1>6. SchemaMatchesJob'
    BY <1>1, <1>2, <1>3 DEF IInv, SchemaMatchesJob, Entry, Searching
  <1>7. \A q \in Processes : pc'[q] \in Searching => LoopInv(q)'
    <2> SUFFICES ASSUME NEW q \in Processes, pc'[q] \in Searching PROVE LoopInv(q)'
      OBVIOUS
    <2>1. q # p
      BY <1>2 DEF Opening, Searching
    <2> QED BY <1>3, <2>1, LoopFrame DEF IInv
  <1>8. \A q \in Processes : \A v \in views'[q] : ViewInv(v)'
    BY DEF IInv, ViewInv, Below
  <1>9. CountsReconcile'
    BY <1>2, <1>3 DEF IInv, CountsReconcile, Opening
  <1> QED BY <1>4, <1>5, <1>6, <1>7, <1>8, <1>9 DEF IInv, StoreHoldsTheQualified, Below

LEMMA MigrateKeeps ==
  ASSUME IInv, NEW p \in Processes, Migrate(p)
  PROVE  IInv'
  <1> DEFINE d == Db(p)
  <1> USE DEF Migrate, job
  <1>1. pc[p] \in {"create", "alter"} /\ pc[p] \in Opening /\ d \in Databases
    BY AtAStore DEF Active, Opening
  <1>2. /\ stage'[d] = NextStage(stage[d])
        /\ \A e \in Databases \ {d} : stage'[e] = stage[e]
        /\ \A q \in Processes \ {p} : pc'[q] = pc[q]
    BY <1>1 DEF IInv, TypeOK
  <1>3. \/ stage'[d] = "run_table" /\ stage[d] = "empty" /\ pc'[p] = "create"
        \/ stage'[d] = "both_tables" /\ stage[d] = "run_table" /\ pc'[p] = "create"
        \/ stage'[d] = "versioned" /\ stage[d] = "both_tables" /\ pc'[p] = "bind"
        \/ stage'[d] = "v1_altered" /\ stage[d] = "v1" /\ pc'[p] = "alter"
        \/ stage'[d] = "bound" /\ stage[d] = "v1_altered" /\ pc'[p] = "resume"
    <2>1. pc'[p] = CASE stage'[d] = "versioned" -> "bind"
                     [] stage'[d] = "bound" -> "resume"
                     [] OTHER -> pc[p]
      BY DEF IInv, TypeOK
    <2>2. \/ pc[p] = "create" /\ stage[d] \in {"empty", "run_table", "both_tables"}
          \/ pc[p] = "alter" /\ stage[d] \in {"v1", "v1_altered"}
      BY <1>1 DEF IInv, SchemaMatchesJob
    <2> QED BY <1>2, <2>1, <2>2 DEF NextStage
  <1>4. pc'[p] \in Opening
    BY <1>3 DEF Opening
  <1>5. /\ \A q \in Processes : Db(q)' = Db(q)
        /\ \A q \in Processes \ {p} :
             /\ pc'[q] \in Opening \cup Searching =>
                  Db(q) \in Databases \ {d} /\ stage'[Db(q)] = stage[Db(q)]
             /\ pc'[q] \in Searching => LoopInv(q)'
    BY <1>1, <1>2, OthersKeep
  <1>6. TypeOK'
    <2>1. stage' \in [Databases -> Stages]
      BY <1>2, <1>3 DEF IInv, TypeOK, Stages
    <2>2. pc' \in [Processes -> Ended \cup Active]
      BY <1>4 DEF IInv, TypeOK, Active
    <2>3. \A q \in Processes : pc'[q] \in Active => pc[q] \in Active
      BY <1>1, <1>2 DEF Active
    <2> QED BY <2>1, <2>2, <2>3 DEF IInv, TypeOK
  <1>7. LockMatchesJob'
    BY <1>1, <1>2, <1>4, LockFrame
  <1>8. SchemaMatchesJob'
    <2>1. \A e \in Databases :
            stage'[e] \in {"empty", "run_table", "both_tables", "versioned"} => checkpoint'[e] = 0
      BY <1>2, <1>3 DEF IInv, SchemaMatchesJob
    <2>2. ASSUME NEW q \in Processes
          PROVE  /\ pc'[q] = "create" => stage'[Db(q)] \in {"empty", "run_table", "both_tables"}
                 /\ pc'[q] = "alter" => stage'[Db(q)] \in {"v1", "v1_altered"}
                 /\ pc'[q] = "bind" => stage'[Db(q)] = "versioned"
                 /\ pc'[q] \in {"resume"} \cup Searching => stage'[Db(q)] = "bound"
      <3>1. CASE q = p
        BY <1>3, <3>1 DEF Searching
      <3>2. CASE q # p
        BY <1>2, <1>5, <3>2 DEF IInv, SchemaMatchesJob, Opening
      <3> QED BY <3>1, <3>2
    <2> QED BY <2>1, <2>2, <1>5 DEF SchemaMatchesJob
  <1>9. \A q \in Processes : pc'[q] \in Searching => LoopInv(q)'
    BY <1>4, <1>5 DEF Opening, Searching
  <1>10. \A q \in Processes : \A v \in views'[q] : ViewInv(v)'
    BY DEF IInv, ViewInv, Below
  <1>11. CountsReconcile'
    BY <1>2, <1>4 DEF IInv, CountsReconcile, Opening
  <1> QED BY <1>6, <1>7, <1>8, <1>9, <1>10, <1>11 DEF IInv, StoreHoldsTheQualified, Below

LEMMA BindKeeps ==
  ASSUME IInv, NEW p \in Processes, Bind(p)
  PROVE  IInv'
  <1> DEFINE d == Db(p)
  <1> USE DEF Bind, job
  <1>1. pc[p] \in Opening /\ d \in Databases /\ stage[d] = "versioned" /\ checkpoint[d] = 0
    BY AtAStore DEF Active, Opening, IInv, SchemaMatchesJob
  <1>2. checkpoint' = checkpoint
    BY <1>1 DEF IInv, TypeOK
  <1>3. /\ stage'[d] = "bound"
        /\ \A e \in Databases \ {d} : stage'[e] = stage[e]
        /\ \A q \in Processes \ {p} : pc'[q] = pc[q]
        /\ pc'[p] = "resume" /\ pc'[p] \in Opening
    BY <1>1 DEF IInv, TypeOK, Opening
  <1>4. /\ \A q \in Processes : Db(q)' = Db(q)
        /\ \A q \in Processes \ {p} :
             /\ pc'[q] \in Opening \cup Searching =>
                  Db(q) \in Databases \ {d} /\ stage'[Db(q)] = stage[Db(q)]
             /\ pc'[q] \in Searching => LoopInv(q)'
    BY <1>1, <1>2, <1>3, OthersKeep
  <1>5. TypeOK'
    <2>1. pc' \in [Processes -> Ended \cup Active] /\ pc[p] \in Active
      BY <1>1, <1>3 DEF IInv, TypeOK, Active
    <2> QED BY <1>2, <1>3, <2>1 DEF IInv, TypeOK, Stages
  <1>6. LockMatchesJob'
    BY <1>1, <1>3, LockFrame
  <1>7. SchemaMatchesJob'
    BY <1>2, <1>3, <1>4 DEF IInv, SchemaMatchesJob, Opening
  <1>8. \A q \in Processes : pc'[q] \in Searching => LoopInv(q)'
    BY <1>3, <1>4 DEF Searching
  <1>9. \A q \in Processes : \A v \in views'[q] : ViewInv(v)'
    BY <1>2 DEF IInv, ViewInv, Below
  <1>10. CountsReconcile'
    BY <1>3 DEF IInv, CountsReconcile
  <1> QED BY <1>2, <1>5, <1>6, <1>7, <1>8, <1>9, <1>10 DEF IInv, StoreHoldsTheQualified, Below

\* The check of resume_summary() passes, and the loop starts from the store.
LEMMA ResumeKeeps ==
  ASSUME IInv, NEW p \in Processes, Resume(p)
  PROVE  IInv'
  <1> DEFINE d == Db(p)
  <1> USE DEF Resume, job, disk
  <1>1. pc[p] \in Opening /\ d \in Databases
    BY AtAStore DEF Active, Opening
  <1>2. /\ checkpoint[d] \in Nat /\ checkpoint[d] <= Total[d]
        /\ rows[d] = Below(d, checkpoint[d])
    BY <1>1 DEF IInv, TypeOK, StoreHoldsTheQualified
  <1>3. \A i \in rows[d] : i < checkpoint[d]
    BY <1>2 DEF Below
  <1>4. /\ loop' = [loop EXCEPT ![p] =
             [next |-> checkpoint[d], pending |-> {}, cancelled |-> FALSE,
              qualified |-> Cardinality(rows[d]), gains |-> Cardinality(rows[d] \cap Gains[d])]]
        /\ pc' = [pc EXCEPT ![p] = "search"]
        /\ UNCHANGED writer
    BY <1>3
  <1>5. /\ pc'[p] = "search" /\ pc'[p] \in Searching
        /\ \A q \in Processes \ {p} : pc'[q] = pc[q] /\ loop'[q] = loop[q]
        /\ loop'[p] = [next |-> checkpoint[d], pending |-> {}, cancelled |-> FALSE,
                       qualified |-> Cardinality(rows[d]), gains |-> Cardinality(rows[d] \cap Gains[d])]
    BY <1>4 DEF IInv, TypeOK, Searching
  <1>6. /\ \A q \in Processes : Db(q)' = Db(q)
        /\ \A q \in Processes \ {p} : pc'[q] \in Searching => LoopInv(q)'
    BY <1>1, <1>5, OthersKeep
  <1>7. TypeOK'
    <2>1. Cardinality(rows[d]) \in Nat /\ Cardinality(rows[d] \cap Gains[d]) \in Nat
      BY <1>1, <1>2, BelowIsFinite
    <2>2. loop' \in [Processes -> [next : Nat, pending : SUBSET Nat, qualified : Nat,
                                   gains : Nat, cancelled : BOOLEAN]]
      BY <1>2, <1>4, <2>1 DEF IInv, TypeOK
    <2>3. pc' \in [Processes -> Ended \cup Active] /\ pc[p] \in Active
      BY <1>1, <1>4 DEF IInv, TypeOK, Active, Searching
    <2> QED BY <1>4, <1>5, <2>2, <2>3 DEF IInv, TypeOK
  <1>8. LockMatchesJob'
    BY <1>1, <1>4, <1>5, LockFrame
  <1>9. SchemaMatchesJob'
    BY <1>5, <1>6 DEF IInv, SchemaMatchesJob
  <1>10. LoopInv(p)'
    <2>1. /\ checkpoint'[d] = checkpoint[d] /\ rows'[d] = Below(d, checkpoint[d])
          /\ loop'[p].next = checkpoint[d] /\ loop'[p].pending = {}
          /\ loop'[p].qualified = Cardinality(Below(d, checkpoint[d]))
          /\ loop'[p].gains = Cardinality(Below(d, checkpoint[d]) \cap Gains[d])
      BY <1>2, <1>5
    <2>2. checkpoint[d] <= checkpoint[d]
      BY <1>2
    <2>3. rows'[d] \cup loop'[p].pending = Below(d, checkpoint[d])
      BY <2>1
    <2> QED BY <1>2, <1>5, <1>6, <2>1, <2>2, <2>3 DEF LoopInv
  <1>11. \A q \in Processes : \A v \in views'[q] : ViewInv(v)'
    BY DEF IInv, ViewInv, Below
  <1>12. CountsReconcile'
    BY <1>5 DEF IInv, CountsReconcile
  <1> QED BY <1>5, <1>6, <1>7, <1>8, <1>9, <1>10, <1>11, <1>12
          DEF IInv, StoreHoldsTheQualified, Below

\* What the three actions that commit a batch have in common.
LEMMA CommitKeeps ==
  ASSUME IInv, NEW p \in Processes, pc[p] \in {"search", "flush"},
         Commit(Db(p), loop[p].pending, loop[p].next),
         pc' \in [Processes -> Ended \cup Active], pc'[p] \in Searching,
         loop' \in [Processes -> [next : Nat, pending : SUBSET Nat, qualified : Nat,
                                  gains : Nat, cancelled : BOOLEAN]],
         loop'[p].next = loop[p].next, loop'[p].pending = {},
         loop'[p].qualified = loop[p].qualified, loop'[p].gains = loop[p].gains,
         \A q \in Processes \ {p} : pc'[q] = pc[q] /\ loop'[q] = loop[q],
         reported' \in [Processes -> Nat],
         UNCHANGED <<plan, at, cancel, before, writer, views, starts>>
  PROVE  IInv'
  <1> DEFINE d == Db(p)
             next == loop[p].next
  <1>1. pc[p] \in Searching /\ d \in Databases /\ LoopInv(p) /\ stage[d] = "bound"
    BY AtAStore DEF IInv, SchemaMatchesJob, Active, Searching
  <1>2. next \in Nat /\ checkpoint[d] \in Nat /\ Total[d] \in Nat
    BY <1>1, StoreConstants DEF IInv, TypeOK
  <1>3. /\ rows' = [rows EXCEPT ![d] = @ \cup loop[p].pending]
        /\ checkpoint' = [checkpoint EXCEPT ![d] = IF @ < next THEN next ELSE @]
        /\ stage' = stage
    BY DEF Commit
  <1>4. checkpoint'[d] = next
    BY <1>1, <1>2, <1>3 DEF LoopInv, IInv, TypeOK
  <1>5. rows'[d] = Below(d, next)
    BY <1>1, <1>3 DEF LoopInv, IInv, TypeOK
  <1>6. \A e \in Databases \ {d} : checkpoint'[e] = checkpoint[e] /\ rows'[e] = rows[e]
    BY <1>3 DEF IInv, TypeOK
  <1>7. /\ \A q \in Processes : Db(q)' = Db(q)
        /\ \A q \in Processes \ {p} : pc'[q] \in Searching => LoopInv(q)'
    BY <1>1, <1>3, <1>6, OthersKeep
  <1>8. checkpoint' \in [Databases -> Nat] /\ \A e \in Databases : checkpoint[e] <= checkpoint'[e]
    <2>1. checkpoint' \in [Databases -> Nat]
      BY <1>2, <1>3 DEF IInv, TypeOK
    <2>2. ASSUME NEW e \in Databases PROVE checkpoint[e] <= checkpoint'[e]
      <3>1. checkpoint[e] \in Nat
        BY DEF IInv, TypeOK
      <3>2. CASE e = d
        BY <1>1, <1>4, <3>2 DEF LoopInv
      <3>3. CASE e # d
        BY <1>6, <3>1, <3>3
      <3> QED BY <3>2, <3>3
    <2> QED BY <2>1, <2>2
  <1>9. TypeOK'
    <2>1. rows' \in [Databases -> SUBSET Nat]
      BY <1>1, <1>3 DEF IInv, TypeOK
    <2>2. pc[p] \in Active
      BY <1>1 DEF Active
    <2> QED BY <1>3, <1>8, <2>1, <2>2 DEF IInv, TypeOK
  <1>10. LockMatchesJob'
    BY <1>1, LockFrame
  <1>11. SchemaMatchesJob'
    <2>1. \A e \in Databases :
            stage'[e] \in {"empty", "run_table", "both_tables", "versioned"} => checkpoint'[e] = 0
      BY <1>1, <1>3, <1>6 DEF IInv, SchemaMatchesJob
    <2> QED BY <1>1, <1>3, <1>7, <2>1 DEF IInv, SchemaMatchesJob, Searching
  <1>12. StoreHoldsTheQualified'
    <2>1. next <= Total[d]
      BY <1>1 DEF LoopInv
    <2>2. \A e \in Databases : checkpoint'[e] <= Total[e] /\ rows'[e] = Below(e, checkpoint'[e])
      BY <1>4, <1>5, <1>6, <2>1 DEF IInv, StoreHoldsTheQualified
    <2> QED BY <2>2 DEF StoreHoldsTheQualified, Below
  <1>13. LoopInv(p)'
    <2>1. /\ loop'[p].next = next /\ checkpoint'[d] <= next
          /\ rows'[d] \cup loop'[p].pending = Below(d, next)
      BY <1>2, <1>4, <1>5
    <2> QED BY <1>1, <1>4, <1>7, <2>1 DEF LoopInv
  <1>14. \A q \in Processes : \A v \in views'[q] : ViewInv(v)'
    BY <1>8, ViewFrame
  <1>15. CountsReconcile'
    BY DEF IInv, CountsReconcile, Searching
  <1> QED BY <1>7, <1>9, <1>10, <1>11, <1>12, <1>13, <1>14, <1>15 DEF IInv

LEMMA SavingKeeps ==
  ASSUME IInv, NEW p \in Processes, Stop(p) \/ Flush(p) \/ Exhaust(p)
  PROVE  IInv'
  <1> USE DEF Stop, Flush, Exhaust, job
  <1>1. pc[p] \in {"search", "flush"} /\ pc[p] \in Searching
    BY DEF Searching
  <1>2. loop[p] \in [next : Nat, pending : SUBSET Nat, qualified : Nat, gains : Nat, cancelled : BOOLEAN]
    BY DEF IInv, TypeOK
  <1>3. Commit(Db(p), loop[p].pending, loop[p].next)
    OBVIOUS
  <1>4. PICK to \in Searching : pc' = [pc EXCEPT ![p] = to]
    BY DEF Searching
  <1>5. /\ pc' \in [Processes -> Ended \cup Active] /\ pc'[p] \in Searching
        /\ \A q \in Processes \ {p} : pc'[q] = pc[q]
    BY <1>4 DEF IInv, TypeOK, Active
  <1>6. PICK flag \in BOOLEAN : loop' = [loop EXCEPT ![p].pending = {}, ![p].cancelled = flag]
    <2>1. [loop EXCEPT ![p].pending = {}] = [loop EXCEPT ![p].pending = {}, ![p].cancelled = loop[p].cancelled]
      BY <1>2 DEF IInv, TypeOK
    <2> QED BY <1>2, <2>1
  <1>7. /\ loop' \in [Processes -> [next : Nat, pending : SUBSET Nat, qualified : Nat,
                                    gains : Nat, cancelled : BOOLEAN]]
        /\ loop'[p].next = loop[p].next /\ loop'[p].pending = {}
        /\ loop'[p].qualified = loop[p].qualified /\ loop'[p].gains = loop[p].gains
        /\ \A q \in Processes \ {p} : loop'[q] = loop[q]
    BY <1>2, <1>6 DEF IInv, TypeOK
  <1>8. reported' \in [Processes -> Nat]
    <2>1. Examined(p, loop[p].next) \in Nat
      BY <1>2 DEF IInv, TypeOK, Examined
    <2> QED BY SMTT(30), <2>1 DEF IInv, TypeOK
  <1> QED BY <1>1, <1>3, <1>5, <1>7, <1>8, CommitKeeps

\* One candidate further: it joins the pending batch, or nothing does.
LEMMA EvaluateKeeps ==
  ASSUME IInv, NEW p \in Processes, Evaluate(p)
  PROVE  IInv'
  <1> DEFINE d == Db(p)
             i == loop[p].next
             found == {i} \cap Qualified[d]
             pending == loop[p].pending \cup found
  <1> USE DEF disk
  <1>1. /\ pc[p] = "search" /\ pc[p] \in Searching /\ i < Total[d]
        /\ loop' = [loop EXCEPT ![p].next = i + 1,
                                ![p].pending = pending,
                                ![p].qualified = @ + Cardinality(found),
                                ![p].gains = @ + Cardinality(found \cap Gains[d])]
        /\ UNCHANGED <<plan, at, cancel, before, writer, disk, views, starts>>
    BY DEF Evaluate, Searching
  <1>2. d \in Databases /\ LoopInv(p)
    BY <1>1, AtAStore DEF IInv, Active
  <1>3. /\ loop[p] \in [next : Nat, pending : SUBSET Nat, qualified : Nat, gains : Nat, cancelled : BOOLEAN]
        /\ i \in Nat /\ Total[d] \in Nat /\ checkpoint[d] \in Nat
    BY <1>2, StoreConstants DEF IInv, TypeOK
  <1>4. /\ loop'[p].next = i + 1
        /\ loop'[p].pending = pending
        /\ loop'[p].qualified = loop[p].qualified + Cardinality(found)
        /\ loop'[p].gains = loop[p].gains + Cardinality(found \cap Gains[d])
        /\ loop'[p].cancelled = loop[p].cancelled
        /\ \A q \in Processes \ {p} : loop'[q] = loop[q]
    BY <1>1, <1>3 DEF IInv, TypeOK
  <1>5. /\ pc' \in [Processes -> Ended \cup Active] /\ pc'[p] \in {"search", "flush"}
        /\ pc'[p] \in Searching
        /\ \A q \in Processes \ {p} : pc'[q] = pc[q]
    <2>1. pc' = pc \/ pc' = [pc EXCEPT ![p] = "flush"]
      BY DEF Evaluate
    <2> QED BY <1>1, <2>1 DEF IInv, TypeOK, Active, Searching
  <1>6. /\ Below(d, i + 1) = Below(d, i) \cup found
        /\ Cardinality(Below(d, i + 1)) = Cardinality(Below(d, i)) + Cardinality(found)
        /\ Cardinality(Below(d, i + 1) \cap Gains[d])
             = Cardinality(Below(d, i) \cap Gains[d]) + Cardinality(found \cap Gains[d])
    BY <1>2, <1>3, BelowNext
  <1>7. /\ \A q \in Processes : Db(q)' = Db(q)
        /\ \A q \in Processes \ {p} : pc'[q] \in Searching => LoopInv(q)'
    BY <1>1, <1>4, <1>5, OthersKeep
  <1>8. LoopInv(p)'
    <2>1. rows'[d] \cup loop'[p].pending = Below(d, i + 1)
      BY <1>1, <1>2, <1>4, <1>6 DEF LoopInv
    <2>2. checkpoint'[d] <= loop'[p].next /\ loop'[p].next <= Total[d]
      <3>1. checkpoint[d] <= i /\ checkpoint' = checkpoint
        BY <1>1, <1>2 DEF LoopInv
      <3> QED BY <1>1, <1>3, <1>4, <3>1
    <2>3. /\ loop'[p].qualified = Cardinality(Below(d, i + 1))
          /\ loop'[p].gains = Cardinality(Below(d, i + 1) \cap Gains[d])
      BY <1>2, <1>4, <1>6 DEF LoopInv
    <2> QED BY <1>4, <1>5, <1>7, <2>1, <2>2, <2>3 DEF LoopInv
  <1>9. TypeOK'
    <2>1. Cardinality(found) \in Nat /\ Cardinality(found \cap Gains[d]) \in Nat
      <3>1. IsFiniteSet({i})
        BY FS_Singleton
      <3>2. IsFiniteSet(found) /\ IsFiniteSet(found \cap Gains[d])
        BY <3>1, FS_Subset
      <3> QED BY <3>2, FS_CardinalityType
    <2>2. loop' \in [Processes -> [next : Nat, pending : SUBSET Nat, qualified : Nat,
                                   gains : Nat, cancelled : BOOLEAN]]
      <3>1. /\ i + 1 \in Nat /\ pending \in SUBSET Nat
            /\ loop[p].qualified + Cardinality(found) \in Nat
            /\ loop[p].gains + Cardinality(found \cap Gains[d]) \in Nat
        BY <1>3, <2>1
      <3>2. loop'[p] = [next |-> i + 1, pending |-> pending,
                        qualified |-> loop[p].qualified + Cardinality(found),
                        gains |-> loop[p].gains + Cardinality(found \cap Gains[d]),
                        cancelled |-> loop[p].cancelled]
        BY <1>1, <1>3 DEF IInv, TypeOK
      <3>3. loop' = [q \in Processes |-> loop'[q]]
        BY <1>1 DEF IInv, TypeOK
      <3>4. loop[p].cancelled \in BOOLEAN
        BY <1>3
      <3> HIDE DEF i, found, pending, d
      <3>5. loop'[p] \in [next : Nat, pending : SUBSET Nat, qualified : Nat,
                         gains : Nat, cancelled : BOOLEAN]
        BY <3>1, <3>2, <3>4
      <3> QED BY <1>4, <3>3, <3>5 DEF IInv, TypeOK
    <2>3. reported' \in [Processes -> Nat]
      <3>1. Examined(p, i + 1) \in Nat
        BY <1>3 DEF IInv, TypeOK, Examined
      <3> QED BY <3>1 DEF Evaluate, IInv, TypeOK
    <2>4. pc[p] \in Active
      BY <1>1 DEF Active
    <2> QED BY <1>1, <1>5, <2>2, <2>3, <2>4 DEF IInv, TypeOK
  <1>10. LockMatchesJob'
    BY <1>1, <1>5, LockFrame
  <1>11. SchemaMatchesJob'
    BY <1>1, <1>5, <1>7 DEF IInv, SchemaMatchesJob, Searching
  <1>12. \A q \in Processes : \A v \in views'[q] : ViewInv(v)'
    BY <1>1 DEF IInv, ViewInv, Below
  <1>13. CountsReconcile'
    BY <1>5 DEF IInv, CountsReconcile
  <1> QED BY <1>1, <1>7, <1>8, <1>9, <1>10, <1>11, <1>12, <1>13
          DEF IInv, StoreHoldsTheQualified, Below

\* What run() carried along agrees with the store when it comes to the end.
LEMMA AlwaysReconciles ==
  ASSUME IInv, NEW p \in Processes, pc[p] = "verify"
  PROVE  /\ Reconciles(p)
         /\ Outcome(p) \in [db : Databases, maximum : Nat, count : Nat, shown : SUBSET Nat]
         /\ ViewInv(Outcome(p))
  <1> DEFINE d == Db(p)
             next == loop[p].next
  <1>1. d \in Databases /\ LoopInv(p) /\ checkpoint[d] = next /\ next \in Nat
    BY AtAStore DEF IInv, TypeOK, LoopInv, Active, Searching
  <1>2. rows[d] = Below(d, next)
    BY <1>1 DEF IInv, StoreHoldsTheQualified
  <1>3. Reconciles(p)
    BY <1>1, <1>2 DEF Reconciles, LoopInv, Below
  <1>4. {i \in rows[d] : i < next} = Below(d, next)
    BY <1>2 DEF Below
  <1>5. loop[p].qualified = Cardinality(Below(d, next)) /\ loop[p].qualified \in Nat
    BY <1>1 DEF LoopInv, IInv, TypeOK
  <1>6. Outcome(p) = [db |-> d, maximum |-> next, count |-> loop[p].qualified, shown |-> Below(d, next)]
    BY <1>4 DEF Outcome
  <1>7. Outcome(p) \in [db : Databases, maximum : Nat, count : Nat, shown : SUBSET Nat]
    <2>1. Below(d, next) \in SUBSET Nat
      BY <1>1, BelowIsFinite
    <2> HIDE DEF d, next
    <2> QED BY <1>1, <1>5, <1>6, <2>1
  <1>8. next <= checkpoint[d]
    BY <1>1
  <1> QED BY <1>3, <1>5, <1>6, <1>7, <1>8 DEF ViewInv

LEMMA VerifyKeeps ==
  ASSUME IInv, NEW p \in Processes, Verify(p)
  PROVE  IInv'
  <1> USE DEF disk
  <1>1. pc[p] = "verify" /\ pc[p] \in Active
    BY DEF Verify, Active, Searching
  <1>2. /\ Reconciles(p)
        /\ Outcome(p) \in [db : Databases, maximum : Nat, count : Nat, shown : SUBSET Nat]
        /\ ViewInv(Outcome(p))
    BY <1>1, AlwaysReconciles
  <1>3. PICK out \in {"open", "cancelled", "complete"} :
          /\ Leave(p, out)
          /\ out = "open" <=> More(p)
    BY <1>2 DEF Verify
  <1>4. /\ views' = [views EXCEPT ![p] = @ \cup {Outcome(p)}]
        /\ before' = [before EXCEPT ![p] = AfterPair(p)]
        /\ reported' = [reported EXCEPT ![p] = Examined(p, loop[p].next)]
        /\ at' = IF More(p) THEN [at EXCEPT ![p] = @ + 1] ELSE at
        /\ UNCHANGED <<plan, cancel, disk, starts>>
    BY <1>2 DEF Verify
  <1>5. out \in (Ended \cup {"open"}) \ {"inconsistent"}
    BY DEF Ended
  <1>6. \A q \in Processes \ {p} : plan'[q] = plan[q] /\ at'[q] = at[q]
    BY <1>4 DEF IInv, TypeOK
  <1>7. /\ pc' \in [Processes -> Ended \cup Active]
        /\ writer' \in [Databases -> Processes \cup {Nobody}]
        /\ loop' \in [Processes -> [next : Nat, pending : SUBSET Nat, qualified : Nat,
                                    gains : Nat, cancelled : BOOLEAN]]
        /\ pc'[p] = out /\ \A q \in Processes \ {p} : pc'[q] = pc[q]
        /\ LockMatchesJob' /\ SchemaMatchesJob' /\ StoreHoldsTheQualified' /\ CountsReconcile'
        /\ \A q \in Processes : pc'[q] \in Searching => LoopInv(q)'
    BY <1>3, <1>4, <1>5, <1>6, LeaveFrame
  <1>8. TypeOK'
    <2>1. plan[p] \in Requests /\ at[p] \in 1 .. Len(plan[p]) /\ Len(plan[p]) \in Nat
      BY <1>1, AtAStore
    <2>2. \A q \in Processes : pc'[q] \in Active => plan'[q] \in Requests /\ at'[q] \in 1 .. Len(plan'[q])
      <3> SUFFICES ASSUME NEW q \in Processes, pc'[q] \in Active
                   PROVE  plan'[q] \in Requests /\ at'[q] \in 1 .. Len(plan'[q])
        OBVIOUS
      <3>1. CASE q # p
        BY <1>4, <1>6, <1>7, <3>1 DEF IInv, TypeOK
      <3>2. CASE q = p
        <4>1. out = "open"
          BY <1>7, <3>2 DEF Active, Opening, Searching
        <4>2. at'[p] = at[p] + 1 /\ at[p] < Len(plan[p])
          BY <1>3, <1>4, <4>1 DEF More, IInv, TypeOK
        <4> QED BY <1>4, <2>1, <3>2, <4>2
      <3> QED BY <3>1, <3>2
    <2>3. at' \in [Processes -> Nat]
      BY <1>4 DEF IInv, TypeOK
    <2>4. /\ AfterPair(p) \in [examined : Nat, qualified : Nat, gains : Nat]
          /\ Examined(p, loop[p].next) \in Nat
      BY DEF AfterPair, Examined, IInv, TypeOK
    <2>5. /\ before' \in [Processes -> [examined : Nat, qualified : Nat, gains : Nat]]
          /\ reported' \in [Processes -> Nat]
      BY <1>4, <2>4 DEF IInv, TypeOK
    <2>6. views' \in [Processes -> SUBSET [db : Databases, maximum : Nat, count : Nat, shown : SUBSET Nat]]
      BY <1>2, <1>4 DEF IInv, TypeOK
    <2> QED BY <1>4, <1>7, <2>2, <2>3, <2>5, <2>6 DEF IInv, TypeOK
  <1>9. \A q \in Processes : \A v \in views'[q] : ViewInv(v)'
    <2>1. \A q \in Processes : \A v \in views'[q] : ViewInv(v)
      BY <1>2, <1>4 DEF IInv, TypeOK
    <2> QED BY <1>4, <2>1 DEF ViewInv, Below
  <1> QED BY <1>7, <1>8, <1>9 DEF IInv

LEMMA NextIInv == IInv /\ [Next]_vars => IInv'
  <1> SUFFICES ASSUME IInv, [Next]_vars PROVE IInv'
    OBVIOUS
  <1>1. ASSUME NEW p \in Processes, NEW q \in Requests, Start(p, q) PROVE IInv'
    BY <1>1, StartKeeps
  <1>2. ASSUME NEW p \in Processes, RequestCancel(p) PROVE IInv'
    BY <1>2, RequestCancelKeeps
  <1>3. ASSUME NEW p \in Processes, Prepare(p) PROVE IInv'
    BY <1>3, PrepareKeeps
  <1>4. ASSUME NEW p \in Processes, Fail(p) \/ Crash(p) \/ Refused(p) PROVE IInv'
    BY <1>4, EndKeeps
  <1>5. ASSUME NEW p \in Processes, Open(p) PROVE IInv'
    BY <1>5, OpenKeeps
  <1>6. ASSUME NEW p \in Processes, Migrate(p) PROVE IInv'
    BY <1>6, MigrateKeeps
  <1>7. ASSUME NEW p \in Processes, Bind(p) PROVE IInv'
    BY <1>7, BindKeeps
  <1>8. ASSUME NEW p \in Processes, Resume(p) PROVE IInv'
    BY <1>8, ResumeKeeps
  <1>9. ASSUME NEW p \in Processes, Stop(p) \/ Flush(p) \/ Exhaust(p) PROVE IInv'
    BY <1>9, SavingKeeps
  <1>10. ASSUME NEW p \in Processes, Evaluate(p) PROVE IInv'
    BY <1>10, EvaluateKeeps
  <1>11. ASSUME NEW p \in Processes, Verify(p) PROVE IInv'
    BY <1>11, VerifyKeeps
  <1>12. CASE UNCHANGED vars
    <2>1. \A q \in Processes : Db(q)' = Db(q)
      BY <1>12 DEF vars, job, Db
    <2>2. TypeOK' /\ LockMatchesJob' /\ SchemaMatchesJob' /\ StoreHoldsTheQualified' /\ CountsReconcile'
      BY SMTT(30), <1>12, <2>1 DEF vars, job, disk, IInv, TypeOK, LockMatchesJob, SchemaMatchesJob,
                         StoreHoldsTheQualified, Below, CountsReconcile
    <2>3. \A q \in Processes : pc'[q] \in Searching => LoopInv(q)'
      BY <1>12, LoopFrame DEF vars, job, disk, IInv
    <2>4. \A q \in Processes : \A v \in views'[q] : ViewInv(v)'
      BY <1>12 DEF vars, disk, IInv, ViewInv, Below
    <2> QED BY <2>2, <2>3, <2>4 DEF IInv
  <1> QED BY <1>1, <1>2, <1>3, <1>4, <1>5, <1>6, <1>7, <1>8, <1>9, <1>10, <1>11, <1>12
          DEF Next, Work

-----------------------------------------------------------------------------
(* The theorems.                                                           *)

\* The inductive invariant of the search holds in every reachable state.
THEOREM SearchInvariant == Spec => []IInv
  BY InitIInv, NextIInv, PTL DEF Spec

\* After any crashes, failures, cancellations and resumptions, a store holds
\* exactly the qualifying candidates before its checkpoint.
\* (SearchStore.upsert_qualified_results, resume_summary)
THEOREM NothingIsLostOrEarly == Spec => []StoreHoldsTheQualified
  <1>1. IInv => StoreHoldsTheQualified
    BY DEF IInv
  <1> QED BY <1>1, SearchInvariant, PTL

\* The assertions that close run(), and the check of resume_summary(), never
\* fail.
THEOREM AssertionsNeverFail == Spec => []CountsReconcile
  <1>1. IInv => CountsReconcile
    BY DEF IInv
  <1> QED BY <1>1, SearchInvariant, PTL

\* An outcome read later, whoever carried the search on meanwhile, shows what
\* it showed when it was made.  (TradeSearchOutcome.from_database)
THEOREM OutcomesStaySnapshots == Spec => []OutcomesAreSnapshots
  <1>1. IInv => OutcomesAreSnapshots
    <2> SUFFICES ASSUME IInv, NEW p \in Processes, NEW v \in views[p] PROVE ReadsAs(v, v.shown)
      BY DEF OutcomesAreSnapshots
    <2>1. ViewInv(v) /\ v.db \in Databases /\ v.maximum \in Nat /\ checkpoint[v.db] \in Nat
      BY DEF IInv, TypeOK
    <2>2. rows[v.db] = Below(v.db, checkpoint[v.db]) /\ Below(v.db, checkpoint[v.db]) \subseteq Nat
      BY <2>1, BelowIsFinite DEF IInv, StoreHoldsTheQualified
    <2>3. \A i \in Qualified[v.db] : i \in Nat
      BY <2>1, StoreConstants
    <2>4. {i \in rows[v.db] : i < v.maximum} = Below(v.db, v.maximum)
      BY <2>1, <2>2, <2>3 DEF ViewInv, Below
    <2> QED BY <2>1, <2>4 DEF ViewInv, ReadsAs
  <1> QED BY <1>1, SearchInvariant, PTL

\* No step takes a checkpoint back or removes a row.
\* (_UPDATE_CHECKPOINT_SQL, _UPSERT_RESULT_SQL)
THEOREM StoresNeverShrink == Spec => StoresOnlyGrow
  <1> DEFINE Grows == \A d \in Databases : checkpoint'[d] >= checkpoint[d] /\ rows[d] \subseteq rows'[d]
  <1>1. IInv /\ [Next]_vars => [Grows]_vars
    <2> SUFFICES ASSUME IInv, Next PROVE Grows
      OBVIOUS
    <2>1. \A d \in Databases : checkpoint[d] \in Nat /\ checkpoint[d] >= checkpoint[d]
      BY DEF IInv, TypeOK
    <2>2. CASE UNCHANGED <<checkpoint, rows>>
      BY <2>1, <2>2
    <2>3. ASSUME NEW p \in Processes, Bind(p) PROVE Grows
      <3>1. checkpoint[Db(p)] = 0 /\ UNCHANGED rows
        BY <2>3, AtAStore DEF Bind, Active, Opening, IInv, SchemaMatchesJob
      <3>2. checkpoint' = checkpoint
        BY <2>3, <3>1 DEF Bind, IInv, TypeOK
      <3> QED BY <2>1, <3>1, <3>2
    <2>4. ASSUME NEW p \in Processes, Stop(p) \/ Flush(p) \/ Exhaust(p) PROVE Grows
      <3>1. PICK batch \in SUBSET Nat, target \in Nat : Commit(Db(p), batch, target)
        <4>1. pc[p] \in {"search", "flush"}
          BY <2>4 DEF Stop, Flush, Exhaust
        <4>2. loop[p].next \in Nat /\ loop[p].pending \in SUBSET Nat /\ Db(p) \in Databases /\ Total[Db(p)] \in Nat
          BY <4>1, AtAStore, StoreConstants DEF Active, Searching, IInv, TypeOK
        <4> QED BY <2>4, <4>2 DEF Stop, Flush, Exhaust
      <3>2. \A d \in Databases :
              /\ checkpoint'[d] = checkpoint[d] \/ (checkpoint'[d] = target /\ checkpoint[d] < target)
              /\ rows[d] \subseteq rows'[d]
        BY <3>1 DEF Commit, IInv, TypeOK
      <3> QED BY <2>1, <3>2
    <2> QED BY <2>2, <2>3, <2>4
            DEF Next, Work, Start, RequestCancel, Prepare, Open, Refused, Migrate, Resume,
                Evaluate, Verify, Fail, Crash, disk
  <1>2. StoresOnlyGrow <=> [][Grows]_vars
    BY DEF StoresOnlyGrow
  <1> QED BY <1>1, <1>2, SearchInvariant, PTL DEF Spec

-----------------------------------------------------------------------------
(* Progress.                                                               *)

\* What p's numbers are: the reports compare naturals.
LEMMA ProgressTypes ==
  ASSUME IInv, NEW p \in Processes
  PROVE  /\ reported[p] \in Nat /\ before[p].examined \in Nat /\ loop[p].next \in Nat
         /\ Examined(p, loop[p].next) \in Nat
         /\ Examined(p, loop[p].next) >= before[p].examined
  BY DEF IInv, TypeOK, Examined

\* A step that leaves alone what p reported, its stores before and how far
\* it is, and does not take it from one side of Searching to the other.
LEMMA ProgressFrame ==
  ASSUME NEW p \in Processes, ReportedIsPassed(p),
         reported'[p] = reported[p], before'[p] = before[p], loop'[p].next = loop[p].next,
         pc'[p] \in Active => pc[p] \in Active,
         pc'[p] \in Active => (pc'[p] \in Searching <=> pc[p] \in Searching)
  PROVE  ReportedIsPassed(p)'
  BY DEF ReportedIsPassed, Examined, Active, Searching

\* One step of one process, seen by p: what p reported stays within what it
\* has passed, and while its job goes on it never reports less.
LEMMA ProgressStep ==
  ASSUME IInv, IInv', [Next]_vars, NEW p \in Processes, ReportedIsPassed(p)
  PROVE  /\ ReportedIsPassed(p)'
         /\ pc[p] \in Active /\ pc'[p] \in Active \cup {"complete", "cancelled"}
              => reported'[p] >= reported[p]
  <1> DEFINE Advances == pc[p] \in Active /\ pc'[p] \in Active \cup {"complete", "cancelled"}
                           => reported'[p] >= reported[p]
  <1>t. /\ pc \in [Processes -> Ended \cup Active] /\ reported \in [Processes -> Nat]
        /\ before \in [Processes -> [examined : Nat, qualified : Nat, gains : Nat]]
        /\ loop \in [Processes -> [next : Nat, pending : SUBSET Nat, qualified : Nat,
                                   gains : Nat, cancelled : BOOLEAN]]
    BY DEF IInv, TypeOK
  <1>0. reported[p] \in Nat /\ reported'[p] \in Nat
    BY DEF IInv, TypeOK
  <1>1. ASSUME reported'[p] = reported[p], before'[p] = before[p], loop'[p].next = loop[p].next,
               pc'[p] \in Active => pc[p] \in Active,
               pc'[p] \in Active => (pc'[p] \in Searching <=> pc[p] \in Searching)
        PROVE  ReportedIsPassed(p)' /\ Advances
    BY <1>0, <1>1, ProgressFrame
  <1>2. CASE \E q \in Requests : Start(p, q)
    <2>1. pc'[p] = "prepare" /\ reported'[p] = 0 /\ before'[p].examined = 0 /\ pc[p] \in Ended
      BY <1>2 DEF Start, IInv, TypeOK, NothingBefore
    <2> QED BY <2>1 DEF ReportedIsPassed, Ended, Active, Opening, Searching
  <1>3. CASE Resume(p)
    <2>1. /\ pc[p] = "resume" /\ UNCHANGED <<reported, before>> /\ pc'[p] \in {"search", "inconsistent"}
      BY <1>3, <1>t DEF Resume, Leave, job
    <2>2. reported'[p] <= before'[p].examined
      BY <2>1 DEF ReportedIsPassed, Active, Opening, Searching
    <2>3. CASE pc'[p] = "search"
      <3>1. before'[p].examined \in Nat /\ loop'[p].next \in Nat
        BY DEF IInv, TypeOK
      <3>2. reported'[p] <= Examined(p, loop[p].next)'
        BY <1>0, <2>2, <3>1 DEF Examined
      <3> QED BY <1>0, <2>1, <2>3, <3>2 DEF ReportedIsPassed, Searching
    <2>4. CASE pc'[p] = "inconsistent"
      BY <2>4 DEF ReportedIsPassed, Active, Opening, Searching
    <2> QED BY <2>1, <2>3, <2>4
  <1>4. CASE Evaluate(p)
    <2>1. pc[p] = "search" /\ pc'[p] \in {"search", "flush"} /\ before' = before
      BY <1>4, <1>t DEF Evaluate
    <2>2. loop'[p].next = loop[p].next + 1
      BY <1>4, <1>t DEF Evaluate
    <2>3. reported'[p] = reported[p] \/ reported'[p] = Examined(p, loop[p].next + 1)
      BY <1>4, <1>t DEF Evaluate
    <2>4. reported[p] <= before[p].examined + loop[p].next
      BY <2>1 DEF ReportedIsPassed, Searching, Examined
    <2>5. before[p].examined \in Nat /\ loop[p].next \in Nat
      BY ProgressTypes
    <2>6. reported[p] <= reported'[p] /\ reported'[p] <= before[p].examined + (loop[p].next + 1)
      BY <1>0, <2>3, <2>4, <2>5 DEF Examined
    <2>7. ReportedIsPassed(p)'
      BY <2>1, <2>2, <2>6 DEF ReportedIsPassed, Searching, Examined
    <2> QED BY <1>0, <2>6, <2>7
  <1>5. CASE Flush(p)
    <2>1. /\ pc[p] = "flush" /\ pc'[p] = "search" /\ before' = before
          /\ loop'[p].next = loop[p].next /\ reported'[p] = Examined(p, loop[p].next)
      BY <1>5, <1>t DEF Flush
    <2>2. reported[p] <= Examined(p, loop[p].next)
      BY <2>1 DEF ReportedIsPassed, Searching
    <2> QED BY <1>0, <2>1, <2>2, ProgressTypes DEF ReportedIsPassed, Examined, Active, Searching
  <1>6. CASE Verify(p)
    <2>1. pc[p] = "verify" /\ pc'[p] \in {"inconsistent", "open", "cancelled", "complete"}
      BY <1>6, <1>t DEF Verify, Leave
    <2>2. reported[p] <= Examined(p, loop[p].next)
      BY <2>1 DEF ReportedIsPassed, Searching
    <2>3. CASE Reconciles(p)
      <3>1. /\ reported'[p] = Examined(p, loop[p].next)
            /\ before'[p].examined = before[p].examined + loop[p].next
        BY <1>6, <2>3 DEF Verify, AfterPair, IInv, TypeOK
      <3> QED BY <1>0, <2>1, <2>2, <3>1, ProgressTypes
              DEF ReportedIsPassed, Examined, Active, Opening, Searching
    <2>4. CASE ~Reconciles(p)
      <3>1. pc'[p] = "inconsistent"
        BY <1>6, <2>4, <1>t DEF Verify, Leave
      <3> QED BY <3>1 DEF ReportedIsPassed, Active, Opening, Searching
    <2> QED BY <2>3, <2>4
  <1>7. CASE \/ RequestCancel(p) \/ Prepare(p) \/ Open(p) \/ Migrate(p) \/ Bind(p)
             \/ Stop(p) \/ Exhaust(p)
    <2>1. UNCHANGED <<reported, before>> /\ pc[p] \in Active
      BY <1>7 DEF RequestCancel, Prepare, Open, Migrate, Bind, Stop, Exhaust, job,
                  Active, Opening, Searching
    <2>2. CASE pc'[p] = "cancelled"
      BY <1>0, <2>1, <2>2 DEF ReportedIsPassed, Active, Opening, Searching
    <2>3. CASE loop'[p].next = loop[p].next /\ (pc'[p] \in Searching <=> pc[p] \in Searching)
      BY <1>1, <2>1, <2>3
    <2>4. CASE RequestCancel(p)
      BY <2>3, <2>4 DEF RequestCancel
    <2>5. CASE Prepare(p)
      <3>1. pc'[p] = "cancelled" \/ (pc'[p] = "open" /\ loop' = loop)
        BY <2>5, <1>t DEF Prepare, Leave
      <3> QED BY <2>2, <2>3, <2>5, <3>1 DEF Prepare, Searching
    <2>6. CASE Open(p) \/ Migrate(p) \/ Bind(p)
      <3>1. pc[p] \notin Searching /\ pc'[p] \notin Searching /\ loop' = loop
        BY <2>6, <1>t DEF Open, Migrate, Bind, Entry, Searching
      <3> QED BY <2>3, <3>1
    <2>7. CASE Stop(p) \/ Exhaust(p)
      <3>1. pc[p] = "search" /\ pc'[p] = "verify"
        BY <2>7, <1>t DEF Stop, Exhaust
      <3>2. CASE Stop(p)
        <4>1. loop' = [loop EXCEPT ![p].pending = {}, ![p].cancelled = TRUE]
          BY <3>2 DEF Stop
        <4>2. loop'[p].next = loop[p].next
          BY <4>1 DEF IInv, TypeOK
        <4> QED BY <2>3, <3>1, <4>2 DEF Searching
      <3>3. CASE Exhaust(p)
        <4>1. loop' = [loop EXCEPT ![p].pending = {}]
          BY <3>3 DEF Exhaust
        <4>2. loop'[p].next = loop[p].next
          BY <4>1 DEF IInv, TypeOK
        <4> QED BY <2>3, <3>1, <4>2 DEF Searching
      <3> QED BY <2>7, <3>2, <3>3
    <2> QED BY <1>7, <2>4, <2>5, <2>6, <2>7
  <1>8. CASE Refused(p) \/ Fail(p) \/ Crash(p)
    <2>1. pc'[p] \in {"failed", "idle"}
      BY <1>8, <1>t DEF Refused, Fail, Crash, Leave
    <2> QED BY <2>1 DEF ReportedIsPassed, Active, Opening, Searching
  <1>9. CASE \/ UNCHANGED vars
             \/ \E o \in Processes \ {p} :
                  \/ \E q \in Requests : Start(o, q)
                  \/ RequestCancel(o) \/ Work(o) \/ Fail(o) \/ Crash(o)
    <2>1. CASE UNCHANGED vars
      BY <1>1, <2>1 DEF vars, job
    <2>2. ASSUME NEW o \in Processes \ {p},
                 \/ \E q \in Requests : Start(o, q)
                 \/ RequestCancel(o) \/ Work(o) \/ Fail(o) \/ Crash(o)
          PROVE  /\ pc'[p] = pc[p] /\ loop'[p] = loop[p]
                 /\ before'[p] = before[p] /\ reported'[p] = reported[p]
      <3>1. CASE (\E q \in Requests : Start(o, q)) \/ RequestCancel(o)
        BY <3>1, <1>t DEF Start, RequestCancel, job
      <3>0. CASE Open(o) \/ Migrate(o) \/ Bind(o)
        BY <3>0, <1>t DEF Open, Migrate, Bind, job
      <3>2. \A to : Leave(o, to) => pc'[p] = pc[p] /\ loop'[p] = loop[p]
        BY <1>t DEF Leave
      <3>3. CASE Fail(o) \/ Refused(o) \/ Prepare(o)
        BY <3>2, <3>3, <1>t DEF Fail, Refused, Prepare, job
      <3>4. CASE Crash(o)
        BY <3>2, <3>4, <1>t DEF Crash
      <3>5. CASE Resume(o)
        BY <3>2, <3>5, <1>t DEF Resume, job
      <3>6. CASE Stop(o) \/ Flush(o) \/ Exhaust(o)
        BY <3>6, <1>t DEF Stop, Flush, Exhaust, job
      <3>7. CASE Evaluate(o)
        <4>1. pc' = pc \/ pc' = [pc EXCEPT ![o] = "flush"]
          BY <3>7 DEF Evaluate
        <4>2. PICK l : loop' = [loop EXCEPT ![o] = l]
          BY Zenon, <3>7 DEF Evaluate
        <4>3. PICK n : reported' = reported \/ reported' = [reported EXCEPT ![o] = n]
          BY <3>7 DEF Evaluate
        <4>4. before' = before
          BY <3>7 DEF Evaluate
        <4> QED BY <4>1, <4>2, <4>3, <4>4 DEF IInv, TypeOK
      <3>8. CASE Verify(o)
        BY <3>2, <3>8 DEF Verify, IInv, TypeOK
      <3> QED BY <2>2, <3>0, <3>1, <3>3, <3>4, <3>5, <3>6, <3>7, <3>8 DEF Work
    <2> QED BY <1>1, <1>9, <2>1, <2>2
  <1> QED BY <1>2, <1>3, <1>4, <1>5, <1>6, <1>7, <1>8, <1>9 DEF Next, Work

\* Within a job, across its stores, checkpoints and resumptions, the examined
\* count it reports never moves backwards.  (search_runner.py,
\* league_search.py, job.timing.observe)
THEOREM ProgressNeverRetreats == Spec => ProgressOnlyAdvances
  <1> DEFINE Passed == \A p \in Processes : ReportedIsPassed(p)
             Advances == \A p \in Processes :
                           pc[p] \in Active /\ pc'[p] \in Active \cup {"complete", "cancelled"}
                             => reported'[p] >= reported[p]
  <1>1. Init => Passed
    BY DEF Init, ReportedIsPassed, Active, Opening, Searching
  <1>2. IInv /\ IInv' /\ Passed /\ [Next]_vars => Passed' /\ [Advances]_vars
    BY ProgressStep
  <1>3. ProgressOnlyAdvances <=> [][Advances]_vars
    BY DEF ProgressOnlyAdvances
  <1> QED BY <1>1, <1>2, <1>3, SearchInvariant, PTL DEF Spec

=============================================================================

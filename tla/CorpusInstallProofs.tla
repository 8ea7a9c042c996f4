-------------------------- MODULE CorpusInstallProofs --------------------------
(***************************************************************************)
(* For any files, versions, sizes, servers and faults: what the installer  *)
(* promotes is what was pinned, what its state calls verified is there,    *)
(* and a .part file mixes two versions only if its tag was lost.           *)
(***************************************************************************)
EXTENDS CorpusInstall, TLAPS

(* A whole file is a content, as long as its version is. *)
LEMMA WholeIsContent ==
    ASSUME NEW v \in Versions
    PROVE  Whole(v) \in Content /\ Len(Whole(v)) = Size[v] /\ Whole(v) # None
<1>1. Size[v] \in Nat
  BY AssetsAssumption
<1>2. Whole(v) \in Content /\ Len(Whole(v)) = Size[v]
  BY <1>1 DEF Whole, Content
<1> QED
  BY <1>2, AssetsAssumption

(* What is there before anything happened. *)
LEMMA NothingYet ==
    /\ <<>> \in Content /\ Len(<<>>) = 0
    /\ InitialRows \in [Assets -> Row]
    /\ \A a \in Assets : InitialRows[a].tag = None /\ ~InitialRows[a].done
    /\ NoReply \in [version : Versions \cup {None}, from : Nat]
<1>1. <<>> \in Content /\ Len(<<>>) = 0
  BY DEF Content
<1>2. InitialRow \in Row /\ InitialRow.tag = None /\ ~InitialRow.done
  BY DEF InitialRow, Row
<1>3. NoReply \in [version : Versions \cup {None}, from : Nat]
  BY DEF NoReply
<1> QED
  BY <1>1, <1>2, <1>3 DEF InitialRows

LEMMA OrderType ==
    /\ Len(Order) \in Nat
    /\ \A i \in 1..Len(Order) : Order[i] \in Assets
    /\ \A a \in Assets : MaxSize[a] \in Nat
    /\ \A v \in Versions : Size[v] \in Nat /\ v # None
    /\ Pinned \subseteq Assets
<1>1. Len(Order) \in Nat /\ \A i \in 1..Len(Order) : Order[i] \in Assets
  BY AssetsAssumption
<1>2. \A a \in Assets : MaxSize[a] \in Nat
  BY AssetsAssumption
<1>3. \A v \in Versions : Size[v] \in Nat
  BY AssetsAssumption
<1>4. (\A v \in Versions : v # None) /\ Pinned \subseteq Assets
  BY Zenon, AssetsAssumption
<1> QED
  BY <1>1, <1>2, <1>3, <1>4

LEMMA ThisIsAsset ==
    ASSUME TypeOK, at <= Len(Order)
    PROVE  This \in Assets
BY OrderType DEF TypeOK, This

(* The initial states satisfy the invariant. *)
LEMMA InitInv == Init => IInv
<1> SUFFICES ASSUME Init PROVE IInv
  OBVIOUS
<1>1. TypeOK
  <2>1. forgot \in [Assets -> BOOLEAN]
    BY DEF Init
  <2>2. cancel \in BOOLEAN
    BY Zenon DEF Init
  <2>3. at \in 1..(Len(Order) + 1)
    BY OrderType DEF Init
  <2>4. part \in [Assets -> Content] /\ final \in [Assets -> Content \cup {None}]
    BY NothingYet DEF Init
  <2>5. rows \in [Assets -> Row] /\ reply \in [version : Versions \cup {None}, from : Nat]
    BY NothingYet DEF Init
  <2> QED
    BY <2>1, <2>2, <2>3, <2>4, <2>5 DEF Init, TypeOK
<1>2. PositionOK /\ ManifestOK
  BY OrderType DEF Init, PositionOK, ManifestOK, Downloading
<1>3. LimitsOK
  <2>1. ASSUME NEW a \in Assets
        PROVE  Len(part[a]) <= MaxSize[a] /\ final[a] = None
    BY NothingYet, OrderType DEF Init
  <2> QED
    BY <2>1 DEF LimitsOK
<1>4. RowsOK
  BY NothingYet DEF Init, RowsOK, IsThere, HasState
<1>5. TagsOK
  BY NothingYet DEF Init, TagsOK, CurrentTag, HasState, Mixed
<1>6. PinnedIsExact /\ VerifiedIsThere /\ ReceiptNamesItsSources
  BY OrderType DEF Init, PinnedIsExact, VerifiedIsThere, ReceiptNamesItsSources
<1> QED
  BY <1>1, <1>2, <1>3, <1>4, <1>5, <1>6 DEF IInv

(* However install() ends, the invariant holds of what it saved. *)
LEMMA EndInv ==
    ASSUME IInv, NEW status \in Statuses, End(status),
           UNCHANGED <<source, manifest, final, part, corpora, receipt, forgot>>
    PROVE  IInv'
<1>0. TypeOK /\ PositionOK /\ ManifestOK /\ LimitsOK /\ RowsOK /\ TagsOK
      /\ PinnedIsExact /\ VerifiedIsThere /\ ReceiptNamesItsSources
  BY DEF IInv
<1>1. pc = "record" => This \in Assets /\ final[This] \in Content
  BY <1>0, ThisIsAsset DEF PositionOK, Downloading, TypeOK
<1>2. RowsToSave \in [Assets -> Row]
  BY ZenonT(30), <1>0, <1>1 DEF TypeOK, RowsToSave, Row
<1>3. ASSUME NEW a \in Assets
      PROVE  IsThere(RowsToSave[a], a) /\ RowsToSave[a].tag = rows[a].tag
  BY <1>0, <1>1 DEF TypeOK, PositionOK, RowsToSave, RowsOK, IsThere, Row
<1>4. TypeOK'
  <2>1. saved' # None => saved' \in State
    BY <1>0, <1>2 DEF End, TypeOK, State, Statuses
  <2>2. rows' \in [Assets -> Row] /\ reply' \in [version : Versions \cup {None}, from : Nat]
    BY NothingYet DEF End
  <2>3. at' \in 1..(Len(Order) + 1)
    BY OrderType DEF End
  <2>4. cancel' \in BOOLEAN
    BY Zenon DEF End
  <2> QED
    BY <1>0, <2>1, <2>2, <2>3, <2>4 DEF End, TypeOK
<1>5. PositionOK' /\ ManifestOK'
  BY <1>0, OrderType DEF End, PositionOK, ManifestOK, Downloading
<1>6. LimitsOK'
  BY <1>0 DEF LimitsOK
<1>7. RowsOK'
  BY NothingYet DEF End, RowsOK, IsThere, HasState
<1>8. TagsOK'
  <2>1. ASSUME NEW a \in Assets
        PROVE  CurrentTag(a)' = CurrentTag(a)
    <3>1. CASE HasState
      <4>1. [status |-> status, rows |-> RowsToSave] \in State
        BY <1>2 DEF State, Statuses
      <4>2. saved' # None /\ saved'.rows = RowsToSave
        BY <3>1, <4>1, AssetsAssumption DEF End
      <4> QED
        BY <3>1, <4>2, <1>3 DEF End, CurrentTag, HasState
    <3>2. CASE ~HasState
      BY <3>2 DEF End, CurrentTag, HasState
    <3> QED
      BY <3>1, <3>2
  <2>2. pc' # "body"
    BY DEF End
  <2> HIDE DEF CurrentTag
  <2> QED
    BY <1>0, <2>1, <2>2 DEF TagsOK, Mixed
<1>9. VerifiedIsThere'
  BY <1>0, <1>3 DEF End, VerifiedIsThere, IsThere
<1>10. PinnedIsExact' /\ ReceiptNamesItsSources'
  BY <1>0 DEF PinnedIsExact, ReceiptNamesItsSources, Whole
<1> QED
  BY <1>4, <1>5, <1>6, <1>7, <1>8, <1>9, <1>10 DEF IInv

(* The conjuncts, to cite one by one. *)
LEMMA Parts ==
    IInv <=> /\ TypeOK /\ PositionOK /\ ManifestOK /\ LimitsOK /\ RowsOK /\ TagsOK
             /\ PinnedIsExact /\ VerifiedIsThere /\ ReceiptNamesItsSources
BY DEF IInv

(* What the pinned content of a file is. *)
LEMMA PinnedContent ==
    ASSUME TypeOK, ManifestOK, manifest # None, NEW a \in Pinned
    PROVE  /\ manifest[a] \in Versions
           /\ Whole(manifest[a]) \in Content
           /\ Len(Whole(manifest[a])) = Size[manifest[a]]
           /\ Size[manifest[a]] <= MaxSize[a]
BY WholeIsContent DEF TypeOK, ManifestOK

(* A step that leaves the files, the rows and the replies alone and does   *)
(* not cross the border between having loaded the state and not.           *)
LEMMA StartInv == ASSUME IInv, Start PROVE IInv'
<1>1. TypeOK'
  BY Parts DEF Start, TypeOK, disk
<1>2. PositionOK' /\ ManifestOK'
  BY Parts DEF Start, PositionOK, ManifestOK, Downloading, disk
<1>3. LimitsOK'
  BY Parts DEF Start, LimitsOK, disk
<1>4. RowsOK'
  BY Parts DEF Start, RowsOK, IsThere, HasState, disk
<1>5. TagsOK'
  BY Parts DEF Start, TagsOK, CurrentTag, HasState, Mixed, disk
<1>6. PinnedIsExact' /\ VerifiedIsThere' /\ ReceiptNamesItsSources'
  BY Parts DEF Start, PinnedIsExact, VerifiedIsThere, ReceiptNamesItsSources, Whole, disk
<1> QED
  BY <1>1, <1>2, <1>3, <1>4, <1>5, <1>6, Parts DEF IInv

LEMMA ResolveInv == ASSUME IInv, Resolve PROVE IInv'
<1>1. CASE ~(manifest # None \/ CanPin)
  <2>1. End("paused") /\ UNCHANGED <<source, manifest, final, part, corpora, receipt, forgot>>
    BY <1>1 DEF Resolve, Pause
  <2> QED
    BY <2>1, EndInv DEF Statuses
<1>2. CASE manifest # None \/ CanPin
  <2>0. /\ pc = "manifest" /\ pc' = "begin"
        /\ manifest' = IF manifest # None THEN manifest ELSE [a \in Pinned |-> source[a]]
        /\ UNCHANGED <<source, final, part, saved, corpora, receipt, at, rows, reply,
                       cancel, forgot>>
    BY <1>2 DEF Resolve
  <2>1. manifest' \in [Pinned -> Versions] /\ manifest' # None
    BY <2>0, Parts, AssetsAssumption, OrderType DEF TypeOK
  <2>2. TypeOK'
    BY <2>0, <2>1, Parts DEF TypeOK
  <2>3. PositionOK'
    BY <2>0, Parts DEF PositionOK, Downloading
  <2>4. ManifestOK'
    <3>1. CASE manifest # None
      BY <3>1, <2>0, <2>1, Parts DEF ManifestOK
    <3>2. CASE manifest = None
      BY <3>2, <1>2, <2>0, <2>1, Parts DEF CanPin, ManifestOK
    <3> QED
      BY <3>1, <3>2
  <2>5. LimitsOK' /\ VerifiedIsThere'
    BY <2>0, Parts DEF LimitsOK, VerifiedIsThere
  <2>6. RowsOK' /\ TagsOK'
    BY <2>0, Parts DEF RowsOK, IsThere, HasState, TagsOK, CurrentTag, Mixed
  <2>7. PinnedIsExact' /\ ReceiptNamesItsSources'
    BY <2>0, Parts DEF PinnedIsExact, ReceiptNamesItsSources, ManifestOK, Whole
  <2> QED
    BY <2>2, <2>3, <2>4, <2>5, <2>6, <2>7, Parts DEF IInv
<1> QED
  BY <1>1, <1>2

LEMMA BeginInv == ASSUME IInv, Begin PROVE IInv'
<1>1. CASE End("ready") /\ UNCHANGED <<source, manifest, final, part, corpora, receipt, forgot>>
  BY <1>1, EndInv DEF Statuses
<1>2. CASE ~(receipt # None /\ receipt.corpus \in corpora)
  <2>0. /\ pc = "begin" /\ pc' = "next" /\ at' = 1
        /\ rows' = IF saved = None THEN InitialRows ELSE saved.rows
        /\ saved' = [status |-> "downloading", rows |-> rows']
        /\ UNCHANGED <<source, manifest, final, part, corpora, receipt, reply, cancel, forgot>>
    BY <1>2 DEF Begin, Save
  <2>1. rows' \in [Assets -> Row]
    BY <2>0, Parts, NothingYet DEF TypeOK, State
  <2>2. saved' \in State /\ saved' # None /\ saved'.rows = rows'
    BY SMTT(30), <2>0, <2>1, AssetsAssumption DEF State, Statuses
  <2>3. ASSUME NEW a \in Assets
        PROVE  IsThere(rows'[a], a) /\ CurrentTag(a)' = CurrentTag(a)
    BY <2>0, <2>1, Parts, NothingYet DEF VerifiedIsThere, IsThere, CurrentTag, HasState
  <2>4. TypeOK'
    BY <2>0, <2>1, <2>2, Parts, OrderType DEF TypeOK
  <2>5. PositionOK' /\ ManifestOK'
    BY <2>0, Parts DEF PositionOK, ManifestOK, Downloading
  <2>6. LimitsOK'
    BY <2>0, Parts DEF LimitsOK
  <2>7. RowsOK' /\ VerifiedIsThere'
    BY <2>0, <2>2, <2>3 DEF RowsOK, IsThere, VerifiedIsThere
  <2>8. TagsOK'
    <3> HIDE DEF CurrentTag
    <3> QED
      BY <2>0, <2>3, Parts DEF TagsOK, Mixed
  <2>9. PinnedIsExact' /\ ReceiptNamesItsSources'
    BY <2>0, Parts DEF PinnedIsExact, ReceiptNamesItsSources, Whole
  <2> QED
    BY <2>4, <2>5, <2>6, <2>7, <2>8, <2>9, Parts DEF IInv
<1> QED
  BY <1>1, <1>2 DEF Begin

LEMMA CancelNextInv == ASSUME IInv, CancelNext PROVE IInv'
BY EndInv DEF CancelNext, Pause, Statuses

LEMMA UseFinalInv == ASSUME IInv, NEW a \in Assets, UseFinal(a) PROVE IInv'
<1>0. /\ pc = "next" /\ at \in 1..Len(Order) /\ a = This /\ HasState
      /\ final[a] # None
      /\ rows' = [rows EXCEPT ![a].done = TRUE, ![a].sha = final[a]]
      /\ at' = at + 1
      /\ UNCHANGED <<source, manifest, final, part, saved, corpora, receipt, pc, reply,
                     cancel, forgot>>
  BY Parts DEF UseFinal, Ready, SavedAssetIsValid, disk, TypeOK, HasState
<1>1. /\ rows' \in [Assets -> Row]
      /\ rows'[a].done /\ rows'[a].sha = final[a] /\ rows'[a].tag = rows[a].tag
      /\ \A b \in Assets \ {a} : rows'[b] = rows[b]
  BY ZenonT(30), <1>0, Parts DEF TypeOK, Row
<1>2. TypeOK'
  <2>1. at' \in 1..(Len(Order) + 1)
    BY <1>0, OrderType
  <2> QED
    BY <1>0, <1>1, <2>1, Parts DEF TypeOK
<1>3. PositionOK' /\ ManifestOK' /\ LimitsOK'
  BY <1>0, Parts DEF PositionOK, ManifestOK, LimitsOK, Downloading
<1>4. RowsOK'
  <2>1. \A b \in Assets : rows'[b].done => final'[b] # None /\ rows'[b].sha = final'[b]
    BY <1>0, <1>1, Parts DEF RowsOK, IsThere
  <2>2. \A b \in Assets : saved'.rows[b].done => rows'[b].done
    BY <1>0, <1>1, Parts DEF RowsOK
  <2>3. ASSUME NEW i \in 1..(at' - 1)
        PROVE  rows'[Order[i]].done
    <3>1. i \in 1..Len(Order) /\ Order[i] \in Assets /\ (i = at \/ i \in 1..(at - 1))
      BY <1>0, OrderType
    <3> QED
      BY <3>1, <1>0, <1>1, Parts DEF RowsOK, This
  <2> QED
    BY <1>0, <2>1, <2>2, <2>3, Parts DEF RowsOK, HasState, IsThere
<1>5. TagsOK'
  <2>1. \A b \in Assets : CurrentTag(b)' = CurrentTag(b)
    BY <1>0, <1>1 DEF CurrentTag, HasState
  <2> HIDE DEF CurrentTag
  <2> QED
    BY <1>0, <2>1, Parts DEF TagsOK, Mixed
<1>6. PinnedIsExact' /\ VerifiedIsThere' /\ ReceiptNamesItsSources'
  BY <1>0, Parts DEF PinnedIsExact, VerifiedIsThere, ReceiptNamesItsSources, Whole
<1> QED
  BY <1>2, <1>3, <1>4, <1>5, <1>6, Parts DEF IInv

(* A file that is not valid is not done: what is done stays. *)
LEMMA InvalidIsNotDone ==
    ASSUME IInv, HasState, manifest # None, NEW a \in Assets,
           ~SavedAssetIsValid(final[a], a, rows[a])
    PROVE  ~rows[a].done /\ ~saved.rows[a].done
<1>1. ASSUME rows[a].done
      PROVE  FALSE
  <2>1. final[a] # None /\ rows[a].sha = final[a] /\ Len(final[a]) <= MaxSize[a]
    BY <1>1, Parts DEF RowsOK, IsThere, LimitsOK
  <2>2. a \in Pinned => final[a] = Whole(manifest[a])
    BY <2>1, Parts DEF PinnedIsExact
  <2> QED
    BY <2>1, <2>2 DEF SavedAssetIsValid, ExpectedOf
<1> QED
  BY <1>1, Parts DEF RowsOK

(* Putting a good content in the place of a file that is not done. *)
LEMMA PlaceInv ==
    ASSUME IInv, HasState, manifest # None, pc \in {"next", "check"},
           at <= Len(Order), NEW a \in Assets, a = This,
           ~rows[a].done, ~saved.rows[a].done,
           NEW c \in Content, Len(c) <= MaxSize[a],
           a \in Pinned => c = Whole(manifest[a]),
           final' = [final EXCEPT ![a] = c],
           part' \in {part, [part EXCEPT ![a] = <<>>]},
           pc' = "record",
           UNCHANGED <<source, manifest, saved, corpora, receipt, at, rows, reply,
                       cancel, forgot>>
    PROVE  IInv'
<1>0. /\ c # None /\ final'[a] = c /\ final' \in [Assets -> Content \cup {None}]
      /\ \A b \in Assets \ {a} : final'[b] = final[b]
  BY Parts, AssetsAssumption DEF TypeOK
<1>1. /\ part' \in [Assets -> Content]
      /\ \A b \in Assets : part'[b] = part[b] \/ part'[b] = <<>>
  BY Parts, NothingYet DEF TypeOK
<1>2. TypeOK'
  BY <1>0, <1>1, Parts DEF TypeOK
<1>3. PositionOK'
  BY <1>0, Parts DEF PositionOK, Downloading, This
<1>4. ManifestOK'
  BY <1>0, Parts DEF ManifestOK
<1>5. LimitsOK'
  BY <1>0, <1>1, Parts, NothingYet, OrderType DEF LimitsOK
<1>6. RowsOK'
  BY <1>0, Parts DEF RowsOK, IsThere, HasState
<1>7. TagsOK'
  <2>1. \A b \in Assets : CurrentTag(b)' = CurrentTag(b)
    BY DEF CurrentTag, HasState
  <2>2. ASSUME NEW b \in Assets
        PROVE  /\ Mixed(part[b])' => Mixed(part[b])
               /\ \A i \in 1..Len(part'[b]) : part'[b] = part[b]
    BY <1>1, NothingYet DEF Mixed
  <2> HIDE DEF CurrentTag, Mixed
  <2> QED
    BY <2>1, <2>2, Parts DEF TagsOK
<1>8. PinnedIsExact'
  <2>1. \A b \in Pinned : Whole(manifest[b])' = Whole(manifest[b])
    BY DEF Whole
  <2> HIDE DEF Whole
  <2> QED
    BY <1>0, <2>1, OrderType, Parts DEF PinnedIsExact
<1>9. VerifiedIsThere' /\ ReceiptNamesItsSources'
  BY <1>0, Parts DEF VerifiedIsThere, ReceiptNamesItsSources, Whole
<1> QED
  BY <1>2, <1>3, <1>4, <1>5, <1>6, <1>7, <1>8, <1>9, Parts DEF IInv

(* While an asset is being looked at or received. *)
LEMMA ReadyFacts ==
    ASSUME IInv, NEW a \in Assets, Ready(a), ~SavedAssetIsValid(final[a], a, rows[a])
    PROVE  /\ HasState /\ manifest # None /\ at <= Len(Order) /\ pc = "next" /\ a = This
           /\ ~rows[a].done /\ ~saved.rows[a].done
<1>1. HasState /\ manifest # None /\ at <= Len(Order) /\ pc = "next" /\ a = This
  BY Parts DEF Ready, HasState, ManifestOK
<1> QED
  BY <1>1, InvalidIsNotDone

LEMMA ReusePinnedInv == ASSUME IInv, NEW a \in Assets, ReusePinned(a) PROVE IInv'
<1>1. Ready(a) /\ ~SavedAssetIsValid(final[a], a, rows[a])
  BY DEF ReusePinned
<1>2. PICK c \in Reusable(a) : final' = [final EXCEPT ![a] = c]
  BY DEF ReusePinned
<1>3. a \in Pinned /\ c = Whole(manifest[a]) /\ Len(c) <= MaxSize[a]
  BY <1>2 DEF Reusable, SavedAssetIsValid, ExpectedOf
<1>4. c \in Content
  BY <1>1, <1>3, ReadyFacts, PinnedContent, Parts
<1>5. /\ part' \in {part, [part EXCEPT ![a] = <<>>]} /\ pc' = "record"
      /\ UNCHANGED <<source, manifest, saved, corpora, receipt, at, rows, reply,
                     cancel, forgot>>
  BY DEF ReusePinned
<1> QED
  BY <1>1, <1>2, <1>3, <1>4, <1>5, ReadyFacts, PlaceInv

(* A .part file that is dropped, and the request for a new one. *)
LEMMA LookAtPartInv == ASSUME IInv, NEW a \in Assets, LookAtPart(a) PROVE IInv'
<1>0. /\ Ready(a) /\ ~SavedAssetIsValid(final[a], a, rows[a])
      /\ UNCHANGED <<source, manifest, saved, corpora, receipt, at, rows, reply,
                     cancel, forgot>>
  BY DEF LookAtPart
<1>1. /\ HasState /\ manifest # None /\ at <= Len(Order) /\ pc = "next" /\ a = This
      /\ ~rows[a].done /\ ~saved.rows[a].done
  BY <1>0, ReadyFacts
<1>2. CASE PartAccepted(a)
  <2>1. a \in Pinned /\ part[a] = Whole(manifest[a])
    BY <1>2 DEF PartAccepted, PartIsComplete
  <2>2. part[a] \in Content /\ Len(part[a]) <= MaxSize[a]
    BY Parts DEF TypeOK, LimitsOK
  <2>3. /\ final' = [final EXCEPT ![a] = part[a]] /\ pc' = "record"
        /\ part' \in {part, [part EXCEPT ![a] = <<>>]}
    BY <1>2 DEF LookAtPart
  <2> QED
    BY <1>0, <1>1, <2>1, <2>2, <2>3, PlaceInv
<1>3. CASE ~PartAccepted(a)
  <2>0. /\ final' = [final EXCEPT ![a] = None]
        /\ part' = [part EXCEPT ![a] = KeptPart(a)]
        /\ pc' = "request"
    BY <1>3 DEF LookAtPart
  <2>1. /\ final' \in [Assets -> Content \cup {None}] /\ final'[a] = None
        /\ \A b \in Assets \ {a} : final'[b] = final[b]
    BY <2>0, Parts DEF TypeOK
  <2>2. /\ part' \in [Assets -> Content]
        /\ \A b \in Assets : part'[b] = part[b] \/ part'[b] = <<>>
    BY <2>0, Parts, NothingYet DEF TypeOK, KeptPart
  <2>3. TypeOK'
    BY <1>0, <2>0, <2>1, <2>2, Parts DEF TypeOK
  <2>4. PositionOK' /\ ManifestOK'
    BY <1>0, <1>1, <2>0, <2>1, Parts, OrderType DEF PositionOK, ManifestOK, Downloading, This
  <2>5. LimitsOK'
    BY <2>1, <2>2, Parts, NothingYet, OrderType DEF LimitsOK
  <2>6. RowsOK' /\ VerifiedIsThere'
    BY <1>0, <1>1, <2>0, <2>1, Parts DEF RowsOK, IsThere, HasState, VerifiedIsThere
  <2>7. TagsOK'
    <3>1. \A b \in Assets : CurrentTag(b)' = CurrentTag(b)
      BY <1>0, <1>1, <2>0 DEF CurrentTag, HasState
    <3>2. ASSUME NEW b \in Assets
          PROVE  /\ Mixed(part[b])' => Mixed(part[b])
                 /\ \A i \in 1..Len(part'[b]) : part'[b] = part[b]
      BY <2>2, NothingYet DEF Mixed
    <3> HIDE DEF CurrentTag, Mixed
    <3> QED
      BY <1>0, <2>0, <3>1, <3>2, Parts DEF TagsOK
  <2>8. PinnedIsExact'
    <3>1. \A b \in Pinned : Whole(manifest[b])' = Whole(manifest[b])
      BY <1>0 DEF Whole
    <3> HIDE DEF Whole
    <3> QED
      BY <1>0, <2>1, <3>1, OrderType, Parts DEF PinnedIsExact
  <2>9. ReceiptNamesItsSources'
    BY <1>0, Parts DEF ReceiptNamesItsSources, Whole
  <2> QED
    BY <2>3, <2>4, <2>5, <2>6, <2>7, <2>8, <2>9, Parts DEF IInv
<1> QED
  BY <1>2, <1>3

(* The beginning of a reply.  If the part is kept and its tag is not lost, *)
(* the tag was sent and is the version's, and so is every block.           *)
LEMMA ReceiveInv ==
    ASSUME IInv, NEW a \in Assets, NEW v \in Versions, pc = "request", a = This,
           Receive(a, v),
           PartialReply(a, v) \/ FullReply(a, v),
           UNCHANGED <<source, manifest, final, corpora, receipt>>
    PROVE  IInv'
<1>0. /\ rows' = [rows EXCEPT ![a].tag = TagAfter(a, v)] /\ pc' = "body"
      /\ UNCHANGED <<saved, at, cancel>>
  BY DEF Receive
<1>1. /\ TagAfter(a, v) \in Versions \cup {None}
      /\ a \in Tagged => TagAfter(a, v) = v
      /\ a \notin Tagged => TagAfter(a, v) = rows[a].tag
  BY Parts DEF TagAfter, TypeOK, Row
<1>2. /\ rows' \in [Assets -> Row] /\ rows'[a].tag = TagAfter(a, v)
      /\ \A b \in Assets : rows'[b].done = rows[b].done /\ rows'[b].sha = rows[b].sha
      /\ \A b \in Assets \ {a} : rows'[b].tag = rows[b].tag
  BY <1>0, <1>1, Parts DEF TypeOK, Row
<1>3. /\ reply'.version = v
      /\ reply' \in [version : Versions \cup {None}, from : Nat]
  BY Parts DEF PartialReply, FullReply, TypeOK, Content
<1>4. /\ forgot' \in [Assets -> BOOLEAN]
      /\ \A b \in Assets : forgot[b] => forgot'[b]
  BY Parts DEF PartialReply, FullReply, TypeOK
<1>5. /\ part' \in [Assets -> Content]
      /\ \A b \in Assets : part'[b] = part[b] \/ part'[b] = <<>>
  BY Parts, NothingYet DEF PartialReply, FullReply, TypeOK
<1>6. TypeOK'
  BY <1>0, <1>2, <1>3, <1>4, <1>5, Parts DEF TypeOK
<1>7. PositionOK' /\ ManifestOK'
  BY <1>0, Parts DEF PositionOK, ManifestOK, Downloading, This
<1>8. LimitsOK'
  BY <1>5, Parts, NothingYet, OrderType DEF LimitsOK
<1>9. RowsOK' /\ VerifiedIsThere'
  <2>1. \A k \in 1..(at - 1) : Order[k] \in Assets
    BY Parts, OrderType DEF TypeOK
  <2> QED
    BY <1>0, <1>2, <2>1, Parts DEF RowsOK, IsThere, HasState, VerifiedIsThere
<1>10. \A b \in Assets : CurrentTag(b)' = rows'[b].tag /\ CurrentTag(b) = rows[b].tag
  BY <1>0 DEF CurrentTag, HasState
<1>11. ASSUME ~forgot'[a]
       PROVE  \A k \in 1..Len(part'[a]) : part'[a][k] = v
  <2>1. CASE PartialReply(a, v)
    <3>1. part' = part /\ rows[a].tag # None /\ ~forgot[a]
      BY <1>11, <2>1, Parts DEF PartialReply, TypeOK
    <3>2. rows[a].tag = v
      BY <2>1, <3>1 DEF PartialReply, Continues
    <3> QED
      BY <3>1, <3>2, <1>10, Parts DEF TagsOK
  <2>2. CASE FullReply(a, v)
    <3>1. part'[a] = <<>>
      BY <2>2, Parts DEF FullReply, TypeOK
    <3> QED
      BY <3>1, NothingYet
  <2> QED
    BY <2>1, <2>2
<1>12. ASSUME ~forgot'[a], a \notin Tagged
       PROVE  rows'[a].tag = None
  BY <1>1, <1>2, <1>10, <1>12, <1>4, Parts DEF TagsOK
<1>13. TagsOK'
  <2>1. ASSUME NEW b \in Assets \ Tagged, ~forgot'[b]
        PROVE  CurrentTag(b)' = None
    <3>1. CASE b = a
      BY <2>1, <3>1, <1>10, <1>12
    <3>2. CASE b # a
      <4>1. ~forgot[b] /\ rows'[b].tag = rows[b].tag
        BY <2>1, <3>2, <1>2, <1>4
      <4> QED
        BY <2>1, <4>1, <1>10, Parts DEF TagsOK
    <3> QED
      BY <3>1, <3>2
  <2>2. ASSUME NEW b \in Assets, ~forgot'[b]
        PROVE  /\ ~Mixed(part[b])'
               /\ CurrentTag(b)' # None =>
                     \A k \in 1..Len(part'[b]) : part'[b][k] = CurrentTag(b)'
    <3>1. CASE b = a
      BY <2>2, <3>1, <1>1, <1>2, <1>10, <1>11, <1>12 DEF Mixed
    <3>2. CASE b # a
      <4>1. ~forgot[b] /\ rows'[b].tag = rows[b].tag
        BY <2>2, <3>2, <1>2, <1>4
      <4>2. /\ ~Mixed(part[b])
            /\ rows[b].tag # None => \A k \in 1..Len(part[b]) : part[b][k] = rows[b].tag
        BY <4>1, <1>10, Parts DEF TagsOK
      <4> QED
        BY <4>1, <4>2, <1>5, <1>10, NothingYet DEF Mixed
    <3> QED
      BY <3>1, <3>2
  <2>3. This' = a
    BY <1>0 DEF This
  <2> HIDE DEF CurrentTag, Mixed, This
  <2> QED
    BY <2>1, <2>2, <2>3, <1>1, <1>2, <1>3, <1>11 DEF TagsOK
<1>14. PinnedIsExact' /\ ReceiptNamesItsSources'
  BY Parts DEF PinnedIsExact, ReceiptNamesItsSources, Whole
<1> QED
  BY <1>6, <1>7, <1>8, <1>9, <1>13, <1>14, Parts DEF IInv

LEMMA RequestInv == ASSUME IInv, NEW a \in Assets, Request(a) PROVE IInv'
<1>1. PICK v \in Versions : Reply(a, v)
  BY Parts DEF Request, TypeOK
<1>2. UNCHANGED <<source, manifest, final, corpora, receipt>>
  BY DEF Request
<1>3. CASE PartialReply(a, v) \/ FullReply(a, v)
  <2>1. pc = "request" /\ a = This /\ Receive(a, v)
    BY <1>3 DEF PartialReply, FullReply
  <2> QED
    BY <1>2, <1>3, <2>1, ReceiveInv
<1>4. CASE NothingLeftReply(a, v) \/ TooLongReply(a, v)
  <2>1. \E status \in Statuses : End(status)
    BY <1>4 DEF NothingLeftReply, TooLongReply, Break, Statuses
  <2>2. UNCHANGED <<part, forgot>>
    BY <1>4 DEF NothingLeftReply, TooLongReply
  <2> QED
    BY <1>2, <2>1, <2>2, EndInv
<1> QED
  BY <1>1, <1>3, <1>4 DEF Reply

LEMMA CancelBodyInv == ASSUME IInv, NEW a \in Assets, CancelBody(a) PROVE IInv'
BY EndInv DEF CancelBody, Pause, Statuses

(* A block is added: it is of the version that is being received. *)
LEMMA ChunkInv == ASSUME IInv, NEW a \in Assets, Chunk(a) PROVE IInv'
<1>0. /\ pc = "body" /\ a = This /\ HasState
      /\ UNCHANGED <<source, manifest, final, corpora, receipt, forgot>>
  BY DEF Chunk, Receiving, HasState
<1>1. CASE Len(part[a]) + 1 > MaxSize[a]
  <2>1. \E status \in Statuses : End(status)
    BY <1>1 DEF Chunk, Break, Statuses
  <2>2. UNCHANGED part
    BY <1>1 DEF Chunk
  <2> QED
    BY <1>0, <2>1, <2>2, EndInv
<1>2. CASE ~(Len(part[a]) + 1 > MaxSize[a])
  <2>0. /\ part' = [part EXCEPT ![a] = Append(@, reply.version)]
        /\ \/ /\ rows' = [rows EXCEPT ![a].done = FALSE]
              /\ saved' = [status |-> "downloading", rows |-> rows']
           \/ UNCHANGED <<rows, saved>>
        /\ UNCHANGED <<pc, at, reply, cancel>>
    BY <1>2 DEF Chunk, Save
  <2>1. reply.version \in Versions /\ part[a] \in Content /\ final[a] = None
    BY <1>0, Parts DEF TypeOK, TagsOK, PositionOK
  <2>2. /\ part' \in [Assets -> Content]
        /\ Len(part'[a]) = Len(part[a]) + 1
        /\ \A i \in 1..Len(part[a]) : part'[a][i] = part[a][i]
        /\ part'[a][Len(part[a]) + 1] = reply.version
        /\ \A b \in Assets \ {a} : part'[b] = part[b]
    BY <2>0, <2>1, Parts DEF TypeOK, Content
  <2>3. ~rows[a].done
    BY <2>1, Parts DEF RowsOK, IsThere
  <2>4. /\ rows' \in [Assets -> Row]
        /\ \A b \in Assets : /\ rows'[b].done = rows[b].done /\ rows'[b].sha = rows[b].sha
                             /\ rows'[b].tag = rows[b].tag
    <3>1. CASE rows' = [rows EXCEPT ![a].done = FALSE]
      <4>1. rows \in [Assets -> Row] /\ rows[a] \in Row
        BY Parts DEF TypeOK
      <4>2. rows' \in [Assets -> Row]
        BY <3>1, <4>1 DEF Row
      <4>3. \A b \in Assets : rows'[b].sha = rows[b].sha /\ rows'[b].tag = rows[b].tag
        BY <3>1, <4>1 DEF Row
      <4>4. rows'[a].done = FALSE /\ rows[a].done = FALSE
        BY <3>1, <4>1, <2>3 DEF Row
      <4>5. \A b \in Assets \ {a} : rows'[b] = rows[b]
        BY <3>1, <4>1
      <4> QED
        BY <4>2, <4>3, <4>4, <4>5
    <3>2. CASE UNCHANGED rows
      BY <3>2, Parts DEF TypeOK
    <3> QED
      BY <2>0, <3>1, <3>2
  <2>5. /\ saved' # None /\ saved' \in State
        /\ saved'.rows \in {saved.rows, rows'}
    <3>1. CASE rows' = [rows EXCEPT ![a].done = FALSE]
               /\ saved' = [status |-> "downloading", rows |-> rows']
      <4>1. saved' \in State
        BY <3>1, <2>4 DEF State, Statuses
      <4> QED
        BY <3>1, <4>1, AssetsAssumption
    <3>2. CASE UNCHANGED <<rows, saved>>
      BY <1>0, <3>2, Parts DEF RowsOK, TypeOK
    <3> QED
      BY <2>0, <3>1, <3>2
  <2>6. TypeOK'
    BY <1>0, <2>0, <2>2, <2>4, <2>5, Parts DEF TypeOK
  <2>7. PositionOK' /\ ManifestOK'
    BY <1>0, <2>0, Parts DEF PositionOK, ManifestOK, Downloading, This
  <2>8. LimitsOK'
    <3>1. MaxSize[a] \in Nat /\ Len(part[a]) \in Nat
      BY <2>1, OrderType DEF Content
    <3> QED
      BY <1>0, <1>2, <2>2, <3>1, Parts DEF LimitsOK
  <2>9. RowsOK' /\ VerifiedIsThere'
    <3>1. \A k \in 1..(at - 1) : Order[k] \in Assets
      BY Parts, OrderType DEF TypeOK
    <3>2. \A b \in Assets : saved'.rows[b].done => rows'[b].done
      BY <2>4, <2>5, <1>0, Parts DEF RowsOK
    <3>3. \A b \in Assets : rows'[b].done => final'[b] # None /\ rows'[b].sha = final'[b]
      BY <1>0, <2>4, Parts DEF RowsOK, IsThere
    <3>4. \A b \in Assets : saved'.rows[b].done =>
              final'[b] # None /\ final'[b] = saved'.rows[b].sha
      BY <1>0, <2>5, <3>2, <3>3, Parts DEF VerifiedIsThere, RowsOK
    <3> QED
      BY <1>0, <2>0, <2>4, <2>5, <3>1, <3>2, <3>3, <3>4, Parts
      DEF RowsOK, IsThere, HasState, VerifiedIsThere
  <2>10. \A b \in Assets : CurrentTag(b)' = rows'[b].tag /\ CurrentTag(b) = rows[b].tag
    BY <1>0, <2>0 DEF CurrentTag, HasState
  <2>11. ASSUME ~forgot[a]
         PROVE  /\ \A i \in 1..Len(part'[a]) : part'[a][i] = reply.version
                /\ a \in Tagged => rows[a].tag = reply.version
                /\ a \notin Tagged => rows[a].tag = None
    <3>1. /\ \A i \in 1..Len(part[a]) : part[a][i] = reply.version
          /\ a \in Tagged => rows[a].tag = reply.version
      BY <1>0, <2>11, Parts DEF TagsOK
    <3>2. a \notin Tagged => rows[a].tag = None
      BY <2>10, <2>11, Parts DEF TagsOK
    <3>3. \A i \in 1..(Len(part[a]) + 1) : i = Len(part[a]) + 1 \/ i \in 1..Len(part[a])
      BY <2>1 DEF Content
    <3> QED
      BY <2>2, <3>1, <3>2, <3>3
  <2>12. TagsOK'
    <3>1. \A b \in Assets \ Tagged : forgot[b] \/ CurrentTag(b)' = None
      BY <2>4, <2>10, Parts DEF TagsOK
    <3>2. ASSUME NEW b \in Assets, ~forgot[b]
          PROVE  /\ ~Mixed(part[b])'
                 /\ CurrentTag(b)' # None =>
                       \A k \in 1..Len(part'[b]) : part'[b][k] = CurrentTag(b)'
      <4>1. CASE b = a
        BY <3>2, <4>1, <2>4, <2>10, <2>11 DEF Mixed
      <4>2. CASE b # a
        BY <3>2, <4>2, <2>2, <2>4, <2>10, Parts DEF TagsOK, Mixed
      <4> QED
        BY <4>1, <4>2
    <3>3. This' = a /\ forgot' = forgot /\ reply' = reply
      BY <1>0, <2>0 DEF This
    <3> HIDE DEF CurrentTag, Mixed, This
    <3> QED
      BY <3>1, <3>2, <3>3, <2>1, <2>4, <2>11 DEF TagsOK
  <2>13. PinnedIsExact' /\ ReceiptNamesItsSources'
    BY <1>0, Parts DEF PinnedIsExact, ReceiptNamesItsSources, Whole
  <2> QED
    BY <2>6, <2>7, <2>8, <2>9, <2>12, <2>13, Parts DEF IInv
<1> QED
  BY <1>1, <1>2

LEMMA EndOfBodyInv == ASSUME IInv, NEW a \in Assets, EndOfBody(a) PROVE IInv'
<1>0. /\ pc = "body" /\ pc' = "check"
      /\ UNCHANGED <<source, manifest, final, part, saved, corpora, receipt, at, rows,
                     reply, cancel, forgot>>
  BY DEF EndOfBody, Receiving, disk
<1>1. TypeOK'
  BY <1>0, Parts DEF TypeOK
<1>2. PositionOK' /\ ManifestOK' /\ LimitsOK'
  BY <1>0, Parts DEF PositionOK, ManifestOK, LimitsOK, Downloading, This
<1>3. RowsOK'
  BY <1>0, Parts DEF RowsOK, IsThere, HasState
<1>4. TagsOK'
  BY <1>0, Parts DEF TagsOK, CurrentTag, HasState, Mixed
<1>5. PinnedIsExact' /\ VerifiedIsThere' /\ ReceiptNamesItsSources'
  BY <1>0, Parts DEF PinnedIsExact, VerifiedIsThere, ReceiptNamesItsSources, Whole
<1> QED
  BY <1>1, <1>2, <1>3, <1>4, <1>5, Parts DEF IInv

LEMMA PromoteInv == ASSUME IInv, NEW a \in Assets, Promote(a) PROVE IInv'
<1>0. /\ pc = "check" /\ a = This /\ HasState /\ manifest # None /\ at <= Len(Order)
      /\ final[a] = None
      /\ UNCHANGED <<source, manifest, corpora, receipt, forgot>>
  BY Parts DEF Promote, HasState, ManifestOK, PositionOK, Downloading
<1>1. CASE Accepted(a)
  <2>1. ~rows[a].done /\ ~saved.rows[a].done
    BY <1>0, Parts DEF RowsOK, IsThere
  <2>2. part[a] \in Content /\ Len(part[a]) <= MaxSize[a]
    BY Parts DEF TypeOK, LimitsOK
  <2>3. a \in Pinned => part[a] = Whole(manifest[a])
    BY <1>1 DEF Accepted
  <2>4. /\ final' = [final EXCEPT ![a] = part[a]] /\ pc' = "record"
        /\ part' \in {part, [part EXCEPT ![a] = <<>>]}
        /\ UNCHANGED <<saved, at, rows, reply, cancel>>
    BY <1>1 DEF Promote
  <2> QED
    BY <1>0, <2>1, <2>2, <2>3, <2>4, PlaceInv
<1>2. CASE ~Accepted(a)
  <2>1. \E status \in Statuses : End(status)
    BY <1>2, <1>0 DEF Promote, Break, Statuses
  <2>2. UNCHANGED <<final, part>>
    BY <1>2 DEF Promote
  <2> QED
    BY <1>0, <2>1, <2>2, EndInv
<1> QED
  BY <1>1, <1>2

(* The row of the promoted file is saved with the others. *)
LEMMA RecordInv == ASSUME IInv, NEW a \in Assets, Record(a) PROVE IInv'
<1>0. /\ pc = "record" /\ pc' = "next" /\ HasState /\ a = This
      /\ at \in 1..Len(Order) /\ at' = at + 1
      /\ final[a] # None
      /\ rows' = [rows EXCEPT ![a].done = TRUE, ![a].sha = final[a]]
      /\ saved' = [status |-> "downloading", rows |-> rows']
      /\ reply' = NoReply
      /\ UNCHANGED <<source, manifest, final, part, corpora, receipt, cancel, forgot>>
  <2>1. at \in 1..Len(Order)
    BY Parts, OrderType DEF Record, PositionOK, Downloading, TypeOK
  <2> QED
    BY <2>1, Parts DEF Record, RowsToSave, Save, PositionOK, HasState
<1>1. /\ rows' \in [Assets -> Row]
      /\ rows'[a].done /\ rows'[a].sha = final[a] /\ rows'[a].tag = rows[a].tag
      /\ \A b \in Assets \ {a} : rows'[b] = rows[b]
  BY ZenonT(30), <1>0, Parts DEF TypeOK, Row
<1>2. saved' \in State /\ saved' # None /\ saved'.rows = rows'
  <2>1. saved' \in State
    BY <1>0, <1>1 DEF State, Statuses
  <2> QED
    BY <1>0, <2>1, AssetsAssumption
<1>3. TypeOK'
  <2>1. at' \in 1..(Len(Order) + 1)
    BY <1>0, OrderType
  <2> QED
    BY <1>0, <1>1, <1>2, <2>1, NothingYet, Parts DEF TypeOK
<1>4. PositionOK' /\ ManifestOK' /\ LimitsOK'
  BY <1>0, Parts DEF PositionOK, ManifestOK, LimitsOK, Downloading
<1>5. \A b \in Assets : rows'[b].done => final'[b] # None /\ rows'[b].sha = final'[b]
  BY <1>0, <1>1, Parts DEF RowsOK, IsThere
<1>6. RowsOK' /\ VerifiedIsThere'
  <2>1. ASSUME NEW i \in 1..(at' - 1)
        PROVE  rows'[Order[i]].done
    <3>1. i \in 1..Len(Order) /\ Order[i] \in Assets /\ (i = at \/ i \in 1..(at - 1))
      BY <1>0, OrderType
    <3> QED
      BY <3>1, <1>0, <1>1, Parts DEF RowsOK, This
  <2> QED
    BY ZenonT(30), <1>0, <1>2, <1>5, <2>1 DEF RowsOK, HasState, IsThere, VerifiedIsThere
<1>7. TagsOK'
  <2>1. \A b \in Assets : CurrentTag(b)' = CurrentTag(b)
    BY <1>0, <1>1 DEF CurrentTag, HasState
  <2> HIDE DEF CurrentTag
  <2> QED
    BY <1>0, <2>1, Parts DEF TagsOK, Mixed
<1>8. PinnedIsExact' /\ ReceiptNamesItsSources'
  BY <1>0, Parts DEF PinnedIsExact, ReceiptNamesItsSources, Whole
<1> QED
  BY <1>2, <1>3, <1>4, <1>6, <1>7, <1>8, Parts DEF IInv

LEMMA BeginBuildInv == ASSUME IInv, BeginBuild PROVE IInv'
<1>0. /\ pc = "next" /\ pc' = "build" /\ at = Len(Order) + 1
      /\ saved' = [status |-> "building", rows |-> rows]
      /\ UNCHANGED <<source, manifest, final, part, corpora, receipt, at, rows, reply,
                     cancel, forgot>>
  BY Parts, OrderType DEF BeginBuild, Save, TypeOK
<1>1. saved' \in State /\ saved' # None /\ saved'.rows = rows
  <2>1. saved' \in State
    BY <1>0, Parts DEF State, Statuses, TypeOK
  <2> QED
    BY <1>0, <2>1, AssetsAssumption
<1>2. TypeOK'
  BY <1>0, <1>1, Parts DEF TypeOK
<1>3. PositionOK' /\ ManifestOK' /\ LimitsOK'
  BY <1>0, Parts DEF PositionOK, ManifestOK, LimitsOK, Downloading
<1>4. RowsOK' /\ VerifiedIsThere'
  BY <1>0, <1>1, Parts DEF RowsOK, IsThere, HasState, VerifiedIsThere
<1>5. TagsOK'
  <2>1. \A b \in Assets : CurrentTag(b)' = CurrentTag(b)
    BY <1>0 DEF CurrentTag, HasState
  <2> HIDE DEF CurrentTag
  <2> QED
    BY <1>0, <2>1, Parts DEF TagsOK, Mixed
<1>6. PinnedIsExact' /\ ReceiptNamesItsSources'
  BY <1>0, Parts DEF PinnedIsExact, ReceiptNamesItsSources, Whole
<1> QED
  BY <1>1, <1>2, <1>3, <1>4, <1>5, <1>6, Parts DEF IInv

(* When the last file is there they all are, as their rows say. *)
LEMMA AllAreThere ==
    ASSUME IInv, HasState, at = Len(Order) + 1
    PROVE  /\ final \in [Assets -> Content]
           /\ \A a \in Assets : rows[a].sha = final[a]
<1>1. ASSUME NEW a \in Assets
      PROVE  final[a] # None /\ rows[a].sha = final[a]
  <2>1. PICK i \in 1..Len(Order) : Order[i] = a
    BY AssetsAssumption
  <2>2. i \in 1..(at - 1)
    BY OrderType
  <2> QED
    BY <2>1, <2>2, Parts DEF RowsOK, IsThere
<1> QED
  BY <1>1, Parts DEF TypeOK

LEMMA BuildInv == ASSUME IInv, Build PROVE IInv'
<1>1. CASE \E status \in Statuses : End(status)
  BY <1>1, EndInv DEF Build
<1>2. CASE pc' = "persist" /\ UNCHANGED <<saved, at, rows, reply, cancel>>
  <2>0. /\ pc = "build"
        /\ UNCHANGED <<source, manifest, final, part, corpora, receipt, forgot>>
    BY DEF Build
  <2>1. TypeOK' /\ LimitsOK'
    BY <1>2, <2>0, Parts DEF TypeOK, LimitsOK
  <2>2. PositionOK' /\ ManifestOK'
    BY <1>2, <2>0, Parts DEF PositionOK, ManifestOK, Downloading
  <2>3. RowsOK' /\ TagsOK'
    BY <1>2, <2>0, Parts DEF RowsOK, IsThere, HasState, TagsOK, CurrentTag, Mixed
  <2>4. PinnedIsExact' /\ VerifiedIsThere' /\ ReceiptNamesItsSources'
    BY <1>2, <2>0, Parts DEF PinnedIsExact, VerifiedIsThere, ReceiptNamesItsSources, Whole
  <2> QED
    BY <2>1, <2>2, <2>3, <2>4, Parts DEF IInv
<1> QED
  BY <1>1, <1>2 DEF Build, Pause, Break, Statuses

LEMMA PersistInv == ASSUME IInv, Persist PROVE IInv'
<1>0. /\ pc = "persist" /\ pc' = "receipt" /\ corpora' = corpora \cup {final}
      /\ UNCHANGED <<source, manifest, final, part, saved, receipt, at, rows, reply,
                     cancel, forgot>>
  BY DEF Persist
<1>1. TypeOK' /\ LimitsOK'
  BY <1>0, Parts DEF TypeOK, LimitsOK
<1>2. PositionOK' /\ ManifestOK'
  BY <1>0, Parts DEF PositionOK, ManifestOK, Downloading
<1>3. RowsOK' /\ TagsOK'
  BY <1>0, Parts DEF RowsOK, IsThere, HasState, TagsOK, CurrentTag, Mixed
<1>4. PinnedIsExact' /\ VerifiedIsThere' /\ ReceiptNamesItsSources'
  BY <1>0, Parts DEF PinnedIsExact, VerifiedIsThere, ReceiptNamesItsSources, Whole
<1> QED
  BY <1>1, <1>2, <1>3, <1>4, Parts DEF IInv

(* The receipt: every row is that of a file that is there. *)
LEMMA WriteReceiptInv == ASSUME IInv, WriteReceipt PROVE IInv'
<1>0. /\ pc = "receipt" /\ pc' = "finish" /\ HasState /\ at = Len(Order) + 1
      /\ manifest # None /\ final \in corpora
      /\ receipt' = [sources |-> [a \in Assets |-> rows[a].sha], corpus |-> final]
      /\ UNCHANGED <<source, manifest, final, part, saved, corpora, at, rows, reply,
                     cancel, forgot>>
  BY Parts DEF WriteReceipt, HasState, PositionOK, ManifestOK
<1>1. /\ final \in [Assets -> Content]
      /\ [a \in Assets |-> rows[a].sha] = final
  BY <1>0, AllAreThere
<1>2. receipt' = [sources |-> final, corpus |-> final] /\ receipt' \in Receipt
  BY <1>0, <1>1 DEF Receipt
<1>3. TypeOK' /\ LimitsOK'
  BY <1>0, <1>2, Parts DEF TypeOK, LimitsOK
<1>4. PositionOK' /\ ManifestOK'
  BY <1>0, Parts DEF PositionOK, ManifestOK, Downloading
<1>5. RowsOK' /\ TagsOK'
  BY <1>0, Parts DEF RowsOK, IsThere, HasState, TagsOK, CurrentTag, Mixed
<1>6. PinnedIsExact' /\ VerifiedIsThere'
  BY <1>0, Parts DEF PinnedIsExact, VerifiedIsThere, Whole
<1>7. ReceiptNamesItsSources'
  <2>0. None \notin Content
    BY AssetsAssumption
  <2>1. \A a \in Pinned : final[a] # None
    BY <1>1, <2>0, OrderType
  <2> HIDE DEF Whole
  <2>2. \A a \in Pinned : final[a] = Whole(manifest[a])
    BY <2>1, Parts DEF PinnedIsExact
  <2>3. \A a \in Pinned : Whole(manifest[a])' = Whole(manifest[a])
    BY <1>0 DEF Whole
  <2> QED
    BY <1>0, <1>2, <2>2, <2>3 DEF ReceiptNamesItsSources
<1> QED
  BY <1>3, <1>4, <1>5, <1>6, <1>7, Parts DEF IInv

LEMMA FinishInv == ASSUME IInv, Finish PROVE IInv'
BY EndInv DEF Finish, Statuses

LEMMA RaiseInv == ASSUME IInv, Raise PROVE IInv'
<1>1. \E status \in Statuses : End(status)
  BY DEF Raise, Break, Statuses
<1> QED
  BY <1>1, EndInv DEF Raise

LEMMA CancelInv == ASSUME IInv, Cancel PROVE IInv'
<1>0. /\ cancel' = TRUE
      /\ UNCHANGED <<source, manifest, final, part, saved, corpora, receipt, pc, at,
                     rows, reply, forgot>>
  BY DEF Cancel, disk
<1>1. TypeOK'
  <2>1. cancel' \in BOOLEAN
    BY <1>0, Zenon
  <2> QED
    BY <1>0, <2>1, Parts DEF TypeOK
<1>2. PositionOK' /\ ManifestOK' /\ LimitsOK'
  BY <1>0, Parts DEF PositionOK, ManifestOK, LimitsOK, Downloading, This
<1>3. RowsOK' /\ TagsOK'
  BY <1>0, Parts DEF RowsOK, IsThere, HasState, TagsOK, CurrentTag, Mixed, This
<1>4. PinnedIsExact' /\ VerifiedIsThere' /\ ReceiptNamesItsSources'
  BY <1>0, Parts DEF PinnedIsExact, VerifiedIsThere, ReceiptNamesItsSources, Whole
<1> QED
  BY <1>1, <1>2, <1>3, <1>4, Parts DEF IInv

(* A death loses the tags that were not saved, and nothing else that the   *)
(* invariant speaks of.                                                    *)
LEMMA CrashInv == ASSUME IInv, Crash PROVE IInv'
<1>0. /\ pc' = "idle" /\ at' = 1 /\ rows' = InitialRows /\ reply' = NoReply
      /\ cancel' = FALSE
      /\ forgot' = [a \in Assets |-> forgot[a] \/ LostTag(a)]
      /\ UNCHANGED <<source, manifest, final, part, saved, corpora, receipt>>
  BY DEF Crash, disk
<1>1. TypeOK'
  <2>1. cancel' \in BOOLEAN /\ forgot' \in [Assets -> BOOLEAN]
    BY <1>0, Zenon
  <2>2. at' \in 1..(Len(Order) + 1)
    BY <1>0, OrderType
  <2> QED
    BY <1>0, <2>1, <2>2, NothingYet, Parts DEF TypeOK
<1>2. PositionOK' /\ ManifestOK' /\ LimitsOK'
  BY <1>0, Parts, OrderType DEF PositionOK, ManifestOK, LimitsOK, Downloading
<1>3. RowsOK'
  BY <1>0, NothingYet DEF RowsOK, IsThere, HasState
<1>4. TagsOK'
  <2>1. ASSUME NEW a \in Assets, ~forgot'[a]
        PROVE  ~forgot[a] /\ CurrentTag(a)' = CurrentTag(a)
    BY <2>1, <1>0, Parts DEF CurrentTag, HasState, LostTag, RowsOK
  <2>3. pc' # "body"
    BY <1>0
  <2> HIDE DEF CurrentTag
  <2> QED
    BY <1>0, <2>1, <2>3, Parts DEF TagsOK, Mixed
<1>5. PinnedIsExact' /\ VerifiedIsThere' /\ ReceiptNamesItsSources'
  BY <1>0, Parts DEF PinnedIsExact, VerifiedIsThere, ReceiptNamesItsSources, Whole
<1> QED
  BY <1>1, <1>2, <1>3, <1>4, <1>5, Parts DEF IInv

LEMMA SourceChangesInv == ASSUME IInv, NEW a \in Assets, SourceChanges(a) PROVE IInv'
<1>0. /\ source' \in [Assets -> Versions]
      /\ UNCHANGED <<manifest, final, part, saved, corpora, receipt, pc, at, rows,
                     reply, cancel, forgot>>
  BY Parts DEF SourceChanges, disk, memory, TypeOK
<1>1. TypeOK'
  BY <1>0, Parts DEF TypeOK
<1>2. PositionOK' /\ ManifestOK' /\ LimitsOK'
  BY <1>0, Parts DEF PositionOK, ManifestOK, LimitsOK, Downloading, This
<1>3. RowsOK' /\ TagsOK'
  BY <1>0, Parts DEF RowsOK, IsThere, HasState, TagsOK, CurrentTag, Mixed, This
<1>4. PinnedIsExact' /\ VerifiedIsThere' /\ ReceiptNamesItsSources'
  BY <1>0, Parts DEF PinnedIsExact, VerifiedIsThere, ReceiptNamesItsSources, Whole
<1> QED
  BY <1>1, <1>2, <1>3, <1>4, Parts DEF IInv

LEMMA StutterInv == ASSUME IInv, UNCHANGED vars PROVE IInv'
<1>0. UNCHANGED <<source, manifest, final, part, saved, corpora, receipt, pc, at, rows,
                  reply, cancel, forgot>>
  BY DEF vars, disk, memory
<1>1. TypeOK'
  BY <1>0, Parts DEF TypeOK
<1>2. PositionOK' /\ ManifestOK' /\ LimitsOK'
  BY <1>0, Parts DEF PositionOK, ManifestOK, LimitsOK, Downloading, This
<1>3. RowsOK' /\ TagsOK'
  BY <1>0, Parts DEF RowsOK, IsThere, HasState, TagsOK, CurrentTag, Mixed, This
<1>4. PinnedIsExact' /\ VerifiedIsThere' /\ ReceiptNamesItsSources'
  BY <1>0, Parts DEF PinnedIsExact, VerifiedIsThere, ReceiptNamesItsSources, Whole
<1> QED
  BY <1>1, <1>2, <1>3, <1>4, Parts DEF IInv

LEMMA NextInv == ASSUME IInv, [Next]_vars PROVE IInv'
<1>1. ASSUME NEW a \in Assets, Download(a)
      PROVE  IInv'
  BY <1>1, UseFinalInv, ReusePinnedInv, LookAtPartInv, RequestInv, CancelBodyInv,
     ChunkInv, EndOfBodyInv, PromoteInv, RecordInv DEF Download
<1>2. ASSUME Step
      PROVE  IInv'
  BY <1>2, <1>1, ResolveInv, BeginInv, CancelNextInv, BeginBuildInv, BuildInv,
     PersistInv, WriteReceiptInv, FinishInv DEF Step
<1> QED
  BY <1>2, StartInv, RaiseInv, CancelInv, CrashInv, SourceChangesInv, StutterInv
  DEF Next

-----------------------------------------------------------------------------
(* The invariant of install(): wherever it is cancelled, fails or dies, a  *)
(* row that is done is that of a file that is there, within its limit, and *)
(* the tag a resume would send is the one of every block of the .part      *)
(* file, or was lost.                                                      *)
THEOREM CorpusInvariant == Spec => []IInv
<1>1. Init => IInv
  BY InitInv
<1>2. IInv /\ [Next]_vars => IInv'
  BY NextInv
<1> QED
  BY <1>1, <1>2, PTL DEF Spec

(* A pinned file that took its place is the one that was pinned            *)
(* (_download and _reuse_pinned_asset, lines 511-545, 581-625).            *)
THEOREM PinnedFilesAreExact == Spec => []PinnedIsExact
<1>1. IInv => PinnedIsExact
  BY DEF IInv
<1> QED
  BY <1>1, CorpusInvariant, PTL

(* What state.json calls complete is there, with the recorded digest, also *)
(* after a crash between two writes (_download, lines 589-591).            *)
THEOREM VerifiedFilesAreThere == Spec => []VerifiedIsThere
<1>1. IInv => VerifiedIsThere
  BY DEF IInv
<1> QED
  BY <1>1, CorpusInvariant, PTL

(* A receipt names the files its corpus was built from, and follows it     *)
(* (install, lines 373-392).                                               *)
THEOREM ReceiptsNameTheirSources == Spec => []ReceiptNamesItsSources
<1>1. IInv => ReceiptNamesItsSources
  BY DEF IInv
<1> QED
  BY <1>1, CorpusInvariant, PTL

(* A .part file that is put together from two versions lost its tag        *)
(* (_download, lines 530-533, 557-563).                                    *)
THEOREM SplicesLostTheirTag == Spec => []SplicesNeedALostTag
<1>1. IInv => SplicesNeedALostTag
  BY Zenon DEF IInv, TagsOK, SplicesNeedALostTag
<1> QED
  BY <1>1, CorpusInvariant, PTL
================================================================================

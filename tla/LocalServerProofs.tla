-------------------------- MODULE LocalServerProofs --------------------------
(***************************************************************************)
(* The local server's process: the heavy work of its application service,  *)
(* and the monitor that ends the application.                              *)
(*                                                                         *)
(* For any threads, works and cache bounds: heavy work that excludes other *)
(* heavy work never runs beside it, requests for one answer share one      *)
(* calculation, what an admitted calculation needs is never refused, no    *)
(* future or lock outlives the calls it serves, nobody waits in a circle,  *)
(* and no cache outgrows its bound.  Three facts carry the proof: a thread *)
(* that loads for Draft Lab holds the activity lock, so nothing is         *)
(* admitted between its guard and its registration; a need is asked for    *)
(* while the calculation it serves is registered, so the guards that kept  *)
(* others out then still do; and what is needed lies lower than what needs *)
(* it.                                                                     *)
(*                                                                         *)
(* For any pages and times: the monitor ends nothing that is in use.  The  *)
(* server's memory of a page that is awake is never older than the page's  *)
(* own last ping, so a page that was heard is not stale.                   *)
(***************************************************************************)
EXTENDS HeavyWork, BrowserLifecycle, WellFoundedInduction, TLAPS

-----------------------------------------------------------------------------
(* Stacks of calls.                                                        *)

\* Parts of the Player Lab need parts of the Player Lab, others a season baseline.
NeedFits(work, need) ==
  \/ need.kind = "baseline" /\ work.kind \in {"dashboard", "search", "timing"}
  \/ need.kind = "catalog" /\ work.kind = "detail"
  \/ need.kind = "read" /\ work.kind \in {"detail", "catalog"}

\* How many calls may still lie above a call, itself included.
Depth(kind) ==
  IF kind = "detail" THEN 3
  ELSE IF kind \in {"catalog", "dashboard", "search", "timing"} THEN 2
  ELSE 1

\* What is needed lies lower than what needs it.
LEMMA NeedsDescend ==
  ASSUME NEW work, NEW need, NeedFits(work, need)
  PROVE  Depth(need.kind) < Depth(work.kind)
  BY DEF NeedFits, Depth

FittingFrame == {f \in Frame : \A j \in 1 .. Len(f.left) : NeedFits(f.work, f.left[j])}

\* The last call waits for the answer to the first of its needs.
InNeed(calls) == Last(calls).at = "work" /\ Last(calls).left # <<>>

Nested(calls) ==
  \A i \in 1 .. Len(calls) - 1 :
    /\ calls[i].at = "work" /\ calls[i].left # <<>>
    /\ Head(calls[i].left) = calls[i + 1].work

\* Every call is of a lower depth than the calls below it.
Descending(calls) ==
  \A i, j \in 1 .. Len(calls) : i < j => Depth(calls[j].work.kind) < Depth(calls[i].work.kind)

Stack(calls) == calls \in Seq(FittingFrame) /\ Nested(calls) /\ Descending(calls)

Working(f) == f.at \notin {"load", "wait"}

\* The i-th call is the calculation of w, not a wait for it.
Owner(calls, i, w) == i \in 1 .. Len(calls) /\ calls[i].work = w /\ Working(calls[i])

SameOwners(calls, later) == \A i \in Nat, w \in Works : Owner(later, i, w) <=> Owner(calls, i, w)

LEMMA PushedStack ==
  ASSUME NEW calls, Stack(calls), NEW f \in FittingFrame,
         calls = <<>> \/ (InNeed(calls) /\ f.work = Head(Last(calls).left))
  PROVE  /\ Stack(Append(calls, f))
         /\ Append(calls, f) # <<>>
         /\ Last(Append(calls, f)) = f
         /\ \A i \in Nat, w \in Works : Owner(Append(calls, f), i, w) <=>
              \/ Owner(calls, i, w)
              \/ i = Len(calls) + 1 /\ f.work = w /\ Working(f)
  <1> DEFINE new == Append(calls, f)
  <1>1. /\ new \in Seq(FittingFrame)
        /\ Len(new) = Len(calls) + 1
        /\ new[Len(new)] = f
        /\ \A i \in 1 .. Len(calls) : new[i] = calls[i]
    BY DEF Stack
  <1>2. Len(calls) \in Nat
    BY DEF Stack
  <1>3. ASSUME NEW i \in 1 .. Len(new) - 1
        PROVE  /\ new[i].at = "work" /\ new[i].left # <<>>
               /\ Head(new[i].left) = new[i + 1].work
    <2>1. i \in 1 .. Len(calls) /\ new[i] = calls[i]
      BY <1>1, <1>2
    <2>2. CASE i = Len(calls)
      BY <1>1, <2>1, <2>2 DEF InNeed, Last, Stack
    <2>3. CASE i # Len(calls)
      <3>1. i \in 1 .. Len(calls) - 1 /\ new[i + 1] = calls[i + 1]
        BY <1>1, <1>2, <2>1, <2>3
      <3> QED BY <2>1, <3>1 DEF Stack, Nested
    <2> QED BY <2>2, <2>3
  <1>7. Descending(new)
    <2> SUFFICES ASSUME NEW i \in 1 .. Len(new), NEW j \in 1 .. Len(new), i < j
                 PROVE  Depth(new[j].work.kind) < Depth(new[i].work.kind)
      BY DEF Descending
    <2>1. i \in 1 .. Len(calls) /\ new[i] = calls[i]
      BY <1>1, <1>2
    <2>2. CASE j # Len(new)
      <3>1. j \in 1 .. Len(calls) /\ new[j] = calls[j]
        BY <1>1, <1>2, <2>2
      <3> QED BY <2>1, <3>1 DEF Stack, Descending
    <2>3. CASE j = Len(new)
      <3> DEFINE last == Last(calls)
      <3>1. /\ Len(calls) \in 1 .. Len(calls) /\ last = calls[Len(calls)]
            /\ last.left # <<>> /\ f.work = Head(last.left) /\ last \in FittingFrame
        BY <1>2, <2>1 DEF InNeed, Last, Stack
      <3>2. 1 \in 1 .. Len(last.left) /\ Head(last.left) = last.left[1]
        BY <3>1 DEF FittingFrame, Frame
      <3>3. Depth(f.work.kind) < Depth(last.work.kind)
        BY <3>1, <3>2, NeedsDescend DEF FittingFrame
      <3>4. i = Len(calls) \/ Depth(last.work.kind) < Depth(calls[i].work.kind)
        BY <1>2, <2>1, <3>1 DEF Stack, Descending
      <3> HIDE DEF last
      <3> QED BY <1>1, <2>1, <2>3, <3>1, <3>3, <3>4 DEF Depth
    <2> QED BY <2>2, <2>3
  <1>4. Stack(new)
    BY <1>1, <1>3, <1>7 DEF Stack, Nested
  <1>5. new # <<>> /\ Last(new) = f
    BY <1>1, <1>2 DEF Last
  <1>6. ASSUME NEW i \in Nat, NEW w \in Works
        PROVE  Owner(new, i, w) <=>
                 \/ Owner(calls, i, w)
                 \/ i = Len(calls) + 1 /\ f.work = w /\ Working(f)
    <2> HIDE DEF new
    <2>1. CASE i \in 1 .. Len(calls)
      BY <2>1, <1>1, <1>2 DEF Owner
    <2>2. CASE i = Len(calls) + 1
      BY <2>2, <1>1, <1>2 DEF Owner
    <2>3. CASE i \notin 1 .. Len(calls) + 1
      BY <2>3, <1>1, <1>2 DEF Owner
    <2> QED BY <2>1, <2>2, <2>3, <1>2
  <1> QED BY <1>4, <1>5, <1>6

LEMMA PoppedStack ==
  ASSUME NEW calls, Stack(calls), calls # <<>>
  PROVE  /\ Stack(Front(calls))
         /\ Front(calls) = <<>> \/ InNeed(Front(calls))
         /\ \A i \in Nat, w \in Works :
              Owner(Front(calls), i, w) <=> Owner(calls, i, w) /\ i # Len(calls)
  <1>1. /\ Len(calls) \in Nat \ {0}
        /\ Front(calls) \in Seq(FittingFrame)
        /\ Len(Front(calls)) = Len(calls) - 1
        /\ \A i \in 1 .. Len(calls) - 1 : Front(calls)[i] = calls[i]
    <2> DEFINE n == Len(calls) - 1
    <2>1. calls \in Seq(FittingFrame) /\ Len(calls) \in Nat \ {0}
      BY DEF Stack
    <2>2. n \in Nat /\ \A i \in 1 .. n : calls[i] \in FittingFrame
      BY <2>1
    <2>3. Front(calls) = SubSeq(calls, 1, n)
      BY DEF Front
    <2> HIDE DEF n
    <2>4. SubSeq(calls, 1, n) \in Seq(FittingFrame)
      BY <2>1, <2>2
    <2>5. Len(SubSeq(calls, 1, n)) = n
      BY <2>1, <2>2
    <2>6. \A i \in 1 .. n : SubSeq(calls, 1, n)[i] = calls[i]
      BY <2>1, <2>2
    <2> QED BY <2>1, <2>3, <2>4, <2>5, <2>6 DEF n
  <1>2. Nested(Front(calls)) /\ Descending(Front(calls))
    <2> DEFINE front == Front(calls)
    <2>1. /\ Len(front) = Len(calls) - 1 /\ Len(calls) \in Nat \ {0}
          /\ \A i \in 1 .. Len(calls) - 1 : front[i] = calls[i]
      BY <1>1
    <2> HIDE DEF front
    <2>2. Nested(front)
      <3> SUFFICES ASSUME NEW i \in 1 .. Len(calls) - 2
                   PROVE  /\ calls[i].at = "work" /\ calls[i].left # <<>>
                          /\ Head(calls[i].left) = calls[i + 1].work
        BY <2>1 DEF Nested
      <3> QED BY <2>1 DEF Stack, Nested
    <2>3. Descending(front)
      BY <2>1 DEF Stack, Descending
    <2> QED BY <2>2, <2>3 DEF front
  <1>3. ASSUME Front(calls) # <<>>
        PROVE  InNeed(Front(calls))
    <2>1. Len(calls) - 1 \in 1 .. Len(calls) - 1
      BY <1>1, <1>3
    <2> QED BY <2>1, <1>1 DEF InNeed, Last, Stack, Nested
  <1>4. ASSUME NEW i \in Nat, NEW w \in Works
        PROVE  Owner(Front(calls), i, w) <=> Owner(calls, i, w) /\ i # Len(calls)
    <2>1. CASE i \in 1 .. Len(calls) - 1
      BY <2>1, <1>1 DEF Owner
    <2>2. CASE i \notin 1 .. Len(calls) - 1
      BY <2>2, <1>1 DEF Owner
    <2> QED BY <2>1, <2>2
  <1> QED BY <1>1, <1>2, <1>3, <1>4 DEF Stack

\* Changing the last call; it stays a call for the same work.
LEMMA ChangedStack ==
  ASSUME NEW calls, Stack(calls), calls # <<>>, NEW f \in FittingFrame,
         f.work = Last(calls).work
  PROVE  /\ Stack([calls EXCEPT ![Len(calls)] = f])
         /\ [calls EXCEPT ![Len(calls)] = f] # <<>>
         /\ Last([calls EXCEPT ![Len(calls)] = f]) = f
         /\ \A i \in Nat, w \in Works : Owner([calls EXCEPT ![Len(calls)] = f], i, w) <=>
              \/ Owner(calls, i, w) /\ i # Len(calls)
              \/ i = Len(calls) /\ f.work = w /\ Working(f)
  <1> DEFINE new == [calls EXCEPT ![Len(calls)] = f]
  <1>1. Len(calls) \in Nat \ {0}
    BY DEF Stack
  <1>2. /\ new \in Seq(FittingFrame)
        /\ Len(new) = Len(calls)
        /\ new[Len(calls)] = f
        /\ \A i \in 1 .. Len(calls) - 1 : new[i] = calls[i]
    BY <1>1 DEF Stack
  <1>3. ASSUME NEW i \in Nat, NEW w \in Works
        PROVE  Owner(new, i, w) <=>
                 \/ Owner(calls, i, w) /\ i # Len(calls)
                 \/ i = Len(calls) /\ f.work = w /\ Working(f)
    <2> HIDE DEF new
    <2>1. CASE i \in 1 .. Len(calls) - 1
      BY <2>1, <1>1, <1>2 DEF Owner
    <2>2. CASE i = Len(calls)
      BY <2>2, <1>1, <1>2 DEF Owner
    <2>3. CASE i \notin 1 .. Len(calls)
      BY <2>3, <1>1, <1>2 DEF Owner
    <2> QED BY <2>1, <2>2, <2>3, <1>1
  <1>5. \A i \in 1 .. Len(calls) : new[i].work = calls[i].work
    BY <1>1, <1>2 DEF Last
  <1>6. Nested(new)
    <2> SUFFICES ASSUME NEW i \in 1 .. Len(calls) - 1
                 PROVE  /\ new[i].at = "work" /\ new[i].left # <<>>
                        /\ Head(new[i].left) = new[i + 1].work
      BY <1>2 DEF Nested
    <2>1. new[i] = calls[i] /\ i + 1 \in 1 .. Len(calls)
      BY <1>1, <1>2
    <2>2. new[i + 1].work = calls[i + 1].work
      BY <1>5, <2>1
    <2> HIDE DEF new
    <2> QED BY <2>1, <2>2 DEF Stack, Nested
  <1>7. Descending(new)
    <2> HIDE DEF new
    <2> QED BY <1>2, <1>5 DEF Stack, Descending
  <1>4. Stack(new) /\ new # <<>> /\ Last(new) = f
    BY <1>1, <1>2, <1>6, <1>7 DEF Stack, Last
  <1> QED BY <1>3, <1>4

LEMMA LastIsFrame ==
  ASSUME NEW calls, Stack(calls), calls # <<>>
  PROVE  /\ Last(calls) \in FittingFrame
         /\ Last(calls) \in Frame
         /\ Len(calls) \in Nat \ {0}
         /\ \A w \in Works :
              Owner(calls, Len(calls), w) <=> Last(calls).work = w /\ Working(Last(calls))
  <1>1. Len(calls) \in Nat \ {0} /\ Last(calls) \in FittingFrame
    BY DEF Stack, Last
  <1> QED BY <1>1 DEF Owner, Last, FittingFrame

\* The last call moves on in its own work.
LEMMA MovedStack ==
  ASSUME NEW calls, Stack(calls), calls # <<>>, NEW f \in FittingFrame,
         f.work = Last(calls).work, Working(f), Working(Last(calls))
  PROVE  SameOwners(calls, [calls EXCEPT ![Len(calls)] = f])
  BY ChangedStack, LastIsFrame DEF SameOwners

LEMMA ReturnedStack ==
  ASSUME NEW calls, Stack(calls), calls = <<>> \/ Last(calls).at \in {"work", "build"},
         NEW good \in BOOLEAN,
         good => calls = <<>> \/ InNeed(calls)
  PROVE  /\ Stack(Returned(calls, good))
         /\ Returned(calls, good) # <<>> => Last(Returned(calls, good)).at # "load"
         /\ SameOwners(calls, Returned(calls, good))
  <1>1. CASE calls = <<>>
    BY <1>1 DEF Returned, SameOwners
  <1>2. CASE calls # <<>> /\ good
    <2> DEFINE f == [Last(calls) EXCEPT !.left = Tail(@)]
    <2>1. Returned(calls, good) = [calls EXCEPT ![Len(calls)] = f]
      BY <1>2 DEF Returned, Last
    <2>2. /\ Last(calls).left \in Seq(Works) /\ Last(calls).left # <<>>
          /\ \A j \in 1 .. Len(Last(calls).left) :
               NeedFits(Last(calls).work, Last(calls).left[j])
      BY <1>2, LastIsFrame DEF InNeed, FittingFrame, Frame
    <2>3. /\ Tail(Last(calls).left) \in Seq(Works)
          /\ Len(Tail(Last(calls).left)) = Len(Last(calls).left) - 1
          /\ Len(Last(calls).left) \in Nat \ {0}
          /\ \A j \in 1 .. Len(Last(calls).left) - 1 :
               Tail(Last(calls).left)[j] = Last(calls).left[j + 1]
      BY <2>2
    <2>4. \A j \in 1 .. Len(Tail(Last(calls).left)) :
            NeedFits(Last(calls).work, Tail(Last(calls).left)[j])
      BY <2>2, <2>3
    <2>5. f \in Frame /\ f.at = "work" /\ f.work = Last(calls).work
            /\ f.left = Tail(Last(calls).left)
      BY <1>2, <2>3, LastIsFrame DEF InNeed, Frame
    <2>6. Working(Last(calls)) /\ Working(f)
      BY <1>2, <2>5 DEF InNeed, Working
    <2> HIDE DEF f
    <2>7. f \in FittingFrame
      BY <2>4, <2>5 DEF FittingFrame
    <2> QED BY <2>1, <2>5, <2>6, <2>7, <1>2, ChangedStack, MovedStack
  <1>3. CASE calls # <<>> /\ ~good
    <2> DEFINE place == Ending(Last(calls).work.kind)
               f == [Last(calls) EXCEPT !.at = place, !.good = FALSE]
    <2>1. Returned(calls, good) = [calls EXCEPT ![Len(calls)] = f]
      BY <1>3 DEF Returned, Last
    <2>2. place \in Places /\ place \notin {"load", "wait"}
      BY DEF Ending, Places
    <2>3. f \in Frame /\ f.at = place /\ f.work = Last(calls).work /\ f.left = Last(calls).left
      BY <2>2, <1>3, LastIsFrame DEF Frame
    <2>4. Working(Last(calls)) /\ Working(f)
      BY <1>3, <2>2, <2>3 DEF Working
    <2>5. \A j \in 1 .. Len(Last(calls).left) : NeedFits(Last(calls).work, Last(calls).left[j])
      BY <1>3, LastIsFrame DEF FittingFrame
    <2> HIDE DEF f
    <2>6. f \in FittingFrame
      BY <2>3, <2>5 DEF FittingFrame
    <2>7. f.at # "load"
      BY <2>2, <2>3
    <2> HIDE DEF place
    <2>8. SameOwners(calls, [calls EXCEPT ![Len(calls)] = f])
      BY <2>3, <2>4, <2>6, <1>3, MovedStack
    <2>9. LET new == [calls EXCEPT ![Len(calls)] = f]
          IN Stack(new) /\ Last(new) = f
      BY <2>3, <2>6, <1>3, ChangedStack
    <2> QED BY <2>1, <2>7, <2>8, <2>9
  <1> QED BY <1>1, <1>2, <1>3

-----------------------------------------------------------------------------
(* The invariant.                                                          *)

Statuses == {"none", "pending", "done", "failed"}

FutureTypes == future \in [Works -> Statuses]

Stacks == frames \in [Threads -> Seq(FittingFrame)] /\ \A t \in Threads : Stack(frames[t])

LoadsHold == \A t \in Threads : IsAt(t, "load") => activity = t

NoAssists == \A w \in Underway : w.kind \notin Assists

OwnersAreUnderway ==
  \A t \in Threads, i \in Nat, w \in Works : Owner(frames[t], i, w) => w \in Underway

UnderwayIsOwned ==
  \A w \in Underway : \E t \in Threads, i \in Nat : Owner(frames[t], i, w)

SingleOwners ==
  \A t, u \in Threads, i, j \in Nat, w \in Works :
    Owner(frames[t], i, w) /\ Owner(frames[u], j, w) => t = u /\ i = j

WorkInv ==
  /\ FutureTypes
  /\ Stacks
  /\ LoadsHold
  /\ NoAssists
  /\ OwnersAreUnderway
  /\ UnderwayIsOwned
  /\ SingleOwners
  /\ ExclusiveWork

LEMMA WorkInvInit == Init => WorkInv
  <1> SUFFICES ASSUME Init PROVE WorkInv
    OBVIOUS
  <1>1. FutureTypes /\ Underway = {} /\ NoAssists
    BY DEF Init, FutureTypes, Statuses, Underway, NoAssists
  <1>2. \A t \in Threads : frames[t] = <<>>
    BY DEF Init
  <1>3. Stacks
    BY <1>2 DEF Init, Stacks, Stack, Nested, Descending
  <1>4. \A t \in Threads : ~IsAt(t, "load")
    BY <1>2 DEF IsAt
  <1>5. \A t \in Threads, i \in Nat, w \in Works : ~Owner(frames[t], i, w)
    BY <1>2 DEF Owner
  <1>6. ExclusiveWork
    BY <1>1, <1>4 DEF ExclusiveWork
  <1> QED BY <1>1, <1>3, <1>4, <1>5, <1>6
          DEF WorkInv, LoadsHold, OwnersAreUnderway, UnderwayIsOwned, SingleOwners

-----------------------------------------------------------------------------
(* Steps that start and end nothing.                                       *)

NoNewLoad == \A u \in Threads : IsAt(u, "load")' => IsAt(u, "load") /\ Top(u)' = Top(u)

OwnersStay == \A u \in Threads : SameOwners(frames[u], frames'[u])

LEMMA StackOf ==
  ASSUME Stacks, NEW t \in Threads
  PROVE  Stack(frames[t])
  BY DEF Stacks, Stack

LEMMA OneThreadMoves ==
  ASSUME Stacks, NEW t \in Threads, NEW calls,
         frames' = [frames EXCEPT ![t] = calls],
         Stack(calls), calls # <<>> => Last(calls).at # "load"
  PROVE  /\ Stacks'
         /\ NoNewLoad
         /\ ~IsAt(t, "load")'
         /\ SameOwners(frames[t], calls) => OwnersStay
  <1>1. /\ frames' \in [Threads -> Seq(FittingFrame)]
        /\ frames'[t] = calls
        /\ \A u \in Threads \ {t} : frames'[u] = frames[u]
    BY DEF Stacks, Stack
  <1>2. Stacks'
    BY <1>1 DEF Stacks, Stack
  <1>3. ~IsAt(t, "load")'
    BY <1>1 DEF IsAt, Top
  <1>4. NoNewLoad
    BY <1>1, <1>3 DEF NoNewLoad, IsAt, Top
  <1>5. ASSUME SameOwners(frames[t], calls), NEW u \in Threads
        PROVE  SameOwners(frames[u], frames'[u])
    BY <1>1, <1>5 DEF SameOwners
  <1> QED BY <1>2, <1>3, <1>4, <1>5 DEF OwnersStay

LEMMA QuietStep ==
  ASSUME WorkInv, Stacks', FutureTypes', NoNewLoad, OwnersStay,
         Underway' = Underway, activity' = activity \/ LoadsHold'
  PROVE  WorkInv'
  <1> USE DEF WorkInv
  <1>1. LoadsHold'
    BY DEF LoadsHold, NoNewLoad
  <1>2. NoAssists'
    BY DEF NoAssists
  <1>3. \A t \in Threads, i \in Nat, w \in Works : Owner(frames'[t], i, w) <=> Owner(frames[t], i, w)
    BY DEF OwnersStay, SameOwners
  <1>4. OwnersAreUnderway'
    <2> SUFFICES ASSUME NEW t \in Threads, NEW i \in Nat, NEW w \in Works, Owner(frames'[t], i, w)
                 PROVE  w \in Underway'
      BY DEF OwnersAreUnderway
    <2> QED BY <1>3 DEF OwnersAreUnderway
  <1>5. SingleOwners'
    <2> SUFFICES ASSUME NEW t \in Threads, NEW u \in Threads, NEW i \in Nat, NEW j \in Nat,
                        NEW w \in Works, Owner(frames'[t], i, w), Owner(frames'[u], j, w)
                 PROVE  t = u /\ i = j
      BY DEF SingleOwners
    <2> QED BY <1>3 DEF SingleOwners
  <1>6. Running' = Running
    BY DEF Running
  <1>7. ExclusiveWork'
    BY <1>6 DEF ExclusiveWork, NoNewLoad
  <1>8. UnderwayIsOwned'
    <2> SUFFICES ASSUME NEW w \in Underway
                 PROVE  \E t \in Threads, i \in Nat : Owner(frames'[t], i, w)
      BY DEF UnderwayIsOwned
    <2>1. w \in Works
      BY DEF Underway
    <2>2. PICK t \in Threads, i \in Nat : Owner(frames[t], i, w)
      BY DEF UnderwayIsOwned
    <2>3. Owner(frames'[t], i, w)
      BY <1>3, <2>1, <2>2
    <2> QED BY <2>3
  <1> QED BY <1>1, <1>2, <1>4, <1>5, <1>7, <1>8

\* A thread asks for the work it serves, or for the first of its needs.
LEMMA AskedFor ==
  ASSUME NEW t \in Threads, NEW w \in Works, Asks(t, w)
  PROVE  frames[t] = <<>> \/ (InNeed(frames[t]) /\ w = Head(Last(frames[t]).left))
  <1>1. CASE frames[t] # <<>>
    <2>1. Top(t).at = "work" /\ Top(t).left # <<>> /\ w = Head(Top(t).left)
      BY <1>1 DEF Asks
    <2> QED BY <2>1 DEF InNeed, Top
  <1> QED BY <1>1

LEMMA NoFutureMoves ==
  ASSUME WorkInv, UNCHANGED future
  PROVE  FutureTypes' /\ Underway' = Underway
  BY DEF WorkInv, FutureTypes, Underway

LEMMA FindKeptStep ==
  ASSUME WorkInv, NEW t \in Threads, NEW w \in Works, FindKept(t, w)
  PROVE  WorkInv'
  <1> DEFINE calls == Returned(frames[t], TRUE)
  <1>1. Stack(frames[t])
    BY StackOf DEF WorkInv
  <1>2. frames[t] = <<>> \/ InNeed(frames[t])
    BY DEF FindKept, Asks, InNeed, Top
  <1>3. frames[t] = <<>> \/ Last(frames[t]).at \in {"work", "build"}
    BY <1>2 DEF InNeed
  <1>4. /\ Stack(calls)
        /\ calls # <<>> => Last(calls).at # "load"
        /\ SameOwners(frames[t], calls)
    BY <1>1, <1>2, <1>3, ReturnedStack
  <1>5. frames' = [frames EXCEPT ![t] = calls] /\ UNCHANGED <<future, activity>>
    BY DEF FindKept
  <1> HIDE DEF calls
  <1>6. Stacks' /\ NoNewLoad /\ OwnersStay
    BY <1>4, <1>5, OneThreadMoves DEF WorkInv
  <1> QED BY <1>5, <1>6, NoFutureMoves, QuietStep

LEMMA JoinStep ==
  ASSUME WorkInv, NEW t \in Threads, NEW w \in Works, Join(t, w)
  PROVE  WorkInv'
  <1>1. Stack(frames[t])
    BY StackOf DEF WorkInv
  <1>2. frames[t] = <<>> \/ (InNeed(frames[t]) /\ w = Head(Last(frames[t]).left))
    BY AskedFor DEF Join
  <1>3. UNCHANGED <<future, activity>>
    BY DEF Join
  <1>4. CASE future[w] = "pending"
    <2> DEFINE f == [work |-> w, at |-> "wait", left |-> <<>>, good |-> TRUE]
               calls == Append(frames[t], f)
    <2>1. f \in FittingFrame /\ f.work = w /\ f.at = "wait" /\ ~Working(f)
      BY DEF FittingFrame, Frame, Places, Working
    <2>2. frames' = [frames EXCEPT ![t] = calls]
      BY <1>4 DEF Join
    <2> HIDE DEF f
    <2>3. /\ Stack(calls) /\ Last(calls) = f
          /\ \A i \in Nat, x \in Works : Owner(calls, i, x) <=>
               \/ Owner(frames[t], i, x)
               \/ i = Len(frames[t]) + 1 /\ f.work = x /\ Working(f)
      BY <1>1, <1>2, <2>1, PushedStack
    <2>4. SameOwners(frames[t], calls)
      BY <2>1, <2>3 DEF SameOwners
    <2>5. Last(calls).at # "load"
      BY <2>1, <2>3
    <2> HIDE DEF calls
    <2>6. Stacks' /\ NoNewLoad /\ OwnersStay
      BY <2>2, <2>3, <2>4, <2>5, OneThreadMoves DEF WorkInv
    <2> QED BY <1>3, <2>6, NoFutureMoves, QuietStep
  <1>5. CASE future[w] # "pending"
    <2> DEFINE good == future[w] = "done"
               calls == Returned(frames[t], good)
    <2>1. frames[t] = <<>> \/ Last(frames[t]).at \in {"work", "build"}
      BY <1>2 DEF InNeed
    <2>2. good \in BOOLEAN
      OBVIOUS
    <2>3. frames' = [frames EXCEPT ![t] = calls]
      BY <1>5 DEF Join
    <2> HIDE DEF good
    <2>4. /\ Stack(calls)
          /\ calls # <<>> => Last(calls).at # "load"
          /\ SameOwners(frames[t], calls)
      BY <1>1, <1>2, <2>1, <2>2, ReturnedStack
    <2> HIDE DEF calls
    <2>5. Stacks' /\ NoNewLoad /\ OwnersStay
      BY <2>3, <2>4, OneThreadMoves DEF WorkInv
    <2> QED BY <1>3, <2>5, NoFutureMoves, QuietStep
  <1> QED BY <1>4, <1>5

\* An answer that is an error: a refusal, or what a calculation raises.
LEMMA ErrorStep ==
  ASSUME WorkInv, NEW t \in Threads,
         frames[t] = <<>> \/ Last(frames[t]).at \in {"work", "build"},
         frames' = [frames EXCEPT ![t] = Returned(frames[t], FALSE)],
         UNCHANGED <<future, activity>>
  PROVE  WorkInv'
  <1> DEFINE calls == Returned(frames[t], FALSE)
  <1>1. Stack(frames[t])
    BY StackOf DEF WorkInv
  <1>2. /\ Stack(calls)
        /\ calls # <<>> => Last(calls).at # "load"
        /\ SameOwners(frames[t], calls)
    BY <1>1, ReturnedStack
  <1>3. frames' = [frames EXCEPT ![t] = calls]
    OBVIOUS
  <1> HIDE DEF calls
  <1>4. Stacks' /\ NoNewLoad /\ OwnersStay
    BY <1>2, <1>3, OneThreadMoves DEF WorkInv
  <1> QED BY <1>4, NoFutureMoves, QuietStep

\* The last call, a calculation, goes to another place of its own.
LEMMA MovedCall ==
  ASSUME WorkInv, NEW t \in Threads, frames[t] # <<>>, Working(Top(t)),
         NEW place \in Places, place \notin {"load", "wait"}
  PROVE  LET calls == [frames[t] EXCEPT ![Len(frames[t])].at = place]
         IN /\ Stack(calls) /\ calls # <<>>
            /\ Last(calls).at # "load"
            /\ SameOwners(frames[t], calls)
  <1> DEFINE f == [Top(t) EXCEPT !.at = place]
  <1>1. Stack(frames[t])
    BY StackOf DEF WorkInv
  <1>2. Top(t) \in FittingFrame
    BY <1>1, LastIsFrame DEF Top
  <1>3. f \in FittingFrame /\ f.work = Top(t).work /\ f.at = place
    BY <1>2 DEF FittingFrame, Frame
  <1>4. [frames[t] EXCEPT ![Len(frames[t])].at = place] = [frames[t] EXCEPT ![Len(frames[t])] = f]
    BY DEF Top, Last
  <1>5. Working(f)
    BY <1>3 DEF Working
  <1> HIDE DEF f
  <1>6. LET calls == [frames[t] EXCEPT ![Len(frames[t])] = f]
        IN Stack(calls) /\ calls # <<>> /\ Last(calls) = f
    BY <1>1, <1>3, ChangedStack DEF Top
  <1>7. SameOwners(frames[t], [frames[t] EXCEPT ![Len(frames[t])] = f])
    BY <1>1, <1>3, <1>5, MovedStack DEF Top
  <1> QED BY <1>3, <1>4, <1>6, <1>7

LEMMA GoToStep ==
  ASSUME WorkInv, NEW t \in Threads, frames[t] # <<>>, Working(Top(t)),
         NEW place \in Places, place \notin {"load", "wait"}, GoTo(t, place),
         UNCHANGED <<future, activity>>
  PROVE  WorkInv'
  <1> DEFINE calls == [frames[t] EXCEPT ![Len(frames[t])].at = place]
  <1>1. /\ Stack(calls) /\ calls # <<>>
        /\ Last(calls).at # "load"
        /\ SameOwners(frames[t], calls)
    BY MovedCall
  <1>2. frames' = [frames EXCEPT ![t] = calls]
    BY DEF GoTo, WorkInv, Stacks
  <1> HIDE DEF calls
  <1>3. Stacks' /\ NoNewLoad /\ OwnersStay
    BY <1>1, <1>2, OneThreadMoves DEF WorkInv
  <1> QED BY <1>3, NoFutureMoves, QuietStep

LEMMA EnterStep ==
  ASSUME WorkInv, NEW t \in Threads, Enter(t)
  PROVE  WorkInv'
  <1>1. frames[t] # <<>> /\ Working(Top(t))
    BY DEF Enter, IsAt, Working
  <1>2. "build" \in Places /\ "build" \notin {"load", "wait"}
    BY DEF Places
  <1> QED BY <1>1, <1>2, GoToStep DEF Enter

LEMMA BuildStep ==
  ASSUME WorkInv, NEW t \in Threads, Build(t)
  PROVE  WorkInv'
  <1>1. frames[t] # <<>> /\ Working(Top(t)) /\ UNCHANGED <<future, activity>>
    BY DEF Build, IsAt, Working
  <1>2. PICK place \in {"drop", "keep"} : GoTo(t, place)
    BY DEF Build
  <1>3. place \in Places /\ place \notin {"load", "wait"}
    BY DEF Places
  <1> QED BY <1>1, <1>2, <1>3, GoToStep

LEMMA BreakStep ==
  ASSUME WorkInv, NEW t \in Threads, Break(t)
  PROVE  WorkInv'
  <1>1. Last(frames[t]).at \in {"work", "build"}
    BY DEF Break, IsAt, Top
  <1> QED BY <1>1, ErrorStep DEF Break

LEMMA RefuseStep ==
  ASSUME WorkInv, NEW t \in Threads, NEW w \in Works, Refuse(t, w)
  PROVE  WorkInv'
  <1>1. frames[t] = <<>> \/ Last(frames[t]).at \in {"work", "build"}
    BY DEF Refuse, MustStart, Asks, Top
  <1> QED BY <1>1, ErrorStep DEF Refuse

LEMMA KeepStep ==
  ASSUME WorkInv, NEW t \in Threads, Keep(t)
  PROVE  WorkInv'
  <1>1. frames[t] # <<>> /\ Working(Top(t))
    BY DEF Keep, IsAt, Working
  <1>2. "settle" \in Places /\ "settle" \notin {"load", "wait"}
    BY DEF Places
  <1> QED BY <1>1, <1>2, GoToStep DEF Keep

LEMMA InvalidateStep ==
  ASSUME WorkInv, NEW bundle, Invalidate(bundle)
  PROVE  WorkInv'
  <1>1. UNCHANGED <<frames, future, activity>>
    BY DEF Invalidate
  <1>2. Stacks' /\ NoNewLoad /\ OwnersStay
    BY <1>1 DEF WorkInv, Stacks, NoNewLoad, OwnersStay, SameOwners, IsAt, Top
  <1> QED BY <1>1, <1>2, NoFutureMoves, QuietStep

\* A call that is not a calculation is over.
LEMMA LeftCall ==
  ASSUME WorkInv, NEW t \in Threads, frames[t] # <<>>, ~Working(Top(t))
  PROVE  /\ Stack(Front(frames[t]))
         /\ Front(frames[t]) = <<>> \/ InNeed(Front(frames[t]))
         /\ SameOwners(frames[t], Front(frames[t]))
  <1>1. Stack(frames[t])
    BY StackOf DEF WorkInv
  <1>2. \A i \in Nat, w \in Works :
          Owner(Front(frames[t]), i, w) <=> Owner(frames[t], i, w) /\ i # Len(frames[t])
    BY <1>1, PoppedStack
  <1>3. \A w \in Works : ~Owner(frames[t], Len(frames[t]), w)
    BY <1>1, LastIsFrame DEF Top
  <1>4. SameOwners(frames[t], Front(frames[t]))
    BY <1>2, <1>3 DEF SameOwners
  <1> QED BY <1>1, <1>4, PoppedStack

LEMMA ReleaseStep ==
  ASSUME WorkInv, NEW t \in Threads, Release(t)
  PROVE  WorkInv'
  <1> DEFINE calls == Front(frames[t])
  <1>1. frames[t] # <<>> /\ ~Working(Top(t)) /\ IsAt(t, "load") /\ UNCHANGED future
    BY DEF Release, IsAt, Working
  <1>2. /\ Stack(calls)
        /\ calls = <<>> \/ InNeed(calls)
        /\ SameOwners(frames[t], calls)
    BY <1>1, LeftCall
  <1>3. frames' = [frames EXCEPT ![t] = calls]
    BY DEF Release
  <1>4. calls # <<>> => Last(calls).at # "load"
    BY <1>2 DEF InNeed
  <1> HIDE DEF calls
  <1>5. Stacks' /\ NoNewLoad /\ OwnersStay /\ ~IsAt(t, "load")'
    BY <1>2, <1>3, <1>4, OneThreadMoves DEF WorkInv
  <1>6. \A u \in Threads : ~IsAt(u, "load")'
    BY <1>1, <1>5 DEF NoNewLoad, WorkInv, LoadsHold
  <1>7. FutureTypes' /\ Underway' = Underway
    BY <1>1, NoFutureMoves
  <1>8. LoadsHold'
    BY <1>6 DEF LoadsHold
  <1> QED BY <1>5, <1>7, <1>8, QuietStep

LEMMA SettleStep ==
  ASSUME WorkInv, NEW t \in Threads, Settle(t)
  PROVE  WorkInv'
  <1> DEFINE next(u) ==
        IF u = t THEN [frames[t] EXCEPT ![Len(frames[t])].at = "drop"]
        ELSE IF WaitsFor(u, Top(t).work) THEN Returned(Front(frames[u]), Top(t).good)
        ELSE frames[u]
  <1>1. frames' = [u \in Threads |-> next(u)] /\ UNCHANGED activity
    BY DEF Settle
  <1>2. frames[t] # <<>> /\ Working(Top(t)) /\ Stack(frames[t])
    BY StackOf DEF Settle, IsAt, Working, WorkInv
  <1>3. Top(t).work \in Works /\ Top(t).good \in BOOLEAN
    BY <1>2, LastIsFrame DEF Top, Frame
  <1>4. FutureTypes' /\ Underway' = Underway
    <2>1. future' = [future EXCEPT ![Top(t).work] = IF Top(t).good THEN "done" ELSE "failed"]
      BY DEF Settle
    <2>2. Owner(frames[t], Len(frames[t]), Top(t).work) /\ Len(frames[t]) \in Nat
      BY <1>2, <1>3, LastIsFrame DEF Top
    <2>3. future[Top(t).work] # "none"
      BY <1>3, <2>2 DEF WorkInv, OwnersAreUnderway, Underway
    <2> QED BY <1>3, <2>1, <2>3 DEF WorkInv, FutureTypes, Statuses, Underway
  <1>5. ASSUME NEW u \in Threads
        PROVE  /\ Stack(next(u))
               /\ SameOwners(frames[u], next(u))
               /\ next(u) # <<>> /\ Last(next(u)).at = "load" => next(u) = frames[u]
    <2>1. CASE u = t
      <3>1. "drop" \in Places /\ "drop" \notin {"load", "wait"}
        BY DEF Places
      <3> QED BY <2>1, <3>1, <1>2, MovedCall
    <2>2. CASE u # t /\ WaitsFor(u, Top(t).work)
      <3>1. frames[u] # <<>> /\ ~Working(Top(u))
        BY <2>2 DEF WaitsFor, IsAt, Working
      <3>2. /\ Stack(Front(frames[u]))
            /\ Front(frames[u]) = <<>> \/ InNeed(Front(frames[u]))
            /\ SameOwners(frames[u], Front(frames[u]))
        BY <3>1, LeftCall
      <3>3. Front(frames[u]) = <<>> \/ Last(Front(frames[u])).at \in {"work", "build"}
        BY <3>2 DEF InNeed
      <3> DEFINE back == Returned(Front(frames[u]), Top(t).good)
      <3>4. /\ Stack(back)
            /\ back # <<>> => Last(back).at # "load"
            /\ SameOwners(Front(frames[u]), back)
        BY <1>3, <3>2, <3>3, ReturnedStack
      <3>5. next(u) = back
        BY <2>2
      <3> HIDE DEF back, next
      <3>6. SameOwners(frames[u], back)
        BY <3>2, <3>4 DEF SameOwners
      <3> QED BY <3>4, <3>5, <3>6
    <2>3. CASE u # t /\ ~WaitsFor(u, Top(t).work)
      <3>1. next(u) = frames[u] /\ Stack(frames[u])
        BY <2>3, StackOf DEF WorkInv
      <3> QED BY <3>1 DEF SameOwners
    <2> QED BY <2>1, <2>2, <2>3
  <1> HIDE DEF next
  <1>6. \A u \in Threads : frames'[u] = next(u)
    BY <1>1
  <1>7. Stacks'
    BY <1>1, <1>5, <1>6 DEF Stacks, Stack
  <1>8. NoNewLoad
    BY <1>5, <1>6 DEF NoNewLoad, IsAt, Top
  <1>9. OwnersStay
    BY <1>5, <1>6 DEF OwnersStay
  <1> QED BY <1>1, <1>4, <1>7, <1>8, <1>9, QuietStep

-----------------------------------------------------------------------------
(* Steps that start or end work.                                           *)

LEMMA KindsOfWork ==
  ASSUME WorkInv, NEW v \in Underway
  PROVE  v \in Works /\ v.kind \in Heavy \cup {"baseline"}
  BY WorkAssumption DEF WorkInv, NoAssists, Underway, Kinds, Heavy

\* What a thread needs serves a calculation that is under way.
LEMMA NeedIsServed ==
  ASSUME WorkInv, NEW t \in Threads, frames[t] # <<>>, InNeed(frames[t])
  PROVE  /\ Top(t).work \in Underway
         /\ Head(Top(t).left) \in Works
         /\ NeedFits(Top(t).work, Head(Top(t).left))
  <1>1. Stack(frames[t])
    BY StackOf DEF WorkInv
  <1>2. Top(t) \in FittingFrame /\ Top(t) \in Frame /\ Len(frames[t]) \in Nat
    BY <1>1, LastIsFrame DEF Top
  <1>3. Top(t).work \in Works /\ Top(t).left \in Seq(Works) /\ Top(t).left # <<>>
    BY <1>2 DEF Frame, InNeed, Top
  <1>4. 1 \in 1 .. Len(Top(t).left) /\ Head(Top(t).left) = Top(t).left[1]
    BY <1>3
  <1>5. Owner(frames[t], Len(frames[t]), Top(t).work)
    BY <1>1, <1>3, LastIsFrame DEF InNeed, Working, Top
  <1>6. Top(t).work \in Underway
    BY <1>2, <1>3, <1>5 DEF WorkInv, OwnersAreUnderway
  <1> QED BY <1>2, <1>3, <1>4, <1>6 DEF FittingFrame

\* Beside a part of the Player Lab only parts of the Player Lab are under way.
LEMMA PlayerLabAlone ==
  ASSUME WorkInv, NEW w \in Underway, w.kind \in PlayerLab, NEW v \in Underway
  PROVE  v.kind \in PlayerLab \cup {"baseline"}
  <1>1. Compatible(v, w)
    BY DEF WorkInv, ExclusiveWork
  <1> QED BY <1>1, KindsOfWork DEF Compatible, PlayerLab

LEMMA AdmittedFits ==
  ASSUME WorkInv, NEW t \in Threads, NEW w \in Works, Asks(t, w), Admits(w), w.kind \notin Assists,
         NEW v \in Underway
  PROVE  Compatible(v, w) /\ Compatible(w, v)
  <1>1. v.kind \in Heavy \cup {"baseline"} /\ w.kind \in Heavy \cup {"baseline"}
    BY KindsOfWork, WorkAssumption DEF Kinds, Heavy
  <1>2. v.kind \notin Blocks(w.kind)
    BY DEF Admits, Running
  <1>3. CASE w.kind = "baseline" \/ v.kind = "baseline"
    BY <1>3 DEF Compatible
  <1>4. CASE w.kind = "read"
    <2>1. frames[t] # <<>> /\ InNeed(frames[t]) /\ w = Head(Top(t).left)
      BY <1>4 DEF Asks, InNeed, Top
    <2>2. Top(t).work \in Underway /\ Top(t).work.kind \in PlayerLab
      BY <1>4, <2>1, NeedIsServed DEF NeedFits, PlayerLab
    <2>3. v.kind \in PlayerLab \cup {"baseline"}
      BY <2>2, PlayerLabAlone
    <2> QED BY <1>4, <2>3 DEF Compatible, PlayerLab
  <1>5. CASE w.kind \in PlayerLab \ {"read"} /\ v.kind # "baseline"
    <2>1. Blocks(w.kind) = Heavy \ PlayerLab
      BY <1>5 DEF Blocks, PlayerLab
    <2> QED BY <1>1, <1>2, <1>5, <2>1 DEF Compatible
  <1>6. CASE w.kind = "dashboard" /\ v.kind # "baseline"
    <2>1. Blocks(w.kind) = Heavy \ {"dashboard"}
      BY <1>6 DEF Blocks, PlayerLab
    <2>2. v.kind = "dashboard"
      BY <1>1, <1>2, <1>6, <2>1
    <2> QED BY <1>6, <2>2 DEF Compatible, Exclusive
  <1>7. CASE w.kind \in Heavy \ (PlayerLab \cup {"dashboard"}) /\ v.kind # "baseline"
    <2>1. Blocks(w.kind) = Heavy
      BY <1>7 DEF Blocks, PlayerLab, Heavy, Joined, Jobs
    <2> QED BY <1>1, <1>2, <1>7, <2>1
  <1> QED BY <1>1, <1>3, <1>4, <1>5, <1>6, <1>7

\* What starts was not under way.
LEMMA StartedIsNew ==
  ASSUME WorkInv, NEW t \in Threads, NEW w \in Works, MustStart(t, w), Admits(w), w.kind \notin Assists
  PROVE  w \notin Underway
  <1>1. CASE w.kind \in Joined
    BY <1>1 DEF MustStart, Underway
  <1>2. CASE w.kind \in Jobs
    <2>1. Blocks(w.kind) = Heavy /\ w.kind \in Heavy
      BY <1>2 DEF Blocks, PlayerLab, Heavy, Joined, Jobs
    <2> QED BY <2>1 DEF Admits, Running
  <1> QED BY <1>1, <1>2, WorkAssumption DEF Kinds

\* Registering work that is compatible with all that is under way, by the one
\* thread that now owns it.
LEMMA RegisterStep ==
  ASSUME WorkInv, NEW w \in Works, w \notin Underway, w.kind \notin Assists, Register(w),
         \A v \in Underway : Compatible(v, w) /\ Compatible(w, v),
         \A u \in Threads : ~IsAt(u, "load")',
         Stacks', NEW t \in Threads, NEW k \in Nat,
         \A u \in Threads, i \in Nat, x \in Works : Owner(frames'[u], i, x) <=>
           Owner(frames[u], i, x) \/ (u = t /\ i = k /\ x = w)
  PROVE  WorkInv'
  <1> USE DEF WorkInv
  <1>1. FutureTypes'
    BY DEF Register, FutureTypes, Statuses
  <1>2. Underway' = Underway \cup {w}
    BY DEF Register, FutureTypes, Underway
  <1>3. LoadsHold' /\ NoAssists'
    BY <1>2 DEF LoadsHold, NoAssists
  <1>4. OwnersAreUnderway'
    <2> SUFFICES ASSUME NEW u \in Threads, NEW i \in Nat, NEW x \in Works, Owner(frames'[u], i, x)
                 PROVE  x \in Underway'
      BY DEF OwnersAreUnderway
    <2> QED BY <1>2 DEF OwnersAreUnderway
  <1>5. SingleOwners'
    <2> SUFFICES ASSUME NEW u \in Threads, NEW v \in Threads, NEW i \in Nat, NEW j \in Nat,
                        NEW x \in Works, Owner(frames'[u], i, x), Owner(frames'[v], j, x)
                 PROVE  u = v /\ i = j
      BY DEF SingleOwners
    <2>1. CASE x = w
      <3>1. ~Owner(frames[u], i, x) /\ ~Owner(frames[v], j, x)
        BY <2>1 DEF OwnersAreUnderway
      <3> QED BY <2>1, <3>1
    <2>2. CASE x # w
      BY <2>2 DEF SingleOwners
    <2> QED BY <2>1, <2>2
  <1>6. ExclusiveWork'
    <2>1. \A v, x \in Underway' : Compatible(v, x)
      BY <1>2 DEF ExclusiveWork, Compatible
    <2> QED BY <2>1 DEF ExclusiveWork
  <1>7. UnderwayIsOwned'
    <2> SUFFICES ASSUME NEW x \in Underway'
                 PROVE  \E u \in Threads, i \in Nat : Owner(frames'[u], i, x)
      BY DEF UnderwayIsOwned
    <2>1. CASE x = w
      <3>1. Owner(frames'[t], k, x)
        BY <2>1
      <3> QED BY <3>1
    <2>2. CASE x # w
      <3>1. x \in Underway /\ x \in Works
        BY <1>2, <2>2 DEF Underway
      <3>2. PICK u \in Threads, i \in Nat : Owner(frames[u], i, x)
        BY <3>1 DEF UnderwayIsOwned
      <3>3. Owner(frames'[u], i, x)
        BY <3>1, <3>2
      <3> QED BY <3>3
    <2> QED BY <2>1, <2>2
  <1> QED BY <1>1, <1>3, <1>4, <1>5, <1>6, <1>7

LEMMA OwnStep ==
  ASSUME WorkInv, NEW t \in Threads, NEW w \in Works, Own(t, w)
  PROVE  WorkInv'
  <1>1. Asks(t, w) /\ MustStart(t, w) /\ Admits(w) /\ w.kind \notin Assists /\ Register(w)
    BY DEF Own, MustStart
  <1>2. PICK left \in Needs(w) : Call(t, w, "work", left)
    BY DEF Own
  <1> DEFINE f == [work |-> w, at |-> "work", left |-> left, good |-> TRUE]
             calls == Append(frames[t], f)
  <1>3. f \in Frame /\ f.work = w /\ f.at = "work" /\ f.left = left /\ Working(f)
    BY NeedsAssumption DEF Frame, Places, Working
  <1>4. \A j \in 1 .. Len(left) : NeedFits(w, left[j])
    BY DEF Needs, For, NeedFits, PlayerLab
  <1>5. frames' = [frames EXCEPT ![t] = calls]
    BY <1>2 DEF Call
  <1>6. Stack(frames[t]) /\ Len(frames[t]) \in Nat
    BY StackOf DEF WorkInv, Stack
  <1>7. frames[t] = <<>> \/ (InNeed(frames[t]) /\ w = Head(Last(frames[t]).left))
    BY <1>1, AskedFor
  <1> HIDE DEF f
  <1>8. f \in FittingFrame
    BY <1>3, <1>4 DEF FittingFrame
  <1>9. /\ Stack(calls) /\ Last(calls) = f
        /\ \A i \in Nat, x \in Works : Owner(calls, i, x) <=>
             \/ Owner(frames[t], i, x)
             \/ i = Len(frames[t]) + 1 /\ f.work = x /\ Working(f)
    BY <1>3, <1>6, <1>7, <1>8, PushedStack
  <1> HIDE DEF calls
  <1>10. Stacks' /\ NoNewLoad
    BY <1>3, <1>5, <1>9, OneThreadMoves DEF WorkInv
  <1>11. \A u \in Threads : ~IsAt(u, "load")'
    BY <1>1, <1>10, NobodyAssumption DEF Asks, Free, NoNewLoad, WorkInv, LoadsHold
  <1>12. \A u \in Threads, i \in Nat, x \in Works : Owner(frames'[u], i, x) <=>
           Owner(frames[u], i, x) \/ (u = t /\ i = Len(frames[t]) + 1 /\ x = w)
    <2> SUFFICES ASSUME NEW u \in Threads, NEW i \in Nat, NEW x \in Works
                 PROVE  Owner(frames'[u], i, x) <=>
                          Owner(frames[u], i, x) \/ (u = t /\ i = Len(frames[t]) + 1 /\ x = w)
      OBVIOUS
    <2>1. frames'[u] = IF u = t THEN calls ELSE frames[u]
      BY <1>5 DEF WorkInv, Stacks
    <2> QED BY <2>1, <1>3, <1>9
  <1>13. \A v \in Underway : Compatible(v, w) /\ Compatible(w, v)
    BY <1>1, AdmittedFits
  <1>14. w \notin Underway
    BY <1>1, StartedIsNew
  <1>15. Len(frames[t]) + 1 \in Nat
    BY <1>6
  <1> QED BY <1>1, <1>10, <1>11, <1>12, <1>13, <1>14, <1>15, RegisterStep

LEMMA HoldStep ==
  ASSUME WorkInv, NEW t \in Threads, NEW w \in Works, Hold(t, w)
  PROVE  WorkInv'
  <1> DEFINE f == [work |-> w, at |-> "load", left |-> <<>>, good |-> TRUE]
             calls == Append(frames[t], f)
  <1>1. f \in FittingFrame /\ f.at = "load" /\ f.work = w /\ ~Working(f)
    BY DEF FittingFrame, Frame, Places, Working
  <1>2. Stack(frames[t])
    BY StackOf DEF WorkInv
  <1>3. frames[t] = <<>> \/ (InNeed(frames[t]) /\ w = Head(Last(frames[t]).left))
    BY AskedFor DEF Hold, MustStart
  <1>4. frames' = [frames EXCEPT ![t] = calls] /\ activity' = t /\ UNCHANGED future
    BY DEF Hold, Call
  <1> HIDE DEF f
  <1>5. /\ Stack(calls) /\ Last(calls) = f
        /\ \A i \in Nat, x \in Works : Owner(calls, i, x) <=>
             \/ Owner(frames[t], i, x)
             \/ i = Len(frames[t]) + 1 /\ f.work = x /\ Working(f)
    BY <1>1, <1>2, <1>3, PushedStack
  <1> HIDE DEF calls
  <1>6. \A u \in Threads : frames'[u] = IF u = t THEN calls ELSE frames[u]
    BY <1>4 DEF WorkInv, Stacks
  <1>7. FutureTypes' /\ Underway' = Underway
    BY <1>4, NoFutureMoves
  <1>8. Stacks'
    BY <1>4, <1>5, <1>6 DEF WorkInv, Stacks, Stack
  <1>9. \A u \in Threads : ~IsAt(u, "load")
    BY NobodyAssumption DEF Hold, MustStart, Asks, Free, WorkInv, LoadsHold
  <1>10. \A u \in Threads : IsAt(u, "load")' => u = t
    BY <1>6, <1>9 DEF IsAt, Top
  <1>11. LoadsHold'
    BY <1>4, <1>10 DEF LoadsHold
  <1>12. NoAssists'
    BY <1>7 DEF WorkInv, NoAssists
  <1>13. \A u \in Threads, i \in Nat, x \in Works : Owner(frames'[u], i, x) <=> Owner(frames[u], i, x)
    BY <1>1, <1>5, <1>6
  <1>14. OwnersAreUnderway'
    <2> SUFFICES ASSUME NEW u \in Threads, NEW i \in Nat, NEW x \in Works, Owner(frames'[u], i, x)
                 PROVE  x \in Underway'
      BY DEF OwnersAreUnderway
    <2> QED BY <1>7, <1>13 DEF WorkInv, OwnersAreUnderway
  <1>15. SingleOwners'
    <2> SUFFICES ASSUME NEW u \in Threads, NEW v \in Threads, NEW i \in Nat, NEW j \in Nat,
                        NEW x \in Works, Owner(frames'[u], i, x), Owner(frames'[v], j, x)
                 PROVE  u = v /\ i = j
      BY DEF SingleOwners
    <2> QED BY <1>13 DEF WorkInv, SingleOwners
  <1>16. w.kind # "glance" => Running' \cap Heavy = {}
    <2>1. w.kind # "glance" => Blocks(w.kind) = Heavy
      BY DEF Hold, Assists, Blocks, PlayerLab
    <2>2. Running' = Running
      BY <1>7 DEF Running
    <2> QED BY <2>1, <2>2 DEF Hold, Admits
  <1>17. Top(t)'.work = w
    BY <1>1, <1>5, <1>6 DEF Top
  <1>18. ExclusiveWork'
    BY <1>7, <1>10, <1>16, <1>17 DEF WorkInv, ExclusiveWork
  <1>19. UnderwayIsOwned'
    <2> SUFFICES ASSUME NEW x \in Underway
                 PROVE  \E u \in Threads, i \in Nat : Owner(frames'[u], i, x)
      BY <1>7 DEF UnderwayIsOwned
    <2>1. x \in Works
      BY DEF Underway
    <2>2. PICK u \in Threads, i \in Nat : Owner(frames[u], i, x)
      BY DEF WorkInv, UnderwayIsOwned
    <2>3. Owner(frames'[u], i, x)
      BY <1>13, <2>1, <2>2
    <2> QED BY <2>3
  <1> QED BY <1>7, <1>8, <1>11, <1>12, <1>14, <1>15, <1>18, <1>19 DEF WorkInv

LEMMA LoadStep ==
  ASSUME WorkInv, NEW t \in Threads, Load(t)
  PROVE  WorkInv'
  <1> DEFINE w == Top(t).work
             f == [Top(t) EXCEPT !.at = "work"]
             calls == [frames[t] EXCEPT ![Len(frames[t])] = f]
  <1>1. frames[t] # <<>> /\ IsAt(t, "load") /\ Top(t).at = "load" /\ w.kind = "draft" /\ Register(w)
    BY DEF Load, IsAt
  <1>2. Stack(frames[t])
    BY StackOf DEF WorkInv
  <1>3. /\ Top(t) \in FittingFrame /\ Top(t) \in Frame /\ Len(frames[t]) \in Nat
        /\ \A x \in Works : ~Owner(frames[t], Len(frames[t]), x)
    BY <1>1, <1>2, LastIsFrame DEF Top, Working
  <1>4. f \in FittingFrame /\ f.work = w /\ f.at = "work" /\ Working(f) /\ w \in Works
    BY <1>3 DEF FittingFrame, Frame, Places, Working
  <1>5. frames' = [frames EXCEPT ![t] = calls]
    BY DEF Load, GoTo, Top, Last, WorkInv, Stacks
  <1> HIDE DEF f
  <1>6. /\ Stack(calls) /\ Last(calls) = f
        /\ \A i \in Nat, x \in Works : Owner(calls, i, x) <=>
             \/ Owner(frames[t], i, x) /\ i # Len(frames[t])
             \/ i = Len(frames[t]) /\ f.work = x /\ Working(f)
    BY <1>1, <1>2, <1>4, ChangedStack DEF Top
  <1> HIDE DEF calls
  <1>7. Stacks' /\ NoNewLoad /\ ~IsAt(t, "load")'
    BY <1>4, <1>5, <1>6, OneThreadMoves DEF WorkInv
  <1>8. \A u \in Threads : ~IsAt(u, "load")'
    BY <1>1, <1>7 DEF NoNewLoad, WorkInv, LoadsHold
  <1>9. Running \cap Heavy = {}
    BY <1>1 DEF WorkInv, ExclusiveWork
  <1>10. w.kind \in Heavy /\ w.kind \notin Assists
    BY <1>1 DEF Heavy, Jobs, Assists
  <1>11. w \notin Underway
    BY <1>9, <1>10 DEF Running
  <1>12. \A v \in Underway : v.kind = "baseline"
    BY <1>9, KindsOfWork DEF Running
  <1>13. \A v \in Underway : Compatible(v, w) /\ Compatible(w, v)
    BY <1>12 DEF Compatible
  <1>14. \A u \in Threads, i \in Nat, x \in Works : Owner(frames'[u], i, x) <=>
           Owner(frames[u], i, x) \/ (u = t /\ i = Len(frames[t]) /\ x = w)
    <2> SUFFICES ASSUME NEW u \in Threads, NEW i \in Nat, NEW x \in Works
                 PROVE  Owner(frames'[u], i, x) <=>
                          Owner(frames[u], i, x) \/ (u = t /\ i = Len(frames[t]) /\ x = w)
      OBVIOUS
    <2>1. frames'[u] = IF u = t THEN calls ELSE frames[u]
      BY <1>5 DEF WorkInv, Stacks
    <2> QED BY <2>1, <1>3, <1>4, <1>6
  <1>15. w \in Works /\ Len(frames[t]) \in Nat /\ Register(w) /\ Stacks'
    BY <1>1, <1>3, <1>4, <1>7
  <1> HIDE DEF w
  <1> QED BY <1>8, <1>10, <1>11, <1>13, <1>14, <1>15, RegisterStep

LEMMA DropStep ==
  ASSUME WorkInv, NEW t \in Threads, Drop(t)
  PROVE  WorkInv'
  <1> DEFINE w == Top(t).work
             front == Front(frames[t])
             calls == Returned(front, Top(t).good)
  <1>1. frames[t] # <<>> /\ Working(Top(t))
    BY DEF Drop, IsAt, Working
  <1>2. Stack(frames[t])
    BY StackOf DEF WorkInv
  <1>3. /\ w \in Works /\ Top(t).good \in BOOLEAN /\ Len(frames[t]) \in Nat
        /\ Owner(frames[t], Len(frames[t]), w)
    BY <1>1, <1>2, LastIsFrame DEF Top, Frame
  <1>4. /\ Stack(front)
        /\ front = <<>> \/ InNeed(front)
        /\ \A i \in Nat, x \in Works :
             Owner(front, i, x) <=> Owner(frames[t], i, x) /\ i # Len(frames[t])
    BY <1>1, <1>2, PoppedStack
  <1>5. front = <<>> \/ Last(front).at \in {"work", "build"}
    BY <1>4 DEF InNeed
  <1> HIDE DEF front
  <1>6. /\ Stack(calls)
        /\ calls # <<>> => Last(calls).at # "load"
        /\ SameOwners(front, calls)
    BY <1>3, <1>4, <1>5, ReturnedStack
  <1>7. frames' = [frames EXCEPT ![t] = calls] /\ UNCHANGED activity
    BY DEF Drop, front
  <1> HIDE DEF calls
  <1>8. Stacks' /\ NoNewLoad
    BY <1>6, <1>7, OneThreadMoves DEF WorkInv
  <1>9. LoadsHold'
    BY <1>7, <1>8 DEF WorkInv, LoadsHold, NoNewLoad
  <1>10. FutureTypes' /\ Underway' = Underway \ {w}
    BY <1>3 DEF Drop, WorkInv, FutureTypes, Statuses, Underway
  <1>11. NoAssists'
    BY <1>10 DEF WorkInv, NoAssists
  <1>12. \A u \in Threads, i \in Nat, x \in Works : Owner(frames'[u], i, x) <=>
           Owner(frames[u], i, x) /\ ~(u = t /\ i = Len(frames[t]))
    <2> SUFFICES ASSUME NEW u \in Threads, NEW i \in Nat, NEW x \in Works
                 PROVE  Owner(frames'[u], i, x) <=>
                          Owner(frames[u], i, x) /\ ~(u = t /\ i = Len(frames[t]))
      OBVIOUS
    <2>1. frames'[u] = IF u = t THEN calls ELSE frames[u]
      BY <1>7 DEF WorkInv, Stacks
    <2> QED BY <2>1, <1>4, <1>6 DEF SameOwners
  <1> HIDE DEF w
  <1>13. OwnersAreUnderway'
    <2> SUFFICES ASSUME NEW u \in Threads, NEW i \in Nat, NEW x \in Works, Owner(frames'[u], i, x)
                 PROVE  x \in Underway'
      BY DEF OwnersAreUnderway
    <2>1. Owner(frames[u], i, x) /\ ~(u = t /\ i = Len(frames[t]))
      BY <1>12
    <2>2. x # w
      BY <2>1, <1>3 DEF WorkInv, SingleOwners
    <2> QED BY <2>1, <2>2, <1>10 DEF WorkInv, OwnersAreUnderway
  <1>14. SingleOwners'
    <2> SUFFICES ASSUME NEW u \in Threads, NEW v \in Threads, NEW i \in Nat, NEW j \in Nat,
                        NEW x \in Works, Owner(frames'[u], i, x), Owner(frames'[v], j, x)
                 PROVE  u = v /\ i = j
      BY DEF SingleOwners
    <2> QED BY ZenonT(30), <1>12 DEF WorkInv, SingleOwners
  <1>15. Underway' \subseteq Underway /\ Running' \subseteq Running
    BY <1>10 DEF Running
  <1>16. ExclusiveWork'
    BY <1>8, <1>15 DEF WorkInv, ExclusiveWork, NoNewLoad
  <1>17. UnderwayIsOwned'
    <2> SUFFICES ASSUME NEW x \in Underway \ {w}
                 PROVE  \E u \in Threads, i \in Nat : Owner(frames'[u], i, x)
      BY <1>10 DEF UnderwayIsOwned
    <2>1. x \in Works
      BY DEF Underway
    <2>2. PICK u \in Threads, i \in Nat : Owner(frames[u], i, x)
      BY DEF WorkInv, UnderwayIsOwned
    <2>3. ~(u = t /\ i = Len(frames[t]))
      BY <1>3, <2>2 DEF Owner
    <2>4. Owner(frames'[u], i, x)
      BY <1>12, <2>1, <2>2, <2>3
    <2> QED BY <2>4
  <1> QED BY <1>8, <1>9, <1>10, <1>11, <1>13, <1>14, <1>16, <1>17 DEF WorkInv

-----------------------------------------------------------------------------
(* What every call finds of its future.                                    *)

\* A call that works finds its future unresolved until it settles it; a call
\* that waits, waits for an unresolved future of an answer that is shared, and
\* one that keeps its answer is not a job's.
FrameFits(f, of) ==
  /\ f.at = "wait" => of[f.work] = "pending" /\ f.work.kind \in Joined
  /\ f.at = "drop" /\ f.work.kind \in Joined => of[f.work] # "pending"
  /\ f.at \in {"work", "build", "keep", "settle"} => of[f.work] = "pending"
  /\ f.at \in {"keep", "settle"} => f.work.kind \notin Jobs

CallsFit(calls, of) == \A i \in 1 .. Len(calls) : FrameFits(calls[i], of)

FuturesFit == \A t \in Threads : CallsFit(frames[t], future)

LEMMA PushedFits ==
  ASSUME NEW calls, Stack(calls), NEW f, NEW of, CallsFit(calls, of), FrameFits(f, of)
  PROVE  CallsFit(Append(calls, f), of)
  <1> DEFINE new == Append(calls, f)
  <1>1. /\ Len(calls) \in Nat /\ Len(new) = Len(calls) + 1
        /\ new[Len(new)] = f
        /\ \A i \in 1 .. Len(calls) : new[i] = calls[i]
    BY DEF Stack
  <1> HIDE DEF new
  <1>2. \A i \in 1 .. Len(new) : FrameFits(new[i], of)
    BY <1>1 DEF CallsFit
  <1> QED BY <1>2 DEF CallsFit, new

LEMMA FrontIs ==
  ASSUME NEW calls, Stack(calls), calls # <<>>
  PROVE  /\ Len(calls) \in Nat \ {0}
         /\ Len(Front(calls)) = Len(calls) - 1
         /\ \A i \in 1 .. Len(calls) - 1 : Front(calls)[i] = calls[i]
  <1> DEFINE n == Len(calls) - 1
  <1>1. calls \in Seq(FittingFrame) /\ Len(calls) \in Nat \ {0}
    BY DEF Stack
  <1>2. n \in Nat /\ \A i \in 1 .. n : calls[i] \in FittingFrame
    BY <1>1
  <1>3. Front(calls) = SubSeq(calls, 1, n)
    BY DEF Front
  <1> HIDE DEF n
  <1>4. Len(SubSeq(calls, 1, n)) = n
    BY <1>1, <1>2
  <1>5. \A i \in 1 .. n : SubSeq(calls, 1, n)[i] = calls[i]
    BY <1>1, <1>2
  <1> QED BY <1>1, <1>3, <1>4, <1>5 DEF n

LEMMA PoppedFits ==
  ASSUME NEW calls, Stack(calls), calls # <<>>, NEW of, CallsFit(calls, of)
  PROVE  CallsFit(Front(calls), of)
  BY FrontIs DEF CallsFit

LEMMA ChangedFits ==
  ASSUME NEW calls, Stack(calls), calls # <<>>, NEW f, NEW of, CallsFit(calls, of), FrameFits(f, of)
  PROVE  CallsFit([calls EXCEPT ![Len(calls)] = f], of)
  <1> DEFINE new == [calls EXCEPT ![Len(calls)] = f]
  <1>1. /\ Len(calls) \in Nat \ {0} /\ Len(new) = Len(calls)
        /\ new[Len(calls)] = f
        /\ \A i \in 1 .. Len(calls) - 1 : new[i] = calls[i]
    BY DEF Stack
  <1> HIDE DEF new
  <1>2. \A i \in 1 .. Len(new) : FrameFits(new[i], of)
    BY <1>1 DEF CallsFit
  <1> QED BY <1>2 DEF CallsFit, new

LEMMA LastFits ==
  ASSUME NEW calls, Stack(calls), calls # <<>>, NEW of, CallsFit(calls, of)
  PROVE  FrameFits(Last(calls), of)
  BY LastIsFrame DEF CallsFit, Last

\* An answer or an error that comes back leaves the future of the call alone.
LEMMA ReturnedFits ==
  ASSUME NEW calls, Stack(calls), calls = <<>> \/ Last(calls).at \in {"work", "build"},
         NEW good \in BOOLEAN, NEW of, CallsFit(calls, of)
  PROVE  CallsFit(Returned(calls, good), of)
  <1>1. CASE calls = <<>>
    BY <1>1 DEF Returned
  <1>2. CASE calls # <<>>
    <2> DEFINE last == Last(calls)
               answered == [last EXCEPT !.left = Tail(@)]
               broken == [last EXCEPT !.at = Ending(last.work.kind), !.good = FALSE]
    <2>1. last \in Frame /\ FrameFits(last, of) /\ last.at \in {"work", "build"}
      BY <1>2, LastIsFrame, LastFits
    <2>2. Returned(calls, good) = [calls EXCEPT ![Len(calls)] = IF good THEN answered ELSE broken]
      BY <1>2 DEF Returned, Last
    <2> HIDE DEF last
    <2>3. FrameFits(answered, of)
      BY <2>1 DEF Frame, FrameFits
    <2>4. broken.at = Ending(last.work.kind) /\ broken.work = last.work
      BY <2>1 DEF Frame
    <2>5. FrameFits(broken, of)
      BY <2>1, <2>4 DEF FrameFits, Ending, Jobs, Joined, PlayerLab
    <2> HIDE DEF answered, broken
    <2>6. CallsFit([calls EXCEPT ![Len(calls)] = answered], of)
      BY <1>2, <2>3, ChangedFits
    <2>7. CallsFit([calls EXCEPT ![Len(calls)] = broken], of)
      BY <1>2, <2>5, ChangedFits
    <2> QED BY <2>2, <2>6, <2>7
  <1> QED BY <1>1, <1>2

\* A future that no call of a stack is about may change.
LEMMA OthersFit ==
  ASSUME NEW calls, CallsFit(calls, future), NEW w \in Works, NEW to, FutureTypes,
         future' = [future EXCEPT ![w] = to],
         \A i \in 1 .. Len(calls) :
           calls[i].work \in Works /\ (calls[i].work = w => FrameFits(calls[i], future'))
  PROVE  CallsFit(calls, future')
  BY DEF CallsFit, FrameFits, FutureTypes

\* A step of one thread that changes no future.
LEMMA FitsStep ==
  ASSUME Stacks, FuturesFit, NEW t \in Threads, NEW calls,
         frames' = [frames EXCEPT ![t] = calls],
         CallsFit(calls, future), UNCHANGED future
  PROVE  FuturesFit'
  BY DEF Stacks, FuturesFit, CallsFit

LEMMA AskStepFits ==
  ASSUME WorkInv, FuturesFit, NEW t \in Threads, NEW w \in Works,
         FindKept(t, w) \/ Join(t, w) \/ Refuse(t, w)
  PROVE  FuturesFit'
  <1>1. Stack(frames[t]) /\ CallsFit(frames[t], future) /\ Stacks /\ UNCHANGED future
    BY StackOf DEF WorkInv, FuturesFit, FindKept, Join, Refuse
  <1>2. frames[t] = <<>> \/ Last(frames[t]).at \in {"work", "build"}
    BY AskedFor DEF FindKept, Join, Refuse, MustStart, InNeed
  <1>3. CASE Join(t, w) /\ future[w] = "pending"
    <2> DEFINE f == [work |-> w, at |-> "wait", left |-> <<>>, good |-> TRUE]
               calls == Append(frames[t], f)
    <2>1. FrameFits(f, future)
      BY <1>3 DEF Join, FrameFits
    <2>2. frames' = [frames EXCEPT ![t] = calls]
      BY <1>3 DEF Join
    <2> HIDE DEF f
    <2> QED BY <1>1, <2>1, <2>2, PushedFits, FitsStep
  <1>4. CASE ~(Join(t, w) /\ future[w] = "pending")
    <2>1. PICK good \in BOOLEAN : frames' = [frames EXCEPT ![t] = Returned(frames[t], good)]
      BY <1>4 DEF FindKept, Join, Refuse
    <2>2. CallsFit(Returned(frames[t], good), future)
      BY <1>1, <1>2, ReturnedFits
    <2> QED BY <1>1, <2>1, <2>2, FitsStep
  <1> QED BY <1>3, <1>4

\* Registering work leaves every other call's future as it was.
LEMMA RegisterFits ==
  ASSUME WorkInv, FuturesFit, NEW w \in Works, w \notin Underway, Register(w), NEW u \in Threads
  PROVE  CallsFit(frames[u], future')
  <1>1. future' = [future EXCEPT ![w] = "pending"] /\ FutureTypes /\ CallsFit(frames[u], future)
    BY DEF Register, WorkInv, FuturesFit
  <1>2. ASSUME NEW i \in 1 .. Len(frames[u])
        PROVE  /\ frames[u][i].work \in Works
               /\ frames[u][i].work = w => FrameFits(frames[u][i], future')
    <2>4. Stack(frames[u])
      BY StackOf DEF WorkInv
    <2>1. frames[u][i] \in Frame /\ i \in Nat
      BY <1>2, <2>4 DEF Stack, FittingFrame
    <2>2. frames[u][i].work = w => ~Working(frames[u][i])
      BY <1>2, <2>1 DEF WorkInv, OwnersAreUnderway, Owner
    <2>3. future'[w] = "pending" /\ FrameFits(frames[u][i], future)
      BY <1>1, <1>2 DEF FutureTypes, CallsFit
    <2> QED BY <2>1, <2>2, <2>3 DEF Frame, FrameFits, Working
  <1> QED BY <1>1, <1>2, OthersFit

LEMMA OwnFits ==
  ASSUME WorkInv, FuturesFit, NEW t \in Threads, NEW w \in Works, Own(t, w)
  PROVE  FuturesFit'
  <1>1. MustStart(t, w) /\ Admits(w) /\ w.kind \notin Assists /\ Register(w)
    BY DEF Own
  <1>2. PICK left \in Needs(w) : Call(t, w, "work", left)
    BY DEF Own
  <1>3. w \notin Underway
    BY <1>1, StartedIsNew
  <1> DEFINE f == [work |-> w, at |-> "work", left |-> left, good |-> TRUE]
             calls == Append(frames[t], f)
  <1>4. frames' = [frames EXCEPT ![t] = calls]
    BY <1>2 DEF Call
  <1>5. FrameFits(f, future')
    BY <1>1 DEF Register, FrameFits, WorkInv, FutureTypes
  <1>6. \A u \in Threads : CallsFit(frames[u], future')
    BY <1>1, <1>3, RegisterFits
  <1>7. Stack(frames[t]) /\ Stacks
    BY StackOf DEF WorkInv
  <1> HIDE DEF f
  <1>8. CallsFit(calls, future')
    BY <1>5, <1>6, <1>7, PushedFits
  <1> HIDE DEF calls
  <1> QED BY <1>4, <1>6, <1>7, <1>8 DEF FuturesFit, Stacks

LEMMA HoldFits ==
  ASSUME WorkInv, FuturesFit, NEW t \in Threads, NEW w \in Works, Hold(t, w)
  PROVE  FuturesFit'
  <1> DEFINE f == [work |-> w, at |-> "load", left |-> <<>>, good |-> TRUE]
             calls == Append(frames[t], f)
  <1>1. FrameFits(f, future)
    BY DEF FrameFits
  <1>2. frames' = [frames EXCEPT ![t] = calls] /\ UNCHANGED future
    BY DEF Hold, Call
  <1>3. Stack(frames[t]) /\ CallsFit(frames[t], future) /\ Stacks
    BY StackOf DEF WorkInv, FuturesFit
  <1> HIDE DEF f
  <1> QED BY <1>1, <1>2, <1>3, PushedFits, FitsStep

\* A calculation that goes on to a place of its own.
LEMMA GoToFits ==
  ASSUME WorkInv, FuturesFit, NEW t \in Threads, frames[t] # <<>>, NEW place,
         FrameFits([Top(t) EXCEPT !.at = place], future), GoTo(t, place), UNCHANGED future
  PROVE  FuturesFit'
  <1>1. Stack(frames[t]) /\ CallsFit(frames[t], future) /\ Stacks
    BY StackOf DEF WorkInv, FuturesFit
  <1>2. frames' = [frames EXCEPT ![t] = [frames[t] EXCEPT ![Len(frames[t])] = [Top(t) EXCEPT !.at = place]]]
    BY DEF GoTo, Top, Last, WorkInv, Stacks
  <1> QED BY <1>1, <1>2, ChangedFits, FitsStep

LEMMA GoesOnFits ==
  ASSUME WorkInv, FuturesFit, NEW t \in Threads, Enter(t) \/ Build(t) \/ Keep(t)
  PROVE  FuturesFit'
  <1>1. /\ frames[t] # <<>> /\ Top(t).at \in {"work", "build", "keep"}
        /\ UNCHANGED future
    BY DEF Enter, Build, Keep, IsAt
  <1>2. PICK place \in {"build", "keep", "settle", "drop"} :
          /\ GoTo(t, place)
          /\ place = "drop" => Top(t).work.kind \in Jobs
          /\ place \in {"keep", "settle"} => Top(t).at = "keep" \/ Top(t).work.kind \notin Jobs
    BY DEF Enter, Build, Keep, IsAt
  <1>3. Stack(frames[t]) /\ CallsFit(frames[t], future)
    BY StackOf DEF WorkInv, FuturesFit
  <1>4. Top(t) \in Frame /\ FrameFits(Top(t), future)
    BY <1>1, <1>3, LastIsFrame, LastFits DEF Top
  <1> DEFINE f == [Top(t) EXCEPT !.at = place]
  <1>5. f.at = place /\ f.work = Top(t).work
    BY <1>4 DEF Frame
  <1>6. FrameFits(f, future)
    BY <1>1, <1>2, <1>4, <1>5 DEF FrameFits, Jobs, Joined, PlayerLab
  <1> QED BY <1>1, <1>2, <1>6, GoToFits

LEMMA BreakFits ==
  ASSUME WorkInv, FuturesFit, NEW t \in Threads, Break(t)
  PROVE  FuturesFit'
  <1>1. Last(frames[t]).at \in {"work", "build"}
    BY DEF Break, IsAt, Top
  <1>2. Stack(frames[t]) /\ CallsFit(frames[t], future) /\ Stacks
    BY StackOf DEF WorkInv, FuturesFit
  <1>3. CallsFit(Returned(frames[t], FALSE), future)
    BY <1>1, <1>2, ReturnedFits
  <1>4. frames' = [frames EXCEPT ![t] = Returned(frames[t], FALSE)] /\ UNCHANGED future
    BY DEF Break
  <1> QED BY <1>2, <1>3, <1>4, FitsStep

LEMMA ReleaseFits ==
  ASSUME WorkInv, FuturesFit, NEW t \in Threads, Release(t)
  PROVE  FuturesFit'
  <1>1. frames[t] # <<>> /\ frames' = [frames EXCEPT ![t] = Front(frames[t])] /\ UNCHANGED future
    BY DEF Release, IsAt
  <1>2. Stack(frames[t]) /\ CallsFit(frames[t], future) /\ Stacks
    BY StackOf DEF WorkInv, FuturesFit
  <1>3. CallsFit(Front(frames[t]), future)
    BY <1>1, <1>2, PoppedFits
  <1> QED BY <1>1, <1>2, <1>3, FitsStep

LEMMA LoadFits ==
  ASSUME WorkInv, FuturesFit, NEW t \in Threads, Load(t)
  PROVE  FuturesFit'
  <1> DEFINE w == Top(t).work
             f == [Top(t) EXCEPT !.at = "work"]
             calls == [frames[t] EXCEPT ![Len(frames[t])] = f]
  <1>1. frames[t] # <<>> /\ IsAt(t, "load") /\ w.kind = "draft" /\ Register(w)
    BY DEF Load, IsAt
  <1>2. Stack(frames[t]) /\ Stacks
    BY StackOf DEF WorkInv
  <1>3. Top(t) \in Frame
    BY <1>1, <1>2, LastIsFrame DEF Top
  <1>4. f.work = w /\ f.at = "work" /\ w \in Works
    BY <1>3 DEF Frame
  <1>5. frames' = [frames EXCEPT ![t] = calls]
    BY DEF Load, GoTo, Top, Last, WorkInv, Stacks
  <1>6. Running \cap Heavy = {} /\ w.kind \in Heavy
    BY <1>1 DEF WorkInv, ExclusiveWork, Heavy, Jobs
  <1>7. w \notin Underway
    BY <1>6 DEF Running
  <1>8. \A u \in Threads : CallsFit(frames[u], future')
    BY <1>1, <1>4, <1>7, RegisterFits
  <1>9. FrameFits(f, future')
    BY <1>1, <1>4 DEF Register, FrameFits, WorkInv, FutureTypes
  <1> HIDE DEF w, f
  <1>10. CallsFit(calls, future')
    BY <1>1, <1>2, <1>8, <1>9, ChangedFits
  <1> HIDE DEF calls
  <1> QED BY <1>2, <1>5, <1>8, <1>10 DEF FuturesFit, Stacks

\* Other calls about the work of a calculation wait for it, or load for a job of it.
LEMMA OtherCalls ==
  ASSUME WorkInv, NEW t \in Threads, frames[t] # <<>>, Working(Top(t)),
         NEW u \in Threads, NEW i \in 1 .. Len(frames[u]),
         frames[u][i].work = Top(t).work, ~(u = t /\ i = Len(frames[t]))
  PROVE  frames[u][i].at \in {"load", "wait"} /\ i = Len(frames[u]) /\ frames[u][i] = Top(u)
  <1>1. Stack(frames[t]) /\ Stack(frames[u])
    BY StackOf DEF WorkInv
  <1>2. /\ Top(t).work \in Works /\ Len(frames[t]) \in Nat
        /\ Owner(frames[t], Len(frames[t]), Top(t).work)
    BY <1>1, LastIsFrame DEF Top, Frame
  <1>3. i \in Nat /\ Len(frames[u]) \in Nat
    BY <1>1 DEF Stack
  <1>4. ~Owner(frames[u], i, Top(t).work)
    BY <1>2, <1>3 DEF WorkInv, SingleOwners
  <1>5. frames[u][i].at \in {"load", "wait"}
    BY <1>4 DEF Owner, Working
  <1>6. i = Len(frames[u])
    BY <1>1, <1>3, <1>5 DEF Stack, Nested
  <1> QED BY <1>5, <1>6 DEF Top, Last

\* Below the last call of a stack nothing is about w, whose future changes.
LEMMA BelowFits ==
  ASSUME NEW calls, Stack(calls), calls # <<>>, CallsFit(calls, future),
         NEW w \in Works, NEW to, FutureTypes, future' = [future EXCEPT ![w] = to],
         \A i \in 1 .. Len(calls) - 1 : calls[i].work # w
  PROVE  /\ CallsFit(Front(calls), future')
         /\ \A f : FrameFits(f, future') => CallsFit([calls EXCEPT ![Len(calls)] = f], future')
  <1>1. /\ Len(calls) \in Nat \ {0}
        /\ \A i \in 1 .. Len(calls) : calls[i] \in Frame
    BY DEF Stack, FittingFrame
  <1>2. ASSUME NEW i \in 1 .. Len(calls) - 1 PROVE FrameFits(calls[i], future')
    <2>1. calls[i].work \in Works /\ calls[i].work # w /\ FrameFits(calls[i], future)
      BY <1>1 DEF CallsFit, Frame
    <2>2. future'[calls[i].work] = future[calls[i].work]
      BY <2>1 DEF FutureTypes
    <2> QED BY <2>1, <2>2 DEF FrameFits
  <1>3. /\ Len(Front(calls)) = Len(calls) - 1
        /\ \A i \in 1 .. Len(calls) - 1 : Front(calls)[i] = calls[i]
    BY FrontIs
  <1>4. CallsFit(Front(calls), future')
    BY <1>2, <1>3 DEF CallsFit
  <1>5. ASSUME NEW f, FrameFits(f, future')
        PROVE  CallsFit([calls EXCEPT ![Len(calls)] = f], future')
    <2> DEFINE new == [calls EXCEPT ![Len(calls)] = f]
    <2>1. /\ Len(new) = Len(calls) /\ new[Len(calls)] = f
          /\ \A i \in 1 .. Len(calls) - 1 : new[i] = calls[i]
      BY <1>1 DEF Stack
    <2> HIDE DEF new
    <2>2. ASSUME NEW i \in 1 .. Len(new) PROVE FrameFits(new[i], future')
      <3>1. i \in 1 .. Len(calls) - 1 \/ i = Len(calls)
        BY <1>1, <2>1
      <3> QED BY <1>2, <1>5, <2>1, <3>1
    <2> QED BY <2>2 DEF CallsFit, new
  <1> QED BY <1>4, <1>5

LEMMA SettleFits ==
  ASSUME WorkInv, FuturesFit, NEW t \in Threads, Settle(t)
  PROVE  FuturesFit'
  <1> DEFINE w == Top(t).work
             to == IF Top(t).good THEN "done" ELSE "failed"
             next(u) ==
               IF u = t THEN [frames[t] EXCEPT ![Len(frames[t])].at = "drop"]
               ELSE IF WaitsFor(u, Top(t).work) THEN Returned(Front(frames[u]), Top(t).good)
               ELSE frames[u]
  <1>1. /\ frames' = [u \in Threads |-> next(u)]
        /\ future' = [future EXCEPT ![w] = to]
    BY DEF Settle
  <1>2. frames[t] # <<>> /\ Working(Top(t)) /\ FutureTypes
    BY DEF Settle, IsAt, Working, WorkInv
  <1>3. \A u \in Threads : Stack(frames[u]) /\ CallsFit(frames[u], future)
    BY StackOf DEF WorkInv, FuturesFit
  <1>4. Top(t) \in Frame /\ w \in Works /\ Top(t).good \in BOOLEAN
    BY <1>2, <1>3, LastIsFrame DEF Top, Frame
  <1>5. future'[w] # "pending"
    BY <1>1, <1>2, <1>4 DEF FutureTypes
  <1>6. ASSUME NEW u \in Threads, NEW i \in 1 .. Len(frames[u]) - 1
        PROVE  frames[u][i].work # w
    <2>1. i \in 1 .. Len(frames[u]) /\ i # Len(frames[u]) /\ Len(frames[u]) \in Nat
      BY <1>3 DEF Stack
    <2> QED BY <1>2, <2>1, OtherCalls
  <1>7. ASSUME NEW u \in Threads
        PROVE  CallsFit(next(u), future')
    <2>1. CASE u = t
      <3> DEFINE f == [Top(t) EXCEPT !.at = "drop"]
      <3>1. f.at = "drop" /\ f.work = w
        BY <1>4 DEF Frame
      <3>2. next(u) = [frames[t] EXCEPT ![Len(frames[t])] = f]
        BY <2>1 DEF Top, Last
      <3>3. FrameFits(f, future')
        BY <1>5, <3>1 DEF FrameFits
      <3> HIDE DEF f, next, w, to
      <3>4. CallsFit([frames[t] EXCEPT ![Len(frames[t])] = f], future')
        BY <1>1, <1>2, <1>3, <1>4, <1>6, <3>3, BelowFits
      <3> QED BY <3>2, <3>4
    <2>2. CASE u # t /\ WaitsFor(u, w)
      <3> DEFINE front == Front(frames[u])
      <3>1. frames[u] # <<>> /\ ~Working(Top(u))
        BY <2>2 DEF WaitsFor, IsAt, Working
      <3>2. next(u) = Returned(front, Top(t).good)
        BY <2>2
      <3>3. Stack(front) /\ (front = <<>> \/ InNeed(front))
        BY <3>1, LeftCall
      <3> HIDE DEF next, w, to
      <3>4. CallsFit(front, future')
        BY <1>1, <1>2, <1>3, <1>4, <1>6, <3>1, BelowFits
      <3>5. front = <<>> \/ Last(front).at \in {"work", "build"}
        BY <3>3 DEF InNeed
      <3> HIDE DEF front
      <3> QED BY <1>4, <3>2, <3>3, <3>4, <3>5, ReturnedFits
    <2>3. CASE u # t /\ ~WaitsFor(u, w)
      <3>1. next(u) = frames[u]
        BY <2>3
      <3>2. ASSUME NEW i \in 1 .. Len(frames[u])
            PROVE  /\ frames[u][i].work \in Works
                   /\ frames[u][i].work = w => FrameFits(frames[u][i], future')
        <4>3. frames[u] \in Seq(FittingFrame)
          BY <1>3 DEF Stack
        <4>1. frames[u][i].work \in Works
          BY <4>3 DEF FittingFrame, Frame
        <4>2. ASSUME frames[u][i].work = w PROVE frames[u][i].at = "load"
          <5>1. frames[u][i].at \in {"load", "wait"} /\ frames[u][i] = Top(u)
            BY <1>2, <2>3, <4>2, OtherCalls
          <5>2. frames[u] # <<>>
            OBVIOUS
          <5> QED BY <2>3, <4>2, <5>1, <5>2 DEF WaitsFor, IsAt
        <4> QED BY <4>1, <4>2 DEF FrameFits
      <3> HIDE DEF next, w, to
      <3> QED BY <1>1, <1>2, <1>3, <1>4, <3>1, <3>2, OthersFit
    <2> QED BY <2>1, <2>2, <2>3
  <1> HIDE DEF next
  <1> QED BY <1>1, <1>7 DEF FuturesFit

LEMMA DropFits ==
  ASSUME WorkInv, FuturesFit, NEW t \in Threads, Drop(t)
  PROVE  FuturesFit'
  <1> DEFINE w == Top(t).work
             front == Front(frames[t])
             calls == Returned(front, Top(t).good)
  <1>1. /\ frames' = [frames EXCEPT ![t] = calls]
        /\ future' = [future EXCEPT ![w] = "none"]
    BY DEF Drop
  <1>2. frames[t] # <<>> /\ Working(Top(t)) /\ Top(t).at = "drop" /\ FutureTypes /\ Stacks
    BY DEF Drop, IsAt, Working, WorkInv
  <1>3. \A u \in Threads : Stack(frames[u]) /\ CallsFit(frames[u], future)
    BY StackOf DEF WorkInv, FuturesFit
  <1>4. w \in Works /\ Top(t).good \in BOOLEAN /\ FrameFits(Top(t), future)
    BY <1>2, <1>3, LastIsFrame, LastFits DEF Top, Frame
  <1>5. ASSUME NEW i \in 1 .. Len(frames[t]) - 1
        PROVE  frames[t][i].work # w
    <2>1. i \in 1 .. Len(frames[t]) /\ i # Len(frames[t]) /\ Len(frames[t]) \in Nat
      BY <1>3 DEF Stack
    <2> QED BY <1>2, <2>1, OtherCalls
  <1>6. Stack(front) /\ (front = <<>> \/ InNeed(front))
    BY <1>2, <1>3, PoppedStack
  <1>7. front = <<>> \/ Last(front).at \in {"work", "build"}
    BY <1>6 DEF InNeed
  <1>8. ASSUME NEW u \in Threads \ {t}
        PROVE  CallsFit(frames[u], future')
    <2>1. ASSUME NEW i \in 1 .. Len(frames[u])
          PROVE  /\ frames[u][i].work \in Works
                 /\ frames[u][i].work = w => FrameFits(frames[u][i], future')
      <3>3. frames[u] \in Seq(FittingFrame) /\ CallsFit(frames[u], future)
        BY <1>3 DEF Stack
      <3>1. frames[u][i].work \in Works /\ FrameFits(frames[u][i], future)
        BY <3>3 DEF FittingFrame, Frame, CallsFit
      <3>2. ASSUME frames[u][i].work = w PROVE frames[u][i].at = "load"
        <4>1. frames[u][i].at \in {"load", "wait"}
          BY <1>2, <3>2, OtherCalls
        <4> QED BY <1>2, <1>4, <3>1, <3>2, <4>1 DEF FrameFits
      <3> QED BY <3>1, <3>2 DEF FrameFits
    <2> HIDE DEF w
    <2> QED BY <1>1, <1>2, <1>3, <1>4, <2>1, OthersFit
  <1> HIDE DEF w
  <1>9. CallsFit(front, future')
    BY <1>1, <1>2, <1>3, <1>4, <1>5, BelowFits
  <1> HIDE DEF front
  <1>10. CallsFit(calls, future')
    BY <1>4, <1>6, <1>7, <1>9, ReturnedFits
  <1> HIDE DEF calls
  <1> QED BY <1>1, <1>2, <1>8, <1>10 DEF FuturesFit, Stacks

LEMMA FuturesFitStep ==
  ASSUME WorkInv, FuturesFit, [Next]_vars
  PROVE  FuturesFit'
  <1>1. CASE \E t \in Threads, w \in Works :
          FindKept(t, w) \/ Join(t, w) \/ Refuse(t, w) \/ Own(t, w) \/ Hold(t, w)
    BY <1>1, AskStepFits, OwnFits, HoldFits
  <1>2. CASE \E t \in Threads : Proceed(t)
    BY <1>2, LoadFits, ReleaseFits, GoesOnFits, BreakFits, SettleFits, DropFits DEF Proceed
  <1>3. CASE UNCHANGED <<frames, future>>
    BY <1>3 DEF FuturesFit
  <1>4. (\E w \in Works : Invalidate(w.bundle)) \/ UNCHANGED vars => UNCHANGED <<frames, future>>
    BY DEF Invalidate, vars
  <1> QED BY <1>1, <1>2, <1>3, <1>4 DEF Next

-----------------------------------------------------------------------------
(* The locks.                                                              *)

Building(t) == IsAt(t, "build") \/ IsAt(t, "keep")

\* The holder of build lock b builds under it.
UnderLock(b, t) == builder[b] = t => Building(t) /\ b \in BuilderOf(Top(t).work.kind)

HolderLoads == \A t \in Threads : IsAt(t, "load") <=> activity = t

LocksInUse ==
  /\ activity \in Threads \cup {Nobody}
  /\ builder \in [Builders -> Threads \cup {Nobody}]
  /\ \A b \in Builders, t \in Threads : UnderLock(b, t)
  /\ HolderLoads

\* A thread that builds under no build lock, or does not build, holds none.
LEMMA BuildersBuild ==
  ASSUME LocksInUse, NEW t \in Threads, ~Building(t), NEW b \in Builders
  PROVE  builder[b] # t
  BY DEF LocksInUse, UnderLock

\* A holder that keeps its calls keeps building.
LEMMA HolderStays ==
  ASSUME LocksInUse, NEW b \in Builders, NEW t \in Threads, builder'[b] = t => builder[b] = t,
         builder'[b] = t => frames'[t] = frames[t]
  PROVE  UnderLock(b, t)'
  <1> SUFFICES ASSUME builder'[b] = t
               PROVE  Building(t)' /\ b \in BuilderOf(Top(t)'.work.kind)
    BY DEF UnderLock
  <1>1. Building(t) /\ b \in BuilderOf(Top(t).work.kind)
    BY DEF LocksInUse, UnderLock
  <1> QED BY <1>1 DEF Building, IsAt, Top

\* Threads that change their calls hold no lock afterwards, and no lock is taken.
LEMMA LocksStay ==
  ASSUME LocksInUse, WorkInv', UNCHANGED activity,
         builder' \in [Builders -> Threads \cup {Nobody}],
         \A b \in Builders : builder'[b] \in {builder[b], Nobody},
         \A u \in Threads : frames'[u] = frames[u] \/
           (~IsAt(u, "load") /\ \A b \in Builders : builder'[b] # u)
  PROVE  LocksInUse'
  <1>1. ASSUME NEW u \in Threads PROVE (IsAt(u, "load") <=> activity = u)'
    <2> SUFFICES ASSUME activity = u PROVE IsAt(u, "load")'
      BY DEF WorkInv, LoadsHold
    <2>1. IsAt(u, "load")
      BY DEF LocksInUse, HolderLoads
    <2> QED BY <2>1 DEF IsAt, Top
  <1>2. ASSUME NEW b \in Builders, NEW u \in Threads PROVE UnderLock(b, u)'
    <2>1. builder'[b] = u => builder[b] = u /\ frames'[u] = frames[u]
      BY NobodyAssumption
    <2> QED BY <2>1, HolderStays
  <1> QED BY <1>1, <1>2 DEF LocksInUse, HolderLoads

\* One thread, that does not load, leaves the build locks it held.
LEMMA LocksLeft ==
  ASSUME WorkInv, LocksInUse, WorkInv', UNCHANGED activity,
         NEW t \in Threads, ~IsAt(t, "load"), LeaveBuilder(t),
         \A u \in Threads \ {t} : frames'[u] = frames[u]
  PROVE  LocksInUse'
  <1>1. \A b \in Builders : builder'[b] \in {builder[b], Nobody} /\ builder'[b] # t
    BY NobodyAssumption DEF LeaveBuilder
  <1>2. builder' \in [Builders -> Threads \cup {Nobody}]
    BY DEF LeaveBuilder, LocksInUse
  <1> QED BY <1>1, <1>2, LocksStay

\* One thread that neither loads nor builds moves, and the locks stay.
LEMMA LocksKept ==
  ASSUME WorkInv, LocksInUse, WorkInv', UNCHANGED <<activity, builder>>,
         NEW t \in Threads, ~IsAt(t, "load"), ~Building(t),
         \A u \in Threads \ {t} : frames'[u] = frames[u]
  PROVE  LocksInUse'
  <1>1. \A b \in Builders : builder'[b] # t
    BY BuildersBuild
  <1>2. builder' \in [Builders -> Threads \cup {Nobody}]
    BY DEF LocksInUse
  <1> QED BY <1>1, <1>2, LocksStay

LEMMA AskLocks ==
  ASSUME WorkInv, LocksInUse, WorkInv', NEW t \in Threads, NEW w \in Works,
         FindKept(t, w) \/ Join(t, w) \/ Refuse(t, w) \/ Own(t, w)
  PROVE  LocksInUse'
  <1>1. Asks(t, w) /\ UNCHANGED <<activity, builder>>
    BY DEF FindKept, Join, Refuse, Own, MustStart
  <1>2. ~IsAt(t, "load") /\ ~Building(t)
    BY <1>1 DEF Asks, IsAt, Building
  <1>3. \A u \in Threads \ {t} : frames'[u] = frames[u]
    BY DEF FindKept, Join, Refuse, Own, Call, WorkInv, Stacks
  <1> QED BY <1>1, <1>2, <1>3, LocksKept

LEMMA HoldLocks ==
  ASSUME WorkInv, LocksInUse, WorkInv', NEW t \in Threads, NEW w \in Works, Hold(t, w)
  PROVE  LocksInUse'
  <1> DEFINE f == [work |-> w, at |-> "load", left |-> <<>>, good |-> TRUE]
  <1>1. /\ Asks(t, w) /\ activity' = t /\ UNCHANGED builder
        /\ frames' = [frames EXCEPT ![t] = Append(frames[t], f)]
    BY DEF Hold, MustStart, Call
  <1>2. /\ frames'[t] = Append(frames[t], f)
        /\ \A u \in Threads \ {t} : frames'[u] = frames[u]
    BY <1>1 DEF WorkInv, Stacks
  <1>3. f \in FittingFrame /\ f.at = "load" /\ f.work = w
    BY DEF FittingFrame, Frame, Places
  <1> HIDE DEF f
  <1>4. Append(frames[t], f) # <<>> /\ Last(Append(frames[t], f)) = f
    <2>1. Stack(frames[t])
      BY StackOf DEF WorkInv
    <2>2. frames[t] = <<>> \/ (InNeed(frames[t]) /\ f.work = Head(Last(frames[t]).left))
      BY <1>1, <1>3, AskedFor
    <2> QED BY <1>3, <2>1, <2>2, PushedStack
  <1>5. IsAt(t, "load")'
    BY <1>2, <1>3, <1>4 DEF IsAt, Top
  <1>6. ASSUME NEW u \in Threads PROVE (IsAt(u, "load") <=> activity = u)'
    BY <1>1, <1>5 DEF WorkInv, LoadsHold
  <1>7. ASSUME NEW b \in Builders, NEW u \in Threads PROVE UnderLock(b, u)'
    <2>1. ~Building(t)
      BY <1>1 DEF Asks, Building, IsAt
    <2>2. builder[b] # t
      BY <2>1, BuildersBuild
    <2> QED BY <1>1, <1>2, <2>2, HolderStays
  <1>8. activity' \in Threads /\ builder' \in [Builders -> Threads \cup {Nobody}]
    BY <1>1 DEF LocksInUse
  <1> QED BY <1>6, <1>7, <1>8 DEF LocksInUse, HolderLoads

\* Loading is over.
LEMMA LoadedLocks ==
  ASSUME WorkInv, LocksInUse, WorkInv', NEW t \in Threads, Load(t) \/ Release(t)
  PROVE  LocksInUse'
  <1>1. IsAt(t, "load") /\ activity' = Nobody /\ UNCHANGED builder
    BY DEF Load, Release
  <1>2. \A u \in Threads \ {t} : frames'[u] = frames[u]
    BY DEF Load, Release, GoTo, WorkInv, Stacks
  <1>3. ASSUME NEW u \in Threads PROVE (IsAt(u, "load") <=> activity = u)'
    BY <1>1, NobodyAssumption DEF WorkInv, LoadsHold
  <1>4. ~Building(t)
    BY <1>1 DEF Building, IsAt
  <1>5. ASSUME NEW b \in Builders, NEW u \in Threads PROVE UnderLock(b, u)'
    <2>1. builder[b] # t
      BY <1>4, BuildersBuild
    <2> QED BY <1>1, <1>2, <2>1, HolderStays
  <1>6. activity' = Nobody /\ builder' \in [Builders -> Threads \cup {Nobody}]
    BY <1>1 DEF LocksInUse
  <1> QED BY <1>3, <1>5, <1>6 DEF LocksInUse, HolderLoads

\* Where a call goes to, and what it is about.
LEMMA GoneTo ==
  ASSUME WorkInv, NEW t \in Threads, frames[t] # <<>>, NEW place, GoTo(t, place)
  PROVE  /\ frames'[t] # <<>> /\ Top(t)'.at = place /\ Top(t)'.work = Top(t).work
         /\ \A u \in Threads \ {t} : frames'[u] = frames[u]
  <1> DEFINE f == [Top(t) EXCEPT !.at = place]
             calls == [frames[t] EXCEPT ![Len(frames[t])] = f]
  <1>1. Stack(frames[t])
    BY StackOf DEF WorkInv
  <1>2. Top(t) \in Frame /\ Len(frames[t]) \in Nat \ {0}
    BY <1>1, LastIsFrame DEF Top
  <1>3. f.at = place /\ f.work = Top(t).work
    BY <1>2 DEF Frame
  <1>4. frames'[t] = calls /\ \A u \in Threads \ {t} : frames'[u] = frames[u]
    BY DEF GoTo, Top, Last, WorkInv, Stacks
  <1> HIDE DEF f
  <1>5. calls # <<>> /\ Last(calls) = f
    BY <1>1, <1>2 DEF Stack, Last
  <1> QED BY <1>3, <1>4, <1>5 DEF Top

\* A build lock is held where the thread goes to, if it was not left.
LEMMA BuilderMoves ==
  ASSUME WorkInv, LocksInUse, WorkInv', UNCHANGED activity, NEW t \in Threads, ~IsAt(t, "load"),
         frames[t] # <<>>, NEW place \in {"build", "keep"}, GoTo(t, place),
         builder' \in [Builders -> Threads \cup {Nobody}],
         \A b \in Builders : builder'[b] = t => b \in BuilderOf(Top(t).work.kind),
         \A b \in Builders : builder'[b] # t => builder'[b] = builder[b]
  PROVE  LocksInUse'
  <1>1. /\ frames'[t] # <<>> /\ Top(t)'.at = place /\ Top(t)'.work = Top(t).work
        /\ \A u \in Threads \ {t} : frames'[u] = frames[u]
    BY GoneTo
  <1>2. ASSUME NEW u \in Threads PROVE (IsAt(u, "load") <=> activity = u)'
    <2> SUFFICES ASSUME activity = u PROVE IsAt(u, "load")'
      BY DEF WorkInv, LoadsHold
    <2>1. IsAt(u, "load")
      BY DEF LocksInUse, HolderLoads
    <2>2. frames'[u] = frames[u]
      BY <1>1, <2>1
    <2> QED BY <2>1, <2>2 DEF IsAt, Top
  <1>3. ASSUME NEW b \in Builders, NEW u \in Threads PROVE UnderLock(b, u)'
    <2>1. CASE u = t
      <3>1. Building(t)'
        BY <1>1 DEF Building, IsAt
      <3> QED BY <1>1, <2>1, <3>1 DEF UnderLock
    <2>2. CASE u # t
      BY <1>1, <2>2, HolderStays
    <2> QED BY <2>1, <2>2
  <1>4. activity' \in Threads \cup {Nobody}
    BY DEF LocksInUse
  <1> QED BY <1>2, <1>3, <1>4 DEF LocksInUse, HolderLoads

LEMMA EnterLocks ==
  ASSUME WorkInv, LocksInUse, WorkInv', NEW t \in Threads, Enter(t)
  PROVE  LocksInUse'
  <1>1. /\ frames[t] # <<>> /\ ~IsAt(t, "load") /\ ~Building(t) /\ GoTo(t, "build")
        /\ UNCHANGED activity
        /\ builder' = [b \in Builders |-> IF b \in BuilderOf(Top(t).work.kind) THEN t ELSE builder[b]]
    BY DEF Enter, IsAt, Building
  <1>2. \A b \in Builders : builder[b] # t
    BY <1>1, BuildersBuild
  <1>3. builder' \in [Builders -> Threads \cup {Nobody}]
    BY <1>1 DEF LocksInUse
  <1>4. \A b \in Builders : builder'[b] = t => b \in BuilderOf(Top(t).work.kind)
    BY <1>1, <1>2
  <1>5. \A b \in Builders : builder'[b] # t => builder'[b] = builder[b]
    BY <1>1
  <1> QED BY <1>1, <1>3, <1>4, <1>5, BuilderMoves

LEMMA BuildLocks ==
  ASSUME WorkInv, LocksInUse, WorkInv', NEW t \in Threads, Build(t)
  PROVE  LocksInUse'
  <1>1. frames[t] # <<>> /\ ~IsAt(t, "load") /\ UNCHANGED activity
    BY DEF Build, IsAt
  <1>2. CASE LeaveBuilder(t)
    <2>1. PICK place : GoTo(t, place)
      BY DEF Build
    <2>2. \A u \in Threads \ {t} : frames'[u] = frames[u]
      BY <1>1, <2>1, GoneTo
    <2> QED BY <1>1, <1>2, <2>2, LocksLeft
  <1>3. CASE ~LeaveBuilder(t)
    <2>1. Top(t).work.kind \in {"read", "catalog", "detail"} /\ UNCHANGED builder
      BY <1>3 DEF Build
    <2>2. GoTo(t, "keep")
      BY <2>1 DEF Build, Jobs
    <2>3. builder' \in [Builders -> Threads \cup {Nobody}]
      BY <2>1 DEF LocksInUse
    <2>4. \A b \in Builders : builder'[b] = t => b \in BuilderOf(Top(t).work.kind)
      BY <2>1 DEF LocksInUse, UnderLock
    <2> QED BY <1>1, <2>1, <2>2, <2>3, <2>4, BuilderMoves
  <1> QED BY <1>2, <1>3

LEMMA LeaveLocks ==
  ASSUME WorkInv, LocksInUse, WorkInv', NEW t \in Threads, Break(t) \/ Keep(t)
  PROVE  LocksInUse'
  <1>1. ~IsAt(t, "load") /\ frames[t] # <<>> /\ LeaveBuilder(t) /\ UNCHANGED activity
    BY DEF Break, Keep, IsAt
  <1>2. \A u \in Threads \ {t} : frames'[u] = frames[u]
    BY DEF Break, Keep, GoTo, WorkInv, Stacks
  <1> QED BY <1>1, <1>2, LocksLeft

LEMMA EndLocks ==
  ASSUME WorkInv, LocksInUse, WorkInv', NEW t \in Threads, Settle(t) \/ Drop(t)
  PROVE  LocksInUse'
  <1>1. UNCHANGED <<activity, builder>> /\ ~IsAt(t, "load") /\ ~Building(t)
    BY DEF Settle, Drop, IsAt, Building
  <1>2. \A u \in Threads \ {t} :
          frames'[u] = frames[u] \/ (~IsAt(u, "load") /\ ~Building(u))
    BY DEF Settle, Drop, WaitsFor, IsAt, Building, WorkInv, Stacks
  <1>3. \A u \in Threads : frames'[u] = frames[u] \/
          (~IsAt(u, "load") /\ \A b \in Builders : builder'[b] # u)
    BY <1>1, <1>2, BuildersBuild
  <1>4. builder' \in [Builders -> Threads \cup {Nobody}]
    BY <1>1 DEF LocksInUse
  <1> QED BY <1>1, <1>3, <1>4, LocksStay

LEMMA LocksInUseStep ==
  ASSUME WorkInv, LocksInUse, WorkInv', [Next]_vars
  PROVE  LocksInUse'
  <1>1. CASE \E t \in Threads, w \in Works :
          FindKept(t, w) \/ Join(t, w) \/ Refuse(t, w) \/ Own(t, w) \/ Hold(t, w)
    BY <1>1, AskLocks, HoldLocks
  <1>2. CASE \E t \in Threads : Proceed(t)
    BY <1>2, LoadedLocks, EnterLocks, BuildLocks, LeaveLocks, EndLocks DEF Proceed
  <1>3. CASE UNCHANGED <<frames, activity, builder>>
    BY <1>3 DEF LocksInUse, HolderLoads, UnderLock, Building, IsAt, Top
  <1>4. (\E w \in Works : Invalidate(w.bundle)) \/ UNCHANGED vars
          => UNCHANGED <<frames, activity, builder>>
    BY DEF Invalidate, vars
  <1> QED BY <1>1, <1>2, <1>3, <1>4 DEF Next

-----------------------------------------------------------------------------
(* The theorems.                                                           *)

LEMMA WorkInvStep == WorkInv /\ [Next]_vars => WorkInv'
  <1> SUFFICES ASSUME WorkInv, [Next]_vars PROVE WorkInv'
    OBVIOUS
  <1>1. CASE \E t \in Threads, w \in Works :
          FindKept(t, w) \/ Join(t, w) \/ Refuse(t, w) \/ Own(t, w) \/ Hold(t, w)
    BY <1>1, FindKeptStep, JoinStep, RefuseStep, OwnStep, HoldStep
  <1>2. CASE \E t \in Threads : Proceed(t)
    BY <1>2, LoadStep, ReleaseStep, EnterStep, BuildStep, BreakStep, KeepStep, SettleStep, DropStep
       DEF Proceed
  <1>3. CASE \E w \in Works : Invalidate(w.bundle)
    BY <1>3, InvalidateStep
  <1>4. CASE UNCHANGED vars
    <2>1. UNCHANGED <<frames, future, activity>>
      BY <1>4 DEF vars
    <2>2. Stacks' /\ NoNewLoad /\ OwnersStay
      BY <2>1 DEF WorkInv, Stacks, NoNewLoad, OwnersStay, SameOwners, IsAt, Top
    <2> QED BY <2>1, <2>2, NoFutureMoves, QuietStep
  <1> QED BY <1>1, <1>2, <1>3, <1>4 DEF Next

LEMMA WorkInvariant == Spec => []WorkInv
  BY WorkInvInit, WorkInvStep, PTL DEF Spec

\* Whatever the threads ask for, heavy work that excludes other heavy work never
\* runs beside it, nor beside a load or a recommendation of Draft Lab.
THEOREM HeavyWorkIsExclusive == Spec => []ExclusiveWork
  <1>1. WorkInv => ExclusiveWork
    BY DEF WorkInv
  <1> QED BY <1>1, WorkInvariant, PTL

\* However many threads ask for an answer, at most one of them calculates it.
THEOREM AnswersAreCalculatedOnce == Spec => []OneCalculationEach
  <1>1. ASSUME WorkInv PROVE OneCalculationEach
    <2> SUFFICES ASSUME NEW t \in Threads, NEW u \in Threads, NEW c \in Calls(t),
                        Owns(t, c.work), Owns(u, c.work)
                 PROVE  t = u
      BY DEF OneCalculationEach
    <2>1. Stack(frames[t]) /\ Stack(frames[u])
      BY <1>1, StackOf DEF WorkInv
    <2>2. PICK i \in 1 .. Len(frames[t]) : frames[t][i].work = c.work /\ Working(frames[t][i])
      BY DEF Owns, Calls, Working
    <2>3. PICK j \in 1 .. Len(frames[u]) : frames[u][j].work = c.work /\ Working(frames[u][j])
      BY DEF Owns, Calls, Working
    <2>4. i \in Nat /\ j \in Nat /\ c.work \in Works
      BY <2>1, <2>2, <2>3 DEF Stack, FittingFrame, Frame
    <2> QED BY <1>1, <2>2, <2>3, <2>4 DEF Owner, WorkInv, SingleOwners
  <1> QED BY <1>1, WorkInvariant, PTL

\* A request that was admitted is never turned away half-way by the guards.
THEOREM NeedsAreNeverRefused == Spec => []NestedIsAdmitted
  <1>1. ASSUME WorkInv PROVE NestedIsAdmitted
    <2> SUFFICES ASSUME NEW t \in Threads, IsAt(t, "work"), Top(t).left # <<>>
                 PROVE  Admits(Head(Top(t).left))
      BY DEF NestedIsAdmitted
    <2> DEFINE w == Head(Top(t).left)
    <2>1. frames[t] # <<>> /\ InNeed(frames[t])
      BY DEF IsAt, InNeed, Top
    <2>2. Top(t).work \in Underway /\ NeedFits(Top(t).work, w)
      BY <1>1, <2>1, NeedIsServed
    <2> SUFFICES Admits(w)
      OBVIOUS
    <2> HIDE DEF w
    <2>3. CASE w.kind \in {"baseline", "read"}
      <3>1. Blocks(w.kind) = {}
        BY <2>3 DEF Blocks, PlayerLab
      <3> QED BY <3>1 DEF Admits
    <2>4. CASE w.kind = "catalog"
      <3>1. Blocks(w.kind) = Heavy \ PlayerLab
        BY <2>4 DEF Blocks, PlayerLab
      <3>2. \A v \in Underway : v.kind \in PlayerLab \cup {"baseline"}
        BY <1>1, <2>2, <2>4, PlayerLabAlone DEF NeedFits, PlayerLab
      <3>3. "baseline" \notin Heavy
        BY DEF Heavy, Jobs
      <3> QED BY <3>1, <3>2, <3>3 DEF Admits, Running
    <2> QED BY <2>2, <2>3, <2>4 DEF NeedFits
  <1> QED BY <1>1, WorkInvariant, PTL

SharingInv == WorkInv /\ FuturesFit /\ LocksInUse

LEMMA SharingInvariant == Spec => []SharingInv
  <1>1. Init => SharingInv
    <2> SUFFICES ASSUME Init PROVE FuturesFit /\ LocksInUse
      BY WorkInvInit DEF SharingInv
    <2>1. \A t \in Threads : frames[t] = <<>>
      BY DEF Init
    <2>2. FuturesFit
      BY <2>1 DEF FuturesFit, CallsFit
    <2>3. LocksInUse
      BY <2>1, NobodyAssumption DEF Init, LocksInUse, UnderLock, HolderLoads, IsAt
    <2> QED BY <2>2, <2>3
  <1>2. SharingInv /\ [Next]_vars => SharingInv'
    BY WorkInvStep, FuturesFitStep, LocksInUseStep DEF SharingInv
  <1> QED BY <1>1, <1>2, PTL DEF Spec

\* What every thread may rely on: a future is forgotten only by the thread that
\* registered it, after it was settled; no thread sleeps on a future that nobody
\* will settle; and a lock is held by a thread that is using it.
THEOREM FuturesAreKept ==
  Spec => [](CallsNest /\ FuturesAreOwned /\ WaitersWillBeWoken /\ LocksAreInUse)
  <1>1. ASSUME SharingInv
        PROVE  CallsNest /\ FuturesAreOwned /\ WaitersWillBeWoken /\ LocksAreInUse
    <2> USE <1>1 DEF SharingInv
    <2>1. ASSUME NEW t \in Threads
          PROVE  /\ Stack(frames[t]) /\ CallsFit(frames[t], future)
                 /\ Len(frames[t]) \in Nat
                 /\ \A i \in 1 .. Len(frames[t]) : i \in Nat /\ frames[t][i] \in Frame
      <3>1. Stack(frames[t]) /\ CallsFit(frames[t], future)
        BY StackOf DEF WorkInv, FuturesFit
      <3>2. frames[t] \in Seq(FittingFrame)
        BY <3>1 DEF Stack
      <3> QED BY <3>1, <3>2 DEF FittingFrame
    <2>2. CallsNest
      BY <2>1 DEF CallsNest, Stack, Nested
    <2>3. ASSUME NEW w \in Underway
          PROVE  \E t \in Threads, i \in Nat :
                   /\ Owner(frames[t], i, w) /\ Owns(t, w)
                   /\ future[w] # "pending" => IsAt(t, "drop") /\ Top(t).work = w
      <3>1. PICK t \in Threads, i \in Nat : Owner(frames[t], i, w)
        BY DEF WorkInv, UnderwayIsOwned
      <3>2. /\ i \in 1 .. Len(frames[t]) /\ frames[t][i] \in Frame
            /\ frames[t][i].work = w /\ frames[t][i].at \notin {"load", "wait"}
            /\ FrameFits(frames[t][i], future)
        BY <2>1, <3>1 DEF Owner, Working, CallsFit
      <3>3. Owns(t, w)
        BY <3>2 DEF Owns, Calls
      <3>4. ASSUME future[w] # "pending" PROVE IsAt(t, "drop") /\ Top(t).work = w
        <4>1. frames[t][i].at = "drop"
          BY <3>2, <3>4 DEF FrameFits, Frame, Places
        <4>2. i = Len(frames[t])
          BY <2>1, <3>2, <4>1 DEF Stack, Nested
        <4>3. frames[t] # <<>>
          BY <3>2
        <4> QED BY <3>2, <4>1, <4>2, <4>3 DEF IsAt, Top, Last
      <3> QED BY <3>1, <3>3, <3>4
    <2>4. ASSUME NEW t \in Threads, NEW c \in Calls(t), c.at # "load"
          PROVE  future[c.work] # "none"
      <3>1. PICK i \in 1 .. Len(frames[t]) : c = frames[t][i]
        BY DEF Calls
      <3>2. c \in Frame /\ FrameFits(c, future) /\ i \in Nat
        BY <2>1, <3>1 DEF CallsFit
      <3>3. CASE c.at = "wait"
        BY <3>2, <3>3 DEF FrameFits
      <3>4. CASE c.at # "wait"
        <4>1. Owner(frames[t], i, c.work) /\ c.work \in Works
          BY <2>4, <3>1, <3>2, <3>4 DEF Owner, Working, Frame
        <4> QED BY <3>2, <4>1 DEF WorkInv, OwnersAreUnderway, Underway
      <3> QED BY <3>3, <3>4
    <2>5. FuturesAreOwned
      BY <2>3, <2>4 DEF FuturesAreOwned
    <2>6. WaitersWillBeWoken
      BY <2>1, LastFits DEF WaitersWillBeWoken, IsAt, Top, FrameFits
    <2>7. LocksAreInUse
      BY DEF LocksAreInUse, LocksInUse, UnderLock, HolderLoads, Building
    <2> QED BY <2>2, <2>5, <2>6, <2>7
  <1> QED BY <1>1, SharingInvariant, PTL

\* When every request has returned and every job has ended, nothing says the
\* application is busy: no future, job flag or lock outlives the calls.
THEOREM NothingOutlivesItsCall == Spec => []NothingIsLeftBehind
  <1>1. ASSUME SharingInv PROVE NothingIsLeftBehind
    <2> USE <1>1 DEF SharingInv
    <2> SUFFICES ASSUME \A t \in Threads : frames[t] = <<>>
                 PROVE  /\ Running = {} /\ activity = Nobody
                        /\ \A b \in Builders : builder[b] = Nobody
      BY DEF NothingIsLeftBehind
    <2>1. Underway = {}
      BY DEF WorkInv, UnderwayIsOwned, Owner
    <2>2. Running = {}
      BY <2>1 DEF Running
    <2>3. activity = Nobody /\ \A b \in Builders : builder[b] = Nobody
      BY DEF LocksInUse, UnderLock, HolderLoads, Building, IsAt
    <2> QED BY <2>2, <2>3
  <1> QED BY <1>1, SharingInvariant, PTL

\* A thread that waits for an answer waits for a calculation that asks, on top of
\* it, for something lower.
LEMMA WaitsDescend ==
  ASSUME SharingInv, NEW t \in Threads, NEW u \in Threads, IsAt(u, "wait"), Owns(u, Top(t).work)
  PROVE  Depth(Top(u).work.kind) < Depth(Top(t).work.kind)
  <1>1. Stack(frames[u])
    BY StackOf DEF SharingInv, WorkInv
  <1>2. PICK i \in 1 .. Len(frames[u]) :
          frames[u][i].work = Top(t).work /\ frames[u][i].at # "wait"
    BY DEF Owns, Calls
  <1>3. Len(frames[u]) \in Nat
    BY <1>1 DEF Stack
  <1>4. i # Len(frames[u]) /\ Len(frames[u]) \in 1 .. Len(frames[u])
    BY <1>2, <1>3 DEF IsAt, Top, Last
  <1>5. i < Len(frames[u])
    BY <1>2, <1>3, <1>4
  <1> QED BY <1>1, <1>2, <1>4, <1>5 DEF Stack, Descending, Top, Last

\* No deadlock: whoever holds the activity lock waits for nothing, whoever holds
\* a build lock waits for the activity lock at most, and among threads that wait
\* for futures the one that waits for the lowest waits for none of the others.
THEOREM NoDeadlock == Spec => []NobodyWaitsInACircle
  <1>1. ASSUME SharingInv PROVE NobodyWaitsInACircle
    <2> SUFFICES ASSUME NEW S \in SUBSET Threads, S # {}
                 PROVE  \E t \in S : WaitsOn(t) \cap S = {}
      BY DEF NobodyWaitsInACircle
    <2>1. CASE activity \in S
      <3>1. activity \in Threads /\ IsAt(activity, "load")
        BY <1>1, <2>1 DEF SharingInv, LocksInUse, HolderLoads
      <3>2. WaitsOn(activity) = {}
        BY <3>1 DEF WaitsOn, NeedsActivity, IsAt
      <3> QED BY <2>1, <3>2
    <2>2. CASE activity \notin S /\ \E t \in S : ~IsAt(t, "wait") /\ ~IsAt(t, "work")
      <3>1. PICK t \in S : ~IsAt(t, "wait") /\ ~IsAt(t, "work")
        BY <2>2
      <3>2. \A u \in WaitsOn(t) : u = activity
        BY <3>1 DEF WaitsOn
      <3> QED BY <2>2, <3>2
    <2>3. CASE /\ activity \notin S
               /\ \A t \in S : IsAt(t, "wait") \/ IsAt(t, "work")
               /\ \E t \in S : IsAt(t, "work")
      <3>1. PICK t \in S : IsAt(t, "work")
        BY <2>3
      <3>2. ~IsAt(t, "wait")
        BY <3>1 DEF IsAt
      <3>3. ASSUME NEW u \in WaitsOn(t) PROVE u \notin S
        <4>1. u \in Threads /\ (u = activity \/ \E b \in BuilderOf(Top(t).work.kind) : builder[b] = u)
          BY <3>2 DEF WaitsOn
        <4>2. CASE \E b \in BuilderOf(Top(t).work.kind) : builder[b] = u
          <5>1. PICK b \in Builders : builder[b] = u
            BY <4>2 DEF BuilderOf, Builders
          <5>2. Building(u)
            BY <1>1, <4>1, <5>1 DEF SharingInv, LocksInUse, UnderLock
          <5>3. ~(IsAt(u, "wait") \/ IsAt(u, "work"))
            BY <5>2 DEF Building, IsAt
          <5> QED BY <2>3, <5>3
        <4> QED BY <2>3, <4>1, <4>2
      <3> QED BY <3>3
    <2>4. CASE activity \notin S /\ \A t \in S : IsAt(t, "wait")
      <3> DEFINE D(t) == Depth(Top(t).work.kind)
      <3>1. PICK t \in S : \A u \in S : ~(D(u) < D(t))
        <4>1. \A t \in S : D(t) \in {1, 2, 3}
          BY DEF Depth
        <4> HIDE DEF D
        <4>2. CASE \E t \in S : D(t) = 1
          BY <4>1, <4>2
        <4>3. CASE (\A t \in S : D(t) # 1) /\ \E t \in S : D(t) = 2
          BY <4>1, <4>3
        <4>4. CASE \A t \in S : D(t) = 3
          BY <4>4
        <4> QED BY <4>1, <4>2, <4>3, <4>4
      <3>2. ASSUME NEW u \in WaitsOn(t), u \in S PROVE FALSE
        <4>1. Owns(u, Top(t).work)
          BY <2>4, <3>2 DEF WaitsOn, NeedsActivity, IsAt
        <4>2. D(u) < D(t)
          BY <1>1, <2>4, <3>2, <4>1, WaitsDescend
        <4> QED BY <3>1, <3>2, <4>2
      <3> QED BY <3>2
    <2> QED BY <2>1, <2>2, <2>3, <2>4
  <1> QED BY <1>1, SharingInvariant, PTL

-----------------------------------------------------------------------------
(* Caches.                                                                 *)

LEMMA LargerElements ==
  ASSUME NEW A, NEW B, A \subseteq B, NEW f \in [Threads -> Seq(A)]
  PROVE  f \in [Threads -> Seq(B)]
  OBVIOUS

(* Counting up from 0 reaches every number. *)
LEMMA CountingUp ==
  ASSUME NEW S, 0 \in S, \A n \in Nat : n \in S => n + 1 \in S
  PROVE  \A n \in Nat : n \in S
  <1> DEFINE R == OpToRel(<, Nat)
             Out == Nat \ S
  <1> SUFFICES ASSUME Out # {} PROVE FALSE
    OBVIOUS
  <1>1. IsWellFoundedOn(R, Nat) /\ Out \subseteq Nat
    BY NatLessThanWellFounded
  <1>2. PICK n \in Out : \A m \in Out : ~(<<m, n>> \in R)
    <2> HIDE DEF R, Out
    <2> QED BY <1>1, WFMin
  <1>3. n \in Nat /\ n \notin S /\ n # 0
    BY <1>2
  <1>4. n - 1 \in Nat /\ n - 1 < n /\ n - 1 + 1 = n
    BY <1>3
  <1>5. <<n - 1, n>> \in R
    BY <1>3, <1>4 DEF OpToRel
  <1>6. n - 1 \in S
    <2> HIDE DEF R
    <2> QED BY <1>2, <1>4, <1>5
  <1> QED BY <1>3, <1>4, <1>6

\* What Kept recurses on.
KeptUpTo(works, dropped, i, f) ==
  IF i = 0 THEN <<>>
  ELSE IF works[i] \in dropped THEN f[i - 1] ELSE Append(f[i - 1], works[i])

\* A part of the first i works, and fewer if one of them is dropped.
PartOf(works, dropped, i, part) ==
  /\ part \in Seq(Works) /\ Len(part) <= i
  /\ (\E j \in 1 .. i : works[j] \in dropped) => Len(part) < i

(* One work more is kept or dropped. *)
LEMMA OneMoreKept ==
  ASSUME NEW works \in Seq(Works), NEW dropped, NEW i \in 1 .. Len(works), NEW f,
         PartOf(works, dropped, i - 1, f[i - 1])
  PROVE  PartOf(works, dropped, i, KeptUpTo(works, dropped, i, f))
  <1> DEFINE part == f[i - 1]
  <1>1. /\ part \in Seq(Works) /\ Len(part) \in Nat /\ Len(part) <= i - 1 /\ works[i] \in Works
        /\ i \in Nat /\ i # 0
    BY DEF PartOf
  <1>2. (\E j \in 1 .. i - 1 : works[j] \in dropped) => Len(part) < i - 1
    BY DEF PartOf
  <1> HIDE DEF part
  <1>3. CASE works[i] \in dropped
    <2>1. KeptUpTo(works, dropped, i, f) = part
      BY <1>1, <1>3 DEF KeptUpTo, part
    <2> QED BY <1>1, <2>1 DEF PartOf
  <1>4. CASE works[i] \notin dropped
    <2>1. KeptUpTo(works, dropped, i, f) = Append(part, works[i])
      BY <1>1, <1>4 DEF KeptUpTo, part
    <2>2. Append(part, works[i]) \in Seq(Works) /\ Len(Append(part, works[i])) = Len(part) + 1
      BY <1>1
    <2>3. ASSUME NEW j \in 1 .. i, works[j] \in dropped
          PROVE  Len(part) + 1 < i
      <3>1. j \in 1 .. i - 1
        BY <1>1, <1>4, <2>3
      <3> QED BY <1>1, <1>2, <2>3, <3>1
    <2> QED BY <1>1, <2>1, <2>2, <2>3 DEF PartOf
  <1> QED BY <1>3, <1>4

(* What is kept of a cache is a part of it. *)
LEMMA KeptIsPart ==
  ASSUME NEW works \in Seq(Works), NEW dropped
  PROVE  PartOf(works, dropped, Len(works), Kept(works, dropped))
  <1> DEFINE n == Len(works)
             N == 0 .. n
             Solves(f, m) == \A i \in 0 .. m : f[i] = KeptUpTo(works, dropped, i, f)
             S == {m \in Nat : m <= n => \E f : Solves(f, m)}
             T(f) == {m \in Nat : m <= n => PartOf(works, dropped, m, f[m])}
  <1>1. n \in Nat
    OBVIOUS
  <1> HIDE DEF n
  <1>2. 0 \in S
    <2> DEFINE f == [i \in {0} |-> <<>>]
    <2>1. Solves(f, 0)
      BY DEF KeptUpTo
    <2> QED BY <2>1, Zenon
  <1>3. ASSUME NEW m \in Nat, m \in S
        PROVE  m + 1 \in S
    <2> SUFFICES ASSUME m + 1 <= n PROVE \E f : Solves(f, m + 1)
      OBVIOUS
    <2>1. PICK f : Solves(f, m)
      BY <1>1, <1>3
    <2> DEFINE g == [i \in 0 .. m + 1 |-> IF i <= m THEN f[i] ELSE KeptUpTo(works, dropped, i, f)]
    <2>2. \A i \in 0 .. m : g[i] = f[i] /\ (i # 0 => i - 1 \in 0 .. m /\ g[i - 1] = f[i - 1])
      OBVIOUS
    <2>3. g[m + 1] = KeptUpTo(works, dropped, m + 1, f) /\ g[m] = f[m] /\ m + 1 - 1 = m
      OBVIOUS
    <2> HIDE DEF g
    <2>4. ASSUME NEW i \in 0 .. m + 1 PROVE g[i] = KeptUpTo(works, dropped, i, g)
      <3>1. CASE i \in 0 .. m
        <4>1. g[i] = KeptUpTo(works, dropped, i, f)
          BY <2>1, <2>2, <3>1
        <4>2. i # 0 => g[i - 1] = f[i - 1]
          BY <2>2, <3>1
        <4> QED BY <4>1, <4>2 DEF KeptUpTo
      <3>2. CASE i = m + 1
        <4>1. g[i - 1] = f[i - 1]
          BY <2>3, <3>2
        <4> QED BY <2>3, <3>2, <4>1 DEF KeptUpTo
      <3> QED BY <3>1, <3>2
    <2> QED BY <2>4, Zenon
  <1>4. n \in S
    <2> HIDE DEF S
    <2> QED BY <1>1, <1>2, <1>3, CountingUp
  <1>5. PICK f : Solves(f, n)
    BY <1>1, <1>4
  <1> DEFINE g == [i \in N |-> f[i]]
             k == CHOOSE h : h = [i \in N |-> KeptUpTo(works, dropped, i, h)]
  <1>6. g = [i \in N |-> KeptUpTo(works, dropped, i, g)]
    <2>1. ASSUME NEW i \in N PROVE f[i] = KeptUpTo(works, dropped, i, g)
      <3>1. f[i] = KeptUpTo(works, dropped, i, f)
        BY <1>5
      <3>2. i # 0 => i - 1 \in N
        BY <1>1
      <3>3. i # 0 => g[i - 1] = f[i - 1]
        BY <3>2
      <3> HIDE DEF g
      <3> QED BY <3>1, <3>3 DEF KeptUpTo
    <2> QED BY <2>1
  <1> HIDE DEF g
  <1>7. k = [i \in N |-> KeptUpTo(works, dropped, i, k)]
    <2>1. \E h : h = [i \in N |-> KeptUpTo(works, dropped, i, h)]
      BY <1>6, Zenon
    <2> QED BY <2>1, Zenon
  <1>8. Kept(works, dropped) = k[n]
    BY Zenon DEF Kept, KeptUpTo, n
  <1> HIDE DEF k
  <1>9. \A i \in N : k[i] = KeptUpTo(works, dropped, i, k)
    BY <1>7
  <1>10. 0 \in T(k)
    <2>1. k[0] = <<>>
      BY <1>1, <1>9 DEF KeptUpTo
    <2>2. <<>> \in Seq(Works) /\ Len(<<>>) = 0 /\ 1 .. 0 = {}
      OBVIOUS
    <2>3. PartOf(works, dropped, 0, <<>>)
      BY <2>2 DEF PartOf
    <2> QED BY <2>1, <2>3
  <1>11. ASSUME NEW m \in Nat, m \in T(k)
         PROVE  m + 1 \in T(k)
    <2> SUFFICES ASSUME m + 1 <= n PROVE PartOf(works, dropped, m + 1, k[m + 1])
      OBVIOUS
    <2>1. m + 1 \in 1 .. n /\ m + 1 \in N /\ m + 1 - 1 = m /\ m <= n
      BY <1>1
    <2>2. PartOf(works, dropped, m + 1 - 1, k[m + 1 - 1])
      BY <1>11, <2>1
    <2>3. PartOf(works, dropped, m + 1, KeptUpTo(works, dropped, m + 1, k))
      BY <2>1, <2>2, OneMoreKept DEF n
    <2> QED BY <1>9, <2>1, <2>3
  <1>12. n \in T(k)
    <2> DEFINE U == T(k)
    <2>1. 0 \in U /\ \A m \in Nat : m \in U => m + 1 \in U
      BY <1>10, <1>11
    <2> HIDE DEF U
    <2>2. n \in U
      BY <1>1, <2>1, CountingUp
    <2> QED BY <2>2 DEF U
  <1>13. PartOf(works, dropped, n, k[n])
    BY <1>1, <1>12
  <1> QED BY <1>8, <1>13 DEF n

\* What is kept is an answer that is shared.
LEMMA KeptKind ==
  ASSUME WorkInv, FuturesFit, NEW t \in Threads, IsAt(t, "keep")
  PROVE  Top(t).work \in Works /\ Top(t).work.kind \in Joined
  <1>1. frames[t] # <<>> /\ Top(t).at = "keep" /\ Stack(frames[t]) /\ CallsFit(frames[t], future)
    BY StackOf DEF IsAt, WorkInv, FuturesFit
  <1>2. Top(t) \in Frame /\ FrameFits(Top(t), future)
    BY <1>1, LastIsFrame, LastFits DEF Top
  <1>3. Top(t).work \in Works /\ Top(t).work.kind \notin Jobs
    BY <1>1, <1>2 DEF FrameFits, Frame
  <1>4. Top(t).work \in Underway
    BY <1>1, <1>2, <1>3 DEF FrameFits, Underway
  <1>5. Top(t).work.kind \notin Assists
    BY <1>4 DEF WorkInv, NoAssists
  <1> QED BY <1>3, <1>5, WorkAssumption DEF Kinds

CachesFit ==
  /\ cache \in [Joined -> Seq(Works)]
  /\ \A k \in Joined : Len(cache[k]) <= Capacity[k]

(* The newest answer takes the place it had, or one more. *)
LEMMA NewestFits ==
  ASSUME CachesFit, NEW w \in Works, w.kind \in Joined
  PROVE  /\ Newest(w.kind, w) \in Seq(Works) /\ Newest(w.kind, w) # <<>>
         /\ Len(Newest(w.kind, w)) <= Len(cache[w.kind]) + 1
         /\ IsKept(w) => Len(Newest(w.kind, w)) <= Len(cache[w.kind])
  <1> DEFINE works == cache[w.kind]
             part == Kept(works, {w})
  <1>1. works \in Seq(Works) /\ Len(works) \in Nat
    BY DEF CachesFit
  <1>2. IsKept(w) => \E j \in 1 .. Len(works) : works[j] \in {w}
    BY <1>1 DEF IsKept, Range
  <1> HIDE DEF works
  <1>3. PartOf(works, {w}, Len(works), part)
    BY <1>1, KeptIsPart
  <1> HIDE DEF part
  <1>4. /\ part \in Seq(Works) /\ Len(part) \in Nat /\ Len(part) <= Len(works)
        /\ IsKept(w) => Len(part) < Len(works)
    BY <1>2, <1>3 DEF PartOf
  <1>5. Newest(w.kind, w) = Append(part, w)
    BY DEF Newest, part, works
  <1>6. Append(part, w) \in Seq(Works) /\ Len(Append(part, w)) = Len(part) + 1 /\ Append(part, w) # <<>>
    <2>1. part \in Seq(Works) /\ w \in Works
      BY <1>4
    <2>2. Append(part, w) \in Seq(Works) /\ Len(Append(part, w)) = Len(part) + 1
      BY <2>1
    <2>3. Append(part, w) # <<>>
      <3> DEFINE longer == Append(part, w)
      <3>1. Len(longer) = Len(part) + 1
        BY <2>2
      <3> HIDE DEF longer
      <3>2. Len(longer) # 0
        BY <1>4, <3>1
      <3>3. longer # <<>>
        BY <3>2
      <3> QED BY <3>3 DEF longer
    <2> QED BY <2>2, <2>3
  <1> QED BY <1>1, <1>4, <1>5, <1>6 DEF works

LEMMA CachesFitStep ==
  ASSUME WorkInv, FuturesFit, CachesFit, [Next]_vars
  PROVE  CachesFit'
  <1>c. \A k \in Joined : Capacity[k] \in Nat /\ cache[k] \in Seq(Works) /\ Len(cache[k]) <= Capacity[k]
    BY CapacityAssumption DEF CachesFit
  <1>1. CASE UNCHANGED cache
    BY <1>1 DEF CachesFit
  <1>2. ASSUME NEW k \in Joined, NEW c \in Seq(Works), Len(c) <= Capacity[k], cache' = [cache EXCEPT ![k] = c]
        PROVE  CachesFit'
    BY <1>c, <1>2 DEF CachesFit
  <1>3. ASSUME NEW t \in Threads, NEW w \in Works, FindKept(t, w)
        PROVE  CachesFit'
    <2>1. IsKept(w) /\ w.kind \in Joined /\ cache' = [cache EXCEPT ![w.kind] = Newest(w.kind, w)]
      BY <1>3 DEF FindKept, IsKept
    <2>2. Newest(w.kind, w) \in Seq(Works) /\ Len(Newest(w.kind, w)) <= Len(cache[w.kind])
      BY <2>1, NewestFits
    <2>3. Len(Newest(w.kind, w)) <= Capacity[w.kind]
      <3>1. Len(Newest(w.kind, w)) \in Nat /\ Len(cache[w.kind]) \in Nat
        BY <1>c, <2>1, <2>2
      <3> QED BY <1>c, <2>1, <2>2, <3>1
    <2> QED BY <1>2, <2>1, <2>2, <2>3
  <1>4. ASSUME NEW t \in Threads, Keep(t)
        PROVE  CachesFit'
    <2> DEFINE w == Top(t).work
               kept == Newest(w.kind, w)
               c == IF Len(kept) > Capacity[w.kind] THEN Tail(kept) ELSE kept
    <2>1. IsAt(t, "keep") /\ cache' = [cache EXCEPT ![w.kind] = c]
      BY <1>4 DEF Keep
    <2>2. w \in Works /\ w.kind \in Joined
      BY <2>1, KeptKind
    <2> HIDE DEF w
    <2>3. kept \in Seq(Works) /\ kept # <<>> /\ Len(kept) <= Len(cache[w.kind]) + 1
      BY <2>2, NewestFits
    <2>4. Len(kept) <= Capacity[w.kind] + 1
      <3>1. Len(cache[w.kind]) \in Nat /\ Len(kept) \in Nat
        BY <1>c, <2>2, <2>3
      <3> QED BY <1>c, <2>2, <2>3, <3>1
    <2> HIDE DEF kept
    <2>5. c \in Seq(Works) /\ Len(c) <= Capacity[w.kind]
      BY <1>c, <2>2, <2>3, <2>4
    <2> HIDE DEF c
    <2> QED BY <1>2, <2>1, <2>2, <2>5
  <1>5. ASSUME NEW v \in Works, Invalidate(v.bundle)
        PROVE  CachesFit'
    <2> DEFINE gone == {w \in Works : w.bundle = v.bundle}
    <2>1. cache' = [k \in Joined |-> IF k \in {"gm", "timing"} THEN Kept(cache[k], gone) ELSE cache[k]]
      BY <1>5 DEF Invalidate
    <2> HIDE DEF gone
    <2>2. ASSUME NEW k \in Joined
          PROVE  Kept(cache[k], gone) \in Seq(Works) /\ Len(Kept(cache[k], gone)) <= Capacity[k]
      <3>1. PartOf(cache[k], gone, Len(cache[k]), Kept(cache[k], gone))
        BY <1>c, KeptIsPart
      <3>2. /\ Kept(cache[k], gone) \in Seq(Works) /\ Len(Kept(cache[k], gone)) <= Len(cache[k])
            /\ Len(cache[k]) \in Nat /\ Len(Kept(cache[k], gone)) \in Nat
        BY <1>c, <3>1 DEF PartOf
      <3> QED BY <1>c, <3>2
    <2> QED BY <1>c, <2>1, <2>2 DEF CachesFit
  <1> QED BY <1>1, <1>3, <1>4, <1>5
      DEF Next, vars, Proceed, Join, Refuse, Own, Hold, Load, Release, Enter, Build, Break, Settle, Drop

\* The variables of the heavy work keep their types, and no cache outgrows its bound: an
\* answer that is found again takes its own place, a new one that of the oldest.
THEOREM CachesStayInBounds == Spec => []TypeOK
  <1>1. Init => CachesFit
    <2> SUFFICES ASSUME Init PROVE CachesFit
      OBVIOUS
    <2>1. \A k \in Joined : Capacity[k] \in Nat
      BY CapacityAssumption
    <2>2. cache = [k \in Joined |-> <<>>]
      BY DEF Init
    <2>3. \A k \in Joined : cache[k] \in Seq(Works) /\ Len(cache[k]) = 0
      BY <2>2
    <2> QED BY <2>1, <2>2, <2>3 DEF CachesFit
  <1>2. SharingInv /\ CachesFit /\ [Next]_vars => CachesFit'
    BY CachesFitStep DEF SharingInv
  <1>3. SharingInv /\ CachesFit => TypeOK
    <2> SUFFICES ASSUME SharingInv, CachesFit PROVE TypeOK
      OBVIOUS
    <2>1. frames \in [Threads -> Seq(FittingFrame)]
      BY DEF SharingInv, WorkInv, Stacks
    <2>2. frames \in [Threads -> Seq(Frame)]
      <3>1. FittingFrame \subseteq Frame
        BY DEF FittingFrame
      <3> QED BY <2>1, <3>1, LargerElements
    <2> QED BY <2>2 DEF TypeOK, SharingInv, WorkInv, FutureTypes, Statuses, LocksInUse, CachesFit
  <1> QED BY <1>1, <1>2, <1>3, SharingInvariant, PTL DEF Spec

-----------------------------------------------------------------------------
(* The monitor of the browser's pages.                                     *)

USE TimeoutAssumption, HeartbeatAssumption, NoneAssumption

LEMMA MonitorInit == BrowserInit => BrowserIInv
  <1> SUFFICES ASSUME BrowserInit PROVE BrowserIInv
    OBVIOUS
  <1> USE DEF BrowserInit
  <1>1. BrowserTypeOK
    <2>1. 0 \in 0 .. Launch /\ 0 \in 0 .. Silence
      OBVIOUS
    <2> QED BY <2>1 DEF BrowserTypeOK
  <1>2. HeardIsRemembered /\ CloseIsForGood /\ DecidedOnUnused
    BY DEF HeardIsRemembered, CloseIsForGood, DecidedOnUnused
  <1> QED BY <1>1, <1>2 DEF BrowserIInv

\* Pages that leave, fall asleep or wake up are not heard any more, or not yet.
LEMMA PageMovesKeep ==
  ASSUME BrowserIInv, NEW p \in Pages, NEW to \in {"awake", "asleep", "gone"},
         page[p] # "gone", page' = [page EXCEPT ![p] = to],
         p \notin heard',
         heard' = heard \ {p}, settled' = settled \ {p},
         UNCHANGED <<server, monitor, working, silent, lasting>>,
         \/ mail' = mail
         \/ mail' = mail \cup {[page |-> p, kind |-> "ping"]}
         \/ mail' = mail \cup {[page |-> p, kind |-> "close"]} /\ to = "gone"
  PROVE  BrowserIInv'
  <1> USE DEF BrowserIInv, BrowserTypeOK, server, monitor
  <1>1. BrowserTypeOK'
    OBVIOUS
  <1>2. HeardIsRemembered'
    BY DEF HeardIsRemembered, Serving
  <1>3. CloseIsForGood'
    BY DEF CloseIsForGood
  <1>4. DecidedOnUnused'
    BY DEF DecidedOnUnused
  <1> QED BY <1>1, <1>2, <1>3, <1>4

LEMMA PageKeeps ==
  ASSUME BrowserIInv, NEW p \in Pages, Open(p) \/ Close(p) \/ Vanish(p) \/ Sleep(p) \/ Wake(p)
  PROVE  BrowserIInv'
  <1>1. p \in heard => page[p] = "awake"
    BY DEF BrowserIInv, HeardIsRemembered
  <1>2. settled \subseteq heard
    BY DEF BrowserIInv, BrowserTypeOK
  <1>3. /\ UNCHANGED <<server, monitor, working, silent, lasting>>
        /\ page[p] # "gone"
        /\ heard' = heard \ {p} /\ settled' = settled \ {p}
    BY <1>1, <1>2 DEF Open, Close, Vanish, Sleep, Wake, Unheard, past
  <1>4. /\ page' \in {[page EXCEPT ![p] = to] : to \in {"awake", "asleep", "gone"}}
        /\ \/ mail' = mail
           \/ mail' = mail \cup {[page |-> p, kind |-> "ping"]}
           \/ /\ mail' = mail \cup {[page |-> p, kind |-> "close"]}
              /\ page' = [page EXCEPT ![p] = "gone"]
    BY DEF Open, Close, Vanish, Sleep, Wake, Send
  <1> QED BY <1>3, <1>4, PageMovesKeep

LEMMA PingKeeps ==
  ASSUME BrowserIInv, NEW p \in Pages, Ping(p)
  PROVE  BrowserIInv'
  <1> USE DEF BrowserIInv, BrowserTypeOK, server, monitor, past, Ping, Send
  <1>1. BrowserTypeOK'
    OBVIOUS
  <1>2. HeardIsRemembered'
    BY DEF HeardIsRemembered, Serving
  <1>3. CloseIsForGood'
    BY DEF CloseIsForGood
  <1>4. DecidedOnUnused'
    BY DEF DecidedOnUnused
  <1> QED BY <1>1, <1>2, <1>3, <1>4

\* Background work starts at a page that is there, and is seen to end.
LEMMA JobKeeps ==
  ASSUME BrowserIInv, EndJob \/ \E p \in Pages : StartJob(p)
  PROVE  BrowserIInv'
  <1> USE DEF BrowserIInv, BrowserTypeOK, server, monitor, browser, past, EndJob, StartJob
  <1>1. BrowserTypeOK'
    OBVIOUS
  <1>2. HeardIsRemembered'
    BY DEF HeardIsRemembered, Serving
  <1>3. CloseIsForGood'
    BY DEF CloseIsForGood
  <1>4. DecidedOnUnused'
    BY DEF DecidedOnUnused
  <1> QED BY <1>1, <1>2, <1>3, <1>4

\* The server remembers who pings, and forgets only a page that is gone.
LEMMA RequestKeeps ==
  ASSUME BrowserIInv, NEW p \in Pages, BrowserPing(p) \/ BrowserClose(p)
  PROVE  BrowserIInv'
  <1> USE DEF BrowserIInv, BrowserTypeOK, monitor, past, BrowserPing, BrowserClose, Received
  <1>0. 0 \in 0 .. Idle /\ 0 \in 0 .. Grace
    OBVIOUS
  <1>1. BrowserTypeOK'
    <2>1. /\ clients' \in [Pages -> (0 .. Idle) \cup {None}]
          /\ departed' \in (0 .. Grace) \cup {None}
      BY <1>0
    <2>2. heard' \subseteq Pages /\ heard \subseteq heard' /\ connected' \in BOOLEAN
      OBVIOUS
    <2> QED BY <2>1, <2>2
  <1>2. HeardIsRemembered'
    <2>1. CASE BrowserPing(p)
      <3>1. /\ clients'[p] = 0 /\ 0 # None /\ 0 <= Silence /\ 0 <= silent[p]
            /\ p \in heard' => page[p] = "awake"
        BY <2>1 DEF HeardIsRemembered
      <3>2. ASSUME NEW q \in heard', q # p
            PROVE  /\ q \in heard /\ clients'[q] = clients[q]
                   /\ [page |-> q, kind |-> "ping"] \in mail'
                         <=> [page |-> q, kind |-> "ping"] \in mail
        BY <2>1, <3>2
      <3> QED BY <2>1, <3>1, <3>2 DEF HeardIsRemembered, Serving
    <2>2. CASE BrowserClose(p)
      <3>1. page[p] = "gone" /\ p \notin heard
        BY <2>2 DEF CloseIsForGood, HeardIsRemembered
      <3> QED BY <2>2, <3>1 DEF HeardIsRemembered, Serving
    <2> QED BY <2>1, <2>2
  <1>3. CloseIsForGood'
    BY DEF CloseIsForGood
  <1>4. DecidedOnUnused'
    BY DEF DecidedOnUnused
  <1> QED BY <1>1, <1>2, <1>3, <1>4

\* Whoever was heard is not stale, so a monitor that finds nobody has nobody.
LEMMA LookKeeps ==
  ASSUME BrowserIInv, Look
  PROVE  BrowserIInv'
  <1> USE DEF BrowserIInv, BrowserTypeOK
  <1>0. phase = "wait" /\ Serving
    BY DEF Look, Serving
  <1>1. \A p \in heard : p \in Pages \ Stale /\ clients[p] # None
    <2> SUFFICES ASSUME NEW p \in heard PROVE p \in Pages \ Stale /\ clients[p] # None
      OBVIOUS
    <2>1. p \in Pages /\ clients[p] # None /\ clients[p] <= Silence
      BY <1>0 DEF HeardIsRemembered
    <2>2. clients[p] \in 0 .. Idle
      BY <2>1
    <2>3. ~(clients[p] >= Idle)
      BY <2>1, <2>2
    <2> QED BY <2>1, <2>3 DEF Stale
  <1>2. /\ clients' = [p \in Pages |-> IF p \in Stale THEN None ELSE clients[p]]
        /\ departed' \in {departed, 0}
        /\ phase' \in {"wait", "ask", "stop"} /\ looked' = TRUE
        /\ UNCHANGED <<connected, age, working, page, silent, mail, heard, settled, lasting>>
    BY DEF Look, Departure, browser, past
  <1>3. BrowserTypeOK'
    <2>1. 0 \in 0 .. Grace
      OBVIOUS
    <2>2. /\ clients' \in [Pages -> (0 .. Idle) \cup {None}]
          /\ departed' \in (0 .. Grace) \cup {None}
      BY <1>2, <2>1
    <2> QED BY <1>2, <2>2
  <1>4. HeardIsRemembered'
    BY <1>0, <1>1, <1>2 DEF HeardIsRemembered
  <1>5. CloseIsForGood'
    BY <1>2 DEF CloseIsForGood
  <1>6. phase' # "wait" => settled = {} /\ (phase' = "stop" => ~lasting)
    BY <1>0, <1>1, <1>2 DEF CloseIsForGood, Look
  <1>7. DecidedOnUnused'
    BY <1>0, <1>2, <1>6 DEF DecidedOnUnused
  <1> QED BY <1>3, <1>4, <1>5, <1>7

LEMMA DecisionKeeps ==
  ASSUME BrowserIInv, Ask \/ Shutdown
  PROVE  BrowserIInv'
  <1> USE DEF BrowserIInv, BrowserTypeOK, server, browser, past, Ask, Shutdown
  <1>1. BrowserTypeOK'
    OBVIOUS
  <1>2. HeardIsRemembered'
    BY DEF HeardIsRemembered, Serving
  <1>3. CloseIsForGood'
    BY DEF CloseIsForGood
  <1>4. DecidedOnUnused'
    BY DEF DecidedOnUnused, CloseIsForGood
  <1> QED BY <1>1, <1>2, <1>3, <1>4

\* A page that is awake and the server's memory of it grow older together.
LEMMA TickKeeps ==
  ASSUME BrowserIInv, Tick
  PROVE  BrowserIInv'
  <1> USE DEF BrowserIInv, BrowserTypeOK, Tick
  <1>1. ASSUME NEW limit \in Nat, NEW t \in (0 .. limit) \cup {None}
        PROVE  /\ Older(t, limit) \in (0 .. limit) \cup {None}
               /\ t # None => Older(t, limit) \in 0 .. limit
               /\ t # None /\ t < limit => Older(t, limit) = t + 1
    BY DEF Older
  <1>2. BrowserTypeOK'
    BY <1>1
  <1>3. HeardIsRemembered'
    <2>1. ASSUME NEW p \in heard
          PROVE  /\ clients'[p] # None /\ clients'[p] <= Silence
                 /\ clients'[p] <= silent'[p]
      <3>1. /\ page[p] = "awake" /\ silent[p] < Silence /\ clients[p] # None
            /\ clients[p] <= silent[p] /\ p \in Pages
        BY DEF HeardIsRemembered, Serving
      <3>2. clients'[p] = clients[p] + 1 /\ silent'[p] = silent[p] + 1
        BY <1>1, <3>1
      <3> QED BY <3>1, <3>2
    <2> QED BY <2>1 DEF HeardIsRemembered
  <1>4. CloseIsForGood'
    BY DEF CloseIsForGood
  <1>5. DecidedOnUnused'
    BY DEF DecidedOnUnused
  <1> QED BY <1>2, <1>3, <1>4, <1>5

LEMMA MonitorStutterKeeps ==
  ASSUME BrowserIInv, UNCHANGED browserVars
  PROVE  BrowserIInv'
  BY DEF BrowserIInv, BrowserTypeOK, HeardIsRemembered, CloseIsForGood, DecidedOnUnused, Serving,
         browserVars, server, monitor, browser, past

\* Whatever other pages are closed, frozen, reloaded or lost, and in whatever
\* order their requests are handled, the application ends under no page that
\* is in use and under no work that goes on, for any pages and any times with
\* a heartbeat shorter than the idle timeout (local_server.py,
\* _monitor_browser; app.js, pingLifecycle).
THEOREM MonitorStopsOnlyUnused == BrowserSpec => []StopsOnlyUnused
  <1>1. BrowserIInv /\ [BrowserNext]_browserVars => BrowserIInv'
    BY PageKeeps, PingKeeps, JobKeeps, RequestKeeps, LookKeeps, DecisionKeeps, TickKeeps,
       MonitorStutterKeeps DEF BrowserNext, PageNext
  <1>2. BrowserIInv => StopsOnlyUnused
    BY DEF BrowserIInv, DecidedOnUnused, StopsOnlyUnused
  <1> QED BY <1>1, <1>2, MonitorInit, PTL DEF BrowserSpec
=============================================================================

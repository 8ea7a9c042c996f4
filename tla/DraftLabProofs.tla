---------------------------- MODULE DraftLabProofs ----------------------------
(***************************************************************************)
(* Draft Lab's live drafts and its training jobs.                          *)
(*                                                                         *)
(* The inductive invariant of DraftRoom, and what follows from it: no room *)
(* mixes two public drafts, and the room implements DraftLedger.           *)
(*                                                                         *)
(* For any settings, targets, number of jobs, promoting requests and       *)
(* faults: autosaves and models are those of uninterrupted runs, what      *)
(* ended is on disk and recoverable, and promotions agree.                 *)
(***************************************************************************)
EXTENDS DraftRoom, DraftTraining, SequenceTheorems, FiniteSetTheorems, TLAPS

-----------------------------------------------------------------------------
(* Lemmas about the data.                                                  *)

LEMMA TotalIsNat == Total \in Nat
  BY RoomAssumption DEF Total

LEMMA DrafterIsOne == ASSUME NEW i \in Nat \ {0} PROVE DrafterForPick(i) \in Drafters
  <1> DEFINE offset == (i - 1) % TeamCount
  <1>1. TeamCount \in Nat /\ TeamCount > 0 /\ i - 1 \in Nat
    BY RoomAssumption
  <1>2. offset \in 0..(TeamCount - 1)
    BY <1>1
  <1>3. DrafterForPick(i) \in {offset + 1, TeamCount - offset}
    BY DEF DrafterForPick
  <1> HIDE DEF offset
  <1> QED BY <1>1, <1>2, <1>3 DEF Drafters

\* A valid new pick keeps the list legal.
LEMMA AppendIsLegal ==
  ASSUME NEW picks \in Seq(Pick), NEW pick \in Pick, Legal(picks),
         ValidNewPick(picks, pick.drafter, pick.player)
  PROVE  Append(picks, pick) \in Seq(Pick) /\ Legal(Append(picks, pick))
  <1> DEFINE longer == Append(picks, pick)
  <1>1. longer \in Seq(Pick) /\ Len(longer) = Len(picks) + 1 /\ Len(picks) \in Nat
    OBVIOUS
  <1>2. \A i \in 1..Len(longer) :
          longer[i] = IF i = Len(picks) + 1 THEN pick ELSE picks[i]
    OBVIOUS
  <1>3. Len(longer) <= Total
    BY <1>1, TotalIsNat DEF ValidNewPick, Complete
  <1>4. \A i \in 1..Len(longer) : longer[i].drafter = DrafterForPick(i)
    <2> HIDE DEF longer
    <2> QED BY <1>1, <1>2 DEF ValidNewPick, Legal
  <1>5. \A i \in 1..Len(picks) : picks[i].player # pick.player
    BY DEF ValidNewPick, Drafted
  <1>6. \A i, j \in 1..Len(longer) : i # j => longer[i].player # longer[j].player
    <2> HIDE DEF longer
    <2> QED BY <1>1, <1>2, <1>5 DEF Legal
  <1> HIDE DEF longer
  <1> QED BY <1>1, <1>3, <1>4, <1>6 DEF Legal, longer

\* The list without its last pick is legal.
LEMMA FrontIsLegal ==
  ASSUME NEW picks \in Seq(Pick), Legal(picks), picks # <<>>
  PROVE  /\ SubSeq(picks, 1, Len(picks) - 1) \in Seq(Pick)
         /\ Legal(SubSeq(picks, 1, Len(picks) - 1))
         /\ \A i \in 1..Len(SubSeq(picks, 1, Len(picks) - 1)) :
              i \in 1..Len(picks) /\ SubSeq(picks, 1, Len(picks) - 1)[i] = picks[i]
  <1> DEFINE front == SubSeq(picks, 1, Len(picks) - 1)
  <1>1. Len(picks) \in Nat /\ Len(picks) > 0
    OBVIOUS
  <1>2. \A i \in 1..(Len(picks) - 1) : picks[i] \in Pick
    BY <1>1
  <1>3. /\ front \in Seq(Pick) /\ Len(front) = Len(picks) - 1
        /\ \A i \in 1..Len(front) : i \in 1..Len(picks) /\ front[i] = picks[i]
    <2> DEFINE n == Len(picks) - 1
    <2>1. n \in Nat /\ 1 \in Int /\ n \in Int
      BY <1>1
    <2>2. \A i \in 1..n : picks[i] \in Pick
      BY <1>2
    <2> HIDE DEF n
    <2>3. /\ SubSeq(picks, 1, n) \in Seq(Pick)
          /\ Len(SubSeq(picks, 1, n)) = IF 1 <= n THEN n - 1 + 1 ELSE 0
          /\ \A i \in 1..(n - 1 + 1) : SubSeq(picks, 1, n)[i] = picks[1 + i - 1]
      BY <2>1, <2>2, SubSeqProperties
    <2>4. Len(SubSeq(picks, 1, n)) = n
      BY <2>1, <2>3
    <2>5. \A i \in 1..n : SubSeq(picks, 1, n)[i] = picks[i]
      BY <2>1, <2>3
    <2> QED BY <1>1, <2>1, <2>3, <2>4, <2>5 DEF n
  <1> HIDE DEF front
  <1>4. Legal(front)
    BY <1>1, <1>3, TotalIsNat DEF Legal
  <1> QED BY <1>3, <1>4 DEF front

\* What reconciliation makes of the room and the observed picks.
LEMMA ReconciledIsLegal ==
  ASSUME RoomTypeOK, Legal(room.picks), NEW source \in Sources,
         NEW players \in Seq(Players), Distinct(players), Continues(players)
  PROVE  /\ Reconciled(source, players) \in Room
         /\ Reconciled(source, players).binding = source
         /\ Legal(Reconciled(source, players).picks)
         /\ Len(Reconciled(source, players).picks) = Len(players)
         /\ Len(room.picks) \in Nat /\ Len(players) >= Len(room.picks)
         /\ \A i \in 1..Len(room.picks) :
              Reconciled(source, players).picks[i] = room.picks[i]
         /\ \A i \in (Len(room.picks) + 1)..Len(players) :
              /\ Reconciled(source, players).picks[i] \in Pick
              /\ Reconciled(source, players).picks[i].by = source
  <1> DEFINE result == Reconciled(source, players).picks
             new(i) == [drafter |-> DrafterForPick(i), player |-> players[i],
                        by |-> source]
  <1>1. /\ room.picks \in Seq(Pick) /\ Len(room.picks) \in Nat
        /\ Len(players) \in Nat /\ Len(players) >= Len(room.picks)
    BY DEF RoomTypeOK, Room, Continues
  <1>2. /\ result = [i \in 1..Len(players) |->
                       IF i <= Len(room.picks) /\ room.picks[i].player = players[i]
                       THEN room.picks[i] ELSE new(i)]
        /\ Reconciled(source, players).binding = source
        /\ Reconciled(source, players) = [binding |-> source, picks |-> result]
    BY DEF Reconciled
  <1> HIDE DEF result
  <1>3. \A i \in 1..Len(players) : new(i) \in Pick
    BY <1>1, DrafterIsOne DEF Pick
  <1>4. \A i \in 1..Len(players) :
           result[i] = IF i <= Len(room.picks) THEN room.picks[i] ELSE new(i)
    BY <1>1, <1>2 DEF Continues
  <1>5. \A i \in 1..Len(players) : result[i] \in Pick
    <2> HIDE DEF new
    <2>1. \A i \in 1..Len(players) : i <= Len(room.picks) => room.picks[i] \in Pick
      BY <1>1
    <2> QED BY <1>3, <1>4, <2>1
  <1>6. result \in Seq(Pick) /\ Len(result) = Len(players)
    BY <1>1, <1>2, <1>5
  <1>7. \A i \in 1..Len(players) :
           result[i].drafter = DrafterForPick(i) /\ result[i].player = players[i]
    <2>1. \A i \in 1..Len(players) :
             new(i).drafter = DrafterForPick(i) /\ new(i).player = players[i]
      OBVIOUS
    <2> HIDE DEF new
    <2>2. \A i \in 1..Len(players) : i <= Len(room.picks) =>
             /\ room.picks[i].drafter = DrafterForPick(i)
             /\ room.picks[i].player = players[i]
      BY <1>1 DEF Legal, Continues
    <2> QED BY <1>4, <2>1, <2>2
  <1>8. Legal(result)
    BY SMTT(30), <1>1, <1>6, <1>7, TotalIsNat DEF Legal, Distinct
  <1>9. Reconciled(source, players) \in Room
    BY <1>2, <1>6 DEF Room
  <1> QED BY <1>1, <1>2, <1>3, <1>4, <1>6, <1>8, <1>9 DEF result

\* A public draft names no player twice, whichever way it changes.
LEMMA LongerIsDistinct ==
  ASSUME NEW players \in Seq(Players), Distinct(players), Len(players) < Total,
         NEW p \in Players \ {players[i] : i \in 1..Len(players)}
  PROVE  Append(players, p) \in Seq(Players) /\ Distinct(Append(players, p))
  <1> DEFINE longer == Append(players, p)
  <1>1. /\ longer \in Seq(Players) /\ Len(longer) = Len(players) + 1
        /\ Len(players) \in Nat
        /\ \A i \in 1..Len(longer) :
             longer[i] = IF i = Len(players) + 1 THEN p ELSE players[i]
    OBVIOUS
  <1>2. \A i \in 1..Len(players) : players[i] # p
    OBVIOUS
  <1> HIDE DEF longer
  <1>3. Distinct(longer)
    BY <1>1, <1>2, TotalIsNat DEF Distinct
  <1> QED BY <1>1, <1>3 DEF longer

LEMMA ShorterIsDistinct ==
  ASSUME NEW players \in Seq(Players), Distinct(players), players # <<>>
  PROVE  /\ SubSeq(players, 1, Len(players) - 1) \in Seq(Players)
         /\ Distinct(SubSeq(players, 1, Len(players) - 1))
  <1> DEFINE n == Len(players) - 1
             front == SubSeq(players, 1, n)
  <1>1. n \in Nat /\ 1 \in Int /\ n \in Int /\ Len(players) = n + 1
    OBVIOUS
  <1>2. \A i \in 1..n : i \in 1..Len(players) /\ players[i] \in Players
    BY <1>1
  <1> HIDE DEF n
  <1>3. /\ front \in Seq(Players)
        /\ Len(front) = IF 1 <= n THEN n - 1 + 1 ELSE 0
        /\ \A i \in 1..(n - 1 + 1) : front[i] = players[1 + i - 1]
    BY <1>1, <1>2, SubSeqProperties
  <1>4. Len(front) = n /\ \A i \in 1..n : front[i] = players[i]
    BY <1>1, <1>3
  <1> HIDE DEF front
  <1>5. Distinct(front)
    BY <1>1, <1>2, <1>4, TotalIsNat DEF Distinct
  <1> QED BY <1>3, <1>5 DEF front, n

LEMMA EmptyIsLegal ==
  /\ EmptyRoom \in Room /\ EmptyRoom.binding = Nothing
  /\ Legal(EmptyRoom.picks) /\ Distinct(<<>>)
  BY TotalIsNat DEF EmptyRoom, Room, Legal, Distinct

-----------------------------------------------------------------------------
(* Steps that leave the room alone.                                        *)

LEMMA RoomStays ==
  ASSUME RoomIInv, room' = room
  PROVE  /\ Legal(room.picks)' /\ SyncedFromItsBinding'
         /\ \A status : Honest(status) => Honest(status)'
  BY DEF RoomIInv, SyncedFromItsBinding, Honest, Legal

\* The requests of pages.
LEMMA SendKeeps ==
  ASSUME RoomIInv, NEW t \in Tabs, NEW request \in PickRequest \cup PlainRequest,
         Send(t, request)
  PROVE  RoomIInv'
  <1> USE DEF Send
  <1>1. RoomTypeOK'
    BY DEF RoomIInv, RoomTypeOK
  <1>2. StatusesOK'
    <2>1. request.stage = "sent"
      BY DEF PickRequest, PlainRequest
    <2> QED BY <2>1, RoomStays DEF RoomIInv, RoomTypeOK, StatusesOK, Synced
  <1>3. EspnOK'
    BY DEF RoomIInv, EspnOK, Synced
  <1> QED BY <1>1, <1>2, <1>3, RoomStays DEF RoomIInv

LEMMA SendOpenKeeps == ASSUME RoomIInv, NEW t \in Tabs, SendOpen(t) PROVE RoomIInv'
  <1>1. [stage |-> "sent", op |-> "open"] \in PlainRequest
    BY DEF PlainRequest
  <1> QED BY <1>1, SendKeeps DEF SendOpen

LEMMA SendUndoKeeps == ASSUME RoomIInv, NEW t \in Tabs, SendUndo(t) PROVE RoomIInv'
  <1>1. [stage |-> "sent", op |-> "undo"] \in PlainRequest
    BY DEF PlainRequest
  <1> QED BY <1>1, SendKeeps DEF SendUndo

LEMMA SendPickKeeps == ASSUME RoomIInv, NEW t \in Tabs, SendPick(t) PROVE RoomIInv'
  <1> DEFINE d == DrafterForPick(Len(shown[t].picks) + 1)
             request(p) == [stage |-> "sent", op |-> "pick", player |-> p, drafter |-> d]
  <1>1. Len(shown[t].picks) + 1 \in Nat \ {0}
    BY DEF RoomIInv, RoomTypeOK, Room
  <1>2. d \in Drafters
    BY <1>1, DrafterIsOne
  <1>3. PICK p \in Players : Send(t, request(p))
    BY DEF SendPick
  <1> HIDE DEF d
  <1>4. request(p) \in PickRequest
    BY <1>2 DEF PickRequest
  <1> HIDE DEF request
  <1> QED BY <1>3, <1>4, SendKeeps

LEMMA SendSyncKeeps == ASSUME RoomIInv, NEW t \in Tabs, SendSync(t) PROVE RoomIInv'
  <1> USE DEF SendSync
  <1>1. league[t] \in Leagues
    BY DEF RoomIInv, RoomTypeOK
  <1>2. RoomTypeOK'
    BY <1>1 DEF RoomIInv, RoomTypeOK, SyncRequest
  <1>3. StatusesOK'
    BY RoomStays DEF RoomIInv, RoomTypeOK, StatusesOK, Synced
  <1>4. EspnOK'
    BY DEF RoomIInv, RoomTypeOK, EspnOK, Synced
  <1> QED BY <1>2, <1>3, <1>4, RoomStays DEF RoomIInv

\* The automatic sync, the league field, pages that go away and return,
\* background work, replies that are lost.
LEMMA PageKeeps ==
  ASSUME RoomIInv, NEW t \in Tabs, SwitchAuto(t) \/ TypeLeague(t) \/ GoAway(t)
  PROVE  RoomIInv'
  <1> USE DEF SwitchAuto, TypeLeague, GoAway
  <1>1. RoomTypeOK'
    BY DEF RoomIInv, RoomTypeOK
  <1>2. StatusesOK' /\ EspnOK'
    BY RoomStays DEF RoomIInv, StatusesOK, EspnOK, Synced
  <1> QED BY <1>1, <1>2, RoomStays DEF RoomIInv

LEMMA WorkKeeps == ASSUME RoomIInv, WorkBegins \/ WorkEnds PROVE RoomIInv'
  <1> USE DEF WorkBegins, WorkEnds, pages
  <1>1. RoomTypeOK'
    BY DEF RoomIInv, RoomTypeOK
  <1>2. StatusesOK' /\ EspnOK'
    BY RoomStays DEF RoomIInv, StatusesOK, EspnOK, Synced
  <1> QED BY <1>1, <1>2, RoomStays DEF RoomIInv

LEMMA RefuseKeeps ==
  ASSUME RoomIInv, NEW t \in Tabs, Refuse(t), UNCHANGED <<room, espn, busy, sync, shown, auto, league, away>>
  PROVE  RoomIInv'
  <1> USE DEF Refuse
  <1>1. RoomTypeOK'
    BY DEF RoomIInv, RoomTypeOK
  <1>2. StatusesOK' /\ EspnOK'
    BY RoomStays DEF RoomIInv, RoomTypeOK, StatusesOK, EspnOK, Synced
  <1> QED BY <1>1, <1>2, RoomStays DEF RoomIInv

LEMMA StopKeeps ==
  ASSUME RoomIInv, NEW t \in Tabs, StopSync(t), UNCHANGED <<room, espn, busy, action, shown, league, away>>
  PROVE  RoomIInv'
  <1> USE DEF StopSync
  <1>1. RoomTypeOK'
    BY DEF RoomIInv, RoomTypeOK
  <1>2. StatusesOK' /\ EspnOK'
    BY RoomStays DEF RoomIInv, RoomTypeOK, StatusesOK, EspnOK, Synced
  <1> QED BY <1>1, <1>2, RoomStays DEF RoomIInv

LEMMA LoseKeeps == ASSUME RoomIInv, NEW t \in Tabs, LoseAction(t) \/ LoseSync(t) PROVE RoomIInv'
  BY RefuseKeeps, StopKeeps DEF LoseAction, LoseSync

\* What is answered or shown was honest already.
LEMMA RequestedIs ==
  ASSUME RoomIInv, NEW t \in Tabs
  PROVE  /\ Requested(t, "pick") => action[t] \in PickRequest
         /\ \A op \in {"undo", "open"} :
              Requested(t, op) => action[t] \in PlainRequest /\ action[t].op = op
  BY DEF RoomIInv, RoomTypeOK, Requested, PickRequest, PlainRequest, Reply

LEMMA ServeOpenKeeps == ASSUME RoomIInv, NEW t \in Tabs, ServeOpen(t) PROVE RoomIInv'
  <1>1. /\ Requested(t, "open") /\ action[t].op = "open"
        /\ UNCHANGED <<room, espn, busy, sync, shown, auto, league, away>>
    BY RequestedIs DEF ServeOpen, bounds
  <1>2. CASE Refuse(t)
    BY <1>1, <1>2, RefuseKeeps
  <1>3. CASE Answer(t, room)
    <2>1. RoomTypeOK'
      BY <1>1, <1>3 DEF RoomIInv, RoomTypeOK, Answer, Reply
    <2>2. Honest(room)
      BY DEF RoomIInv, Honest, RoomTypeOK, Room
    <2>3. StatusesOK' /\ EspnOK'
      BY <1>1, <1>3, <2>2, RoomStays DEF RoomIInv, RoomTypeOK, StatusesOK, EspnOK, Synced, Answer
    <2> QED BY <1>1, <2>1, <2>3, RoomStays DEF RoomIInv
  <1> QED BY <1>2, <1>3 DEF ServeOpen

LEMMA RenderActionKeeps == ASSUME RoomIInv, NEW t \in Tabs, RenderAction(t) PROVE RoomIInv'
  <1> USE DEF RenderAction, Render
  <1>1. action[t] \in Reply /\ Honest(action[t].status)
    BY DEF RoomIInv, RoomTypeOK, StatusesOK, PickRequest, PlainRequest
  <1>2. RoomTypeOK'
    <2>1. LeagueShown(t, action[t]) \in Leagues \cup {Nothing}
      BY <1>1 DEF LeagueShown, RoomIInv, RoomTypeOK, Reply, Room, Sources
    <2> QED BY <1>1, <2>1 DEF RoomIInv, RoomTypeOK, Reply
  <1>3. StatusesOK' /\ EspnOK'
    BY <1>1, RoomStays DEF RoomIInv, RoomTypeOK, StatusesOK, EspnOK, Synced
  <1> QED BY <1>2, <1>3, RoomStays DEF RoomIInv

LEMMA RenderSyncKeeps == ASSUME RoomIInv, NEW t \in Tabs, RenderSync(t) PROVE RoomIInv'
  <1> USE DEF RenderSync, Render
  <1>1. sync[t] \in Reply /\ Honest(sync[t].status)
    BY DEF RoomIInv, RoomTypeOK, StatusesOK, Synced, SyncRequest, Observation
  <1>2. RoomTypeOK'
    <2>1. LeagueShown(t, sync[t]) \in Leagues \cup {Nothing}
      BY <1>1 DEF LeagueShown, RoomIInv, RoomTypeOK, Reply, Room, Sources
    <2> QED BY <1>1, <2>1 DEF RoomIInv, RoomTypeOK, Reply
  <1>3. StatusesOK' /\ EspnOK'
    BY <1>1, RoomStays DEF RoomIInv, RoomTypeOK, StatusesOK, EspnOK, Synced
  <1> QED BY <1>2, <1>3, RoomStays DEF RoomIInv

-----------------------------------------------------------------------------
(* What is seen of the public drafts.                                      *)

LEMMA PollEspnKeeps == ASSUME RoomIInv, NEW t \in Tabs, PollEspn(t) PROVE RoomIInv'
  <1> DEFINE l == sync[t].league
             watched == [stage |-> "observed", source |-> <<l, espn[l].order>>,
                         players |-> espn[l].players]
  <1>1. Synced(t, "sent") /\ UNCHANGED <<room, espn, busy, action, shown, league, away>>
    BY DEF PollEspn
  <1>2. l \in Leagues
    BY <1>1 DEF RoomIInv, RoomTypeOK, Synced, SyncRequest, Observation, Reply
  <1>3. CASE StopSync(t)
    BY <1>1, <1>3, StopKeeps
  <1>4. CASE sync' = [sync EXCEPT ![t] = watched] /\ UNCHANGED auto
    <2>1. watched \in Observation /\ Distinct(watched.players) /\ watched.stage = "observed"
      BY <1>2 DEF RoomIInv, RoomTypeOK, EspnOK, Observation, Sources
    <2> HIDE DEF watched
    <2>2. RoomTypeOK'
      BY <1>1, <1>4, <2>1 DEF RoomIInv, RoomTypeOK
    <2>3. StatusesOK' /\ EspnOK'
      BY <1>1, <1>4, <2>1, RoomStays DEF RoomIInv, RoomTypeOK, StatusesOK, EspnOK, Synced
    <2> QED BY <1>1, <2>2, <2>3, RoomStays DEF RoomIInv
  <1> QED BY <1>3, <1>4 DEF PollEspn

LEMMA EspnKeeps == ASSUME RoomIInv, NEW l \in Leagues, EspnChanges(l) PROVE RoomIInv'
  <1>1. UNCHANGED <<room, busy, pages>>
    BY DEF EspnChanges
  <1>2. ASSUME NEW o \in Orders, NEW players \in Seq(Players), Distinct(players),
               espn' = [espn EXCEPT ![l] = [order |-> o, players |-> players]]
        PROVE  RoomIInv'
    <2>1. RoomTypeOK'
      BY <1>1, <1>2 DEF RoomIInv, RoomTypeOK, pages
    <2>2. StatusesOK' /\ EspnOK'
      BY <1>1, <1>2, RoomStays DEF RoomIInv, RoomTypeOK, StatusesOK, EspnOK, Synced, pages
    <2> QED BY <1>1, <2>1, <2>2, RoomStays DEF RoomIInv
  <1> DEFINE players == espn[l].players
             o == espn[l].order
  <1>3. /\ players \in Seq(Players) /\ Distinct(players) /\ o \in Orders
        /\ espn[l] = [order |-> o, players |-> players]
        /\ \A new : [espn EXCEPT ![l].players = new]
                      = [espn EXCEPT ![l] = [order |-> o, players |-> new]]
    <2>1. /\ espn \in [Leagues -> [order : Orders, players : Seq(Players)]]
          /\ Distinct(players)
      BY DEF RoomIInv, RoomTypeOK, EspnOK
    <2> QED BY <2>1
  <1>4. CASE /\ Len(players) < Total
             /\ \E p \in Players \ {players[i] : i \in 1..Len(players)} :
                  espn' = [espn EXCEPT ![l].players = Append(players, p)]
    <2> HIDE DEF players, o
    <2>1. PICK p \in Players \ {players[i] : i \in 1..Len(players)} :
            espn' = [espn EXCEPT ![l].players = Append(players, p)]
      BY <1>4
    <2>2. Append(players, p) \in Seq(Players) /\ Distinct(Append(players, p))
      BY <1>3, <1>4, LongerIsDistinct
    <2> QED BY <1>2, <1>3, <2>1, <2>2
  <1>5. CASE /\ players # <<>>
             /\ espn' = [espn EXCEPT ![l].players =
                           SubSeq(players, 1, Len(players) - 1)]
    <2> HIDE DEF players, o
    <2> QED BY <1>2, <1>3, <1>5, ShorterIsDistinct
  <1>6. CASE \E q \in Orders :
               espn' = [espn EXCEPT ![l] = [order |-> q, players |-> <<>>]]
    <2>1. <<>> \in Seq(Players) /\ Distinct(<<>>)
      BY EmptyIsLegal
    <2> QED BY <1>2, <1>6, <2>1
  <1> QED BY <1>4, <1>5, <1>6 DEF EspnChanges

-----------------------------------------------------------------------------
(* Steps that change the room.                                             *)

\* A room that is saved keeps what there is of statuses honest.
LEMMA RoomChanges ==
  ASSUME RoomIInv, room' \in Room, Legal(room'.picks),
         room.binding \in {Nothing, room'.binding},
         \A i \in 1..Len(room'.picks) : room'.picks[i].by \in {Nothing, room'.binding}
  PROVE  /\ Legal(room.picks)' /\ SyncedFromItsBinding'
         /\ \A status : Honest(status) => Honest(status)'
         /\ Honest(room)'
  BY DEF RoomIInv, SyncedFromItsBinding, Honest, Legal, Room

LEMMA AnswerKeeps ==
  ASSUME RoomIInv, NEW t \in Tabs, NEW changed \in Room, Legal(changed.picks),
         changed.binding = room.binding,
         \A i \in 1..Len(changed.picks) : changed.picks[i].by \in {Nothing, changed.binding},
         action[t].op \in {"pick", "undo"},
         SaveAndAnswer(t, changed), UNCHANGED <<espn, busy, sync, shown, auto, league, away>>
  PROVE  RoomIInv'
  <1>1. CASE UNCHANGED room /\ Refuse(t)
    BY <1>1, RefuseKeeps
  <1>2. CASE room' = changed /\ Answer(t, changed)
    <2> DEFINE reply == [stage |-> "replied", op |-> action[t].op, status |-> changed]
    <2>1. reply \in Reply /\ reply.status = changed
      BY DEF Reply
    <2>2. action' = [action EXCEPT ![t] = reply]
      BY <1>2 DEF Answer
    <2> HIDE DEF reply
    <2>3. RoomTypeOK'
      BY <1>2, <2>1, <2>2 DEF RoomIInv, RoomTypeOK
    <2>4. /\ Legal(room.picks)' /\ SyncedFromItsBinding' /\ Honest(changed)'
          /\ \A status : Honest(status) => Honest(status)'
      BY <1>2, RoomChanges DEF Honest, Legal
    <2>5. StatusesOK'
      BY <2>1, <2>2, <2>4 DEF RoomIInv, RoomTypeOK, StatusesOK, Synced
    <2>6. EspnOK'
      BY DEF RoomIInv, EspnOK, Synced
    <2> QED BY <2>3, <2>4, <2>5, <2>6 DEF RoomIInv
  <1> QED BY <1>1, <1>2 DEF SaveAndAnswer

\* A recorded pick: a valid one at the end of the room.
LEMMA RecordedIs ==
  ASSUME RoomIInv, NEW t \in Tabs, Requested(t, "pick"),
         ValidNewPick(room.picks, action[t].drafter, action[t].player)
  PROVE  \E pick \in Pick :
            /\ pick.by = Nothing
            /\ Recorded(t) \in Room
            /\ Recorded(t).binding = room.binding
            /\ Recorded(t).picks = Append(room.picks, pick)
            /\ Legal(Recorded(t).picks)
  <1> DEFINE pick == [drafter |-> action[t].drafter, player |-> action[t].player,
                      by |-> Nothing]
  <1>1. action[t] \in PickRequest
    BY RequestedIs
  <1>2. pick \in Pick /\ pick.by = Nothing
    BY <1>1 DEF Pick, PickRequest
  <1>3. /\ Append(room.picks, pick) \in Seq(Pick)
        /\ Legal(Append(room.picks, pick))
    BY <1>2, AppendIsLegal DEF RoomIInv, RoomTypeOK, Room
  <1>4. Recorded(t) = [room EXCEPT !.picks = Append(@, pick)]
    BY DEF Recorded
  <1>5. room \in Room
    BY DEF RoomIInv, RoomTypeOK
  <1> HIDE DEF pick
  <1>6. /\ Recorded(t) \in Room /\ Recorded(t).binding = room.binding
        /\ Recorded(t).picks = Append(room.picks, pick)
    BY <1>3, <1>4, <1>5 DEF Room
  <1> QED BY <1>2, <1>3, <1>6

LEMMA UndoneIs ==
  ASSUME RoomIInv, room.picks # <<>>
  PROVE  /\ Undone \in Room /\ Undone.binding = room.binding
         /\ Undone.picks = SubSeq(room.picks, 1, Len(room.picks) - 1)
         /\ Legal(Undone.picks)
         /\ \A i \in 1..Len(Undone.picks) :
              i \in 1..Len(room.picks) /\ Undone.picks[i] = room.picks[i]
  <1> DEFINE front == SubSeq(room.picks, 1, Len(room.picks) - 1)
  <1>1. room \in Room /\ room.picks \in Seq(Pick)
    BY DEF RoomIInv, RoomTypeOK, Room
  <1>2. /\ front \in Seq(Pick) /\ Legal(front)
        /\ \A i \in 1..Len(front) : i \in 1..Len(room.picks) /\ front[i] = room.picks[i]
    BY <1>1, FrontIsLegal DEF RoomIInv
  <1>3. Undone = [room EXCEPT !.picks = front]
    BY DEF Undone
  <1> HIDE DEF front
  <1>4. Undone \in Room /\ Undone.binding = room.binding /\ Undone.picks = front
    BY <1>1, <1>2, <1>3 DEF Room
  <1> QED BY <1>2, <1>4 DEF front

LEMMA ServePickKeeps == ASSUME RoomIInv, NEW t \in Tabs, ServePick(t) PROVE RoomIInv'
  <1>1. /\ Requested(t, "pick") /\ action[t].op = "pick"
        /\ UNCHANGED <<espn, busy, sync, shown, auto, league, away>>
    BY RequestedIs DEF ServePick, PickRequest
  <1>2. CASE UNCHANGED room /\ Refuse(t)
    BY <1>1, <1>2, RefuseKeeps
  <1>3. CASE /\ ValidNewPick(room.picks, action[t].drafter, action[t].player)
             /\ SaveAndAnswer(t, Recorded(t))
    <2>1. PICK pick \in Pick :
             /\ pick.by = Nothing
             /\ Recorded(t) \in Room
             /\ Recorded(t).binding = room.binding
             /\ Recorded(t).picks = Append(room.picks, pick)
             /\ Legal(Recorded(t).picks)
      BY <1>1, <1>3, RecordedIs
    <2>2. \A i \in 1..Len(Recorded(t).picks) :
             Recorded(t).picks[i].by \in {Nothing, room.binding}
      <3>1. room.picks \in Seq(Pick)
        BY DEF RoomIInv, RoomTypeOK, Room
      <3> QED BY <2>1, <3>1 DEF RoomIInv, SyncedFromItsBinding
    <2> QED BY <1>1, <1>3, <2>1, <2>2, AnswerKeeps
  <1> QED BY <1>2, <1>3 DEF ServePick

LEMMA ServeUndoKeeps == ASSUME RoomIInv, NEW t \in Tabs, ServeUndo(t) PROVE RoomIInv'
  <1>1. /\ Requested(t, "undo") /\ action[t].op = "undo"
        /\ UNCHANGED <<espn, busy, sync, shown, auto, league, away>>
    BY RequestedIs DEF ServeUndo
  <1>2. CASE UNCHANGED room /\ Refuse(t)
    BY <1>1, <1>2, RefuseKeeps
  <1>3. CASE room.picks # <<>> /\ SaveAndAnswer(t, Undone)
    <2>1. \A i \in 1..Len(Undone.picks) : Undone.picks[i].by \in {Nothing, room.binding}
      BY <1>3, UndoneIs DEF RoomIInv, SyncedFromItsBinding
    <2> QED BY <1>1, <1>3, <2>1, UndoneIs, AnswerKeeps
  <1> QED BY <1>2, <1>3 DEF ServeUndo

\* What a sync that is accepted saves.
LEMMA CommittedIs ==
  ASSUME RoomIInv, NEW t \in Tabs, Synced(t, "observed"),
         MayBind(sync[t].source), Continues(sync[t].players)
  PROVE  LET source == sync[t].source
             changed == Reconciled(source, sync[t].players)
         IN  /\ source \in Sources /\ changed \in Room /\ changed.binding = source
             /\ room.binding \in {Nothing, source}
             /\ Legal(changed.picks)
             /\ Len(changed.picks) \in Nat /\ Len(room.picks) \in Nat
             /\ Len(changed.picks) >= Len(room.picks)
             /\ \A i \in 1..Len(room.picks) : changed.picks[i] = room.picks[i]
             /\ \A i \in (Len(room.picks) + 1)..Len(changed.picks) :
                  changed.picks[i] \in Pick /\ changed.picks[i].by = source
             /\ \A i \in 1..Len(changed.picks) : changed.picks[i].by \in {Nothing, source}
  <1> DEFINE source == sync[t].source
             players == sync[t].players
             changed == Reconciled(source, players)
  <1>1. /\ source \in Sources /\ players \in Seq(Players) /\ Distinct(players)
        /\ room.binding \in {Nothing, source}
    BY DEF RoomIInv, RoomTypeOK, EspnOK, Synced, SyncRequest, Observation, Reply, MayBind
  <1>2. Continues(players) /\ RoomTypeOK /\ Legal(room.picks)
    BY DEF RoomIInv
  <1> HIDE DEF source, players
  <1>3. /\ changed \in Room /\ changed.binding = source
        /\ Legal(changed.picks)
        /\ Len(changed.picks) = Len(players)
        /\ Len(room.picks) \in Nat /\ Len(players) >= Len(room.picks)
        /\ \A i \in 1..Len(room.picks) : changed.picks[i] = room.picks[i]
        /\ \A i \in (Len(room.picks) + 1)..Len(players) :
             changed.picks[i] \in Pick /\ changed.picks[i].by = source
    BY <1>1, <1>2, ReconciledIsLegal
  <1>4. Len(players) \in Nat
    BY <1>1
  <1> HIDE DEF changed
  <1>5. \A i \in 1..Len(changed.picks) : changed.picks[i].by \in {Nothing, source}
    <2> SUFFICES ASSUME NEW i \in 1..Len(changed.picks)
                 PROVE  changed.picks[i].by \in {Nothing, source}
      OBVIOUS
    <2>1. CASE i <= Len(room.picks)
      <3>1. i \in 1..Len(room.picks) /\ changed.picks[i] = room.picks[i]
        BY <1>3, <1>4, <2>1
      <3> QED BY <1>1, <3>1 DEF RoomIInv, SyncedFromItsBinding
    <2>2. CASE i > Len(room.picks)
      BY <1>3, <1>4, <2>2
    <2> QED BY <1>3, <1>4, <2>1, <2>2
  <1> QED BY <1>1, <1>3, <1>4, <1>5 DEF source, players, changed

LEMMA FollowKeeps ==
  ASSUME RoomIInv, NEW t \in Tabs, NEW changed \in Room, Legal(changed.picks),
         room.binding \in {Nothing, changed.binding},
         \A i \in 1..Len(changed.picks) : changed.picks[i].by \in {Nothing, changed.binding},
         room' = changed, UNCHANGED <<espn, busy, action, shown, auto, league, away>>,
         sync' = [sync EXCEPT ![t] =
                    [stage |-> "replied", op |-> "sync", status |-> changed]]
  PROVE  RoomIInv'
  <1> DEFINE reply == [stage |-> "replied", op |-> "sync", status |-> changed]
  <1>1. reply \in Reply /\ reply.status = changed /\ reply.stage = "replied"
    BY DEF Reply
  <1>2. sync' = [sync EXCEPT ![t] = reply]
    OBVIOUS
  <1> HIDE DEF reply
  <1>3. RoomTypeOK'
    BY <1>1, <1>2 DEF RoomIInv, RoomTypeOK
  <1>4. /\ Legal(room.picks)' /\ SyncedFromItsBinding' /\ Honest(changed)'
        /\ \A status : Honest(status) => Honest(status)'
    BY RoomChanges DEF Honest, Legal
  <1>5. StatusesOK'
    BY <1>1, <1>2, <1>4 DEF RoomIInv, RoomTypeOK, StatusesOK, Synced
  <1>6. EspnOK'
    BY <1>1, <1>2 DEF RoomIInv, RoomTypeOK, EspnOK, Synced
  <1> QED BY <1>3, <1>4, <1>5, <1>6 DEF RoomIInv

LEMMA CommitKeeps == ASSUME RoomIInv, NEW t \in Tabs, Commit(t) PROVE RoomIInv'
  <1> DEFINE source == sync[t].source
             players == sync[t].players
             changed == Reconciled(source, players)
  <1>1. Synced(t, "observed") /\ UNCHANGED <<espn, busy, action, shown, league, away>>
    BY DEF Commit
  <1>2. CASE StopSync(t) /\ UNCHANGED room
    BY <1>1, <1>2, StopKeeps
  <1>3. CASE /\ MayBind(source) /\ Continues(players)
             /\ room' = changed /\ UNCHANGED auto
             /\ sync' = [sync EXCEPT ![t] =
                           [stage |-> "replied", op |-> "sync", status |-> changed]]
    <2>1. /\ changed \in Room /\ changed.binding = source
          /\ room.binding \in {Nothing, source} /\ Legal(changed.picks)
          /\ \A i \in 1..Len(changed.picks) : changed.picks[i].by \in {Nothing, source}
      BY <1>1, <1>3, CommittedIs
    <2> HIDE DEF changed, source, players
    <2> QED BY <1>1, <1>3, <2>1, FollowKeeps
  <1> QED BY <1>2, <1>3 DEF Commit

-----------------------------------------------------------------------------
(* The theorems.                                                           *)

\* The saved room, and every status a page was answered or shows, are legal;
\* what pages show of the binding is the room's (draft_assistant.py,
\* draft_service.py:403-492).
THEOREM RoomInvariant == RoomSpec => []RoomIInv
  <1>1. RoomInit => RoomIInv
    <2> SUFFICES ASSUME RoomInit PROVE RoomIInv
      OBVIOUS
    <2>1. RoomTypeOK
      <3>1. <<>> \in Seq(Players)
        OBVIOUS
      <3>2. espn \in [Leagues -> [order : Orders, players : Seq(Players)]]
        BY <3>1 DEF RoomInit
      <3> QED BY <3>2, EmptyIsLegal DEF RoomInit, RoomTypeOK
    <2>2. StatusesOK /\ EspnOK /\ Legal(room.picks) /\ SyncedFromItsBinding
      BY EmptyIsLegal DEF RoomInit, StatusesOK, EspnOK, Honest, Synced,
                          SyncedFromItsBinding, EmptyRoom
    <2> QED BY <2>1, <2>2 DEF RoomIInv
  <1>2. RoomIInv /\ [RoomNext]_roomVars => RoomIInv'
    <2> SUFFICES ASSUME RoomIInv, [RoomNext]_roomVars PROVE RoomIInv'
      OBVIOUS
    <2>1. CASE \E t \in Tabs : SendOpen(t) \/ SendPick(t) \/ SendUndo(t)
                                  \/ SwitchAuto(t) \/ TypeLeague(t) \/ GoAway(t) \/ SendSync(t)
      BY <2>1, SendOpenKeeps, SendPickKeeps, SendUndoKeeps, PageKeeps, SendSyncKeeps
    <2>2. CASE \E t \in Tabs : Serve(t)
      BY <2>2, ServeOpenKeeps, ServePickKeeps, ServeUndoKeeps, RenderActionKeeps
      DEF Serve
    <2>3. CASE \E t \in Tabs : ServeSync(t)
      BY <2>3, PollEspnKeeps, CommitKeeps, RenderSyncKeeps DEF ServeSync
    <2>4. CASE \E t \in Tabs : LoseAction(t) \/ LoseSync(t)
      BY <2>4, LoseKeeps
    <2>5. CASE \E l \in Leagues : EspnChanges(l)
      BY <2>5, EspnKeeps
    <2>6. CASE WorkBegins \/ WorkEnds
      BY <2>6, WorkKeeps
    <2>7. CASE UNCHANGED roomVars
      <3>1. RoomTypeOK' /\ Legal(room.picks)' /\ SyncedFromItsBinding'
        BY <2>7 DEF roomVars, pages, RoomIInv, RoomTypeOK, Legal, Distinct, SyncedFromItsBinding
      <3>2. StatusesOK'
        BY <2>7 DEF roomVars, pages, RoomIInv, StatusesOK, Honest, Synced
      <3>3. EspnOK'
        BY <2>7 DEF roomVars, pages, RoomIInv, EspnOK, Synced
      <3> QED BY <3>1, <3>2, <3>3 DEF RoomIInv
    <2> QED BY <2>1, <2>2, <2>3, <2>4, <2>5, <2>6, <2>7 DEF RoomNext
  <1> QED BY <1>1, <1>2, PTL DEF RoomSpec

\* No room mixes two public drafts, whatever pages sync at the same time.
THEOREM RoomsFollowOneDraft == RoomSpec => []SyncedFromItsBinding
  <1>1. RoomIInv => SyncedFromItsBinding
    BY DEF RoomIInv
  <1> QED BY <1>1, RoomInvariant, PTL

\* The room implements the ledger: every step of the pages, of the service
\* and of ESPN is a record, an undo or a follow of the ledger, or none.
THEOREM RoomIsALedger == RoomSpec => ImplementsLedger
  <1>1. RoomInit => Ledger!Init
    BY DEF RoomInit, EmptyRoom, Ledger!Init
  <1>2. Ledger!Pick = Pick /\ \A list : Ledger!Legal(list) <=> Legal(list)
    BY DEF Ledger!Pick, Pick, Drafters, Ledger!Legal, Legal, Ledger!Total, Total,
           Ledger!DrafterForPick, DrafterForPick
  <1>3. RoomIInv /\ RoomIInv' /\ [RoomNext]_roomVars => [Ledger!Next]_(Ledger!vars)
    <2> SUFFICES ASSUME RoomIInv, RoomIInv', [RoomNext]_roomVars
                 PROVE  Ledger!Next \/ UNCHANGED Ledger!vars
      OBVIOUS
    <2>1. CASE room' = room
      BY <2>1 DEF Ledger!vars
    <2>2. ASSUME NEW t \in Tabs, ServePick(t), room' # room PROVE Ledger!Record
      <3>1. /\ Requested(t, "pick") /\ room' = Recorded(t)
            /\ ValidNewPick(room.picks, action[t].drafter, action[t].player)
        BY <2>2 DEF ServePick, SaveAndAnswer
      <3>2. PICK pick \in Pick :
               /\ pick.by = Nothing
               /\ Recorded(t).binding = room.binding
               /\ Recorded(t).picks = Append(room.picks, pick)
               /\ Legal(Recorded(t).picks)
        BY <3>1, RecordedIs
      <3> QED BY <1>2, <3>1, <3>2 DEF Ledger!Record
    <2>3. ASSUME NEW t \in Tabs, ServeUndo(t), room' # room PROVE Ledger!Undo
      <3>1. room' = Undone /\ room.picks # <<>>
        BY <2>3 DEF ServeUndo, SaveAndAnswer
      <3> QED BY <3>1, UndoneIs DEF Ledger!Undo
    <2>4. ASSUME NEW t \in Tabs, Commit(t), room' # room
          PROVE  \E source \in Sources : Ledger!Follow(source)
      <3> DEFINE source == sync[t].source
                 changed == Reconciled(source, sync[t].players)
      <3>1. /\ Synced(t, "observed") /\ MayBind(source) /\ Continues(sync[t].players)
            /\ room' = changed
        BY <2>4 DEF Commit
      <3>2. /\ source \in Sources /\ changed \in Room /\ changed.binding = source
            /\ room.binding \in {Nothing, source}
            /\ Legal(changed.picks)
            /\ Len(changed.picks) \in Nat /\ Len(room.picks) \in Nat
            /\ Len(changed.picks) >= Len(room.picks)
            /\ \A i \in 1..Len(room.picks) : changed.picks[i] = room.picks[i]
            /\ \A i \in (Len(room.picks) + 1)..Len(changed.picks) :
                 changed.picks[i] \in Pick /\ changed.picks[i].by = source
        BY <3>1, CommittedIs
      <3> HIDE DEF source, changed
      <3>3. room.picks \in Seq(Pick) /\ changed.picks \in Seq(Pick)
        BY <3>2 DEF RoomIInv, RoomTypeOK, Room
      <3>4. SubSeq(changed.picks, 1, Len(room.picks)) = room.picks
        <4> DEFINE n == Len(room.picks)
                   start == SubSeq(changed.picks, 1, n)
        <4>1. n \in Nat /\ n \in Int /\ 1 \in Int
          BY <3>2
        <4>2. \A i \in 1..n : changed.picks[i] \in Pick /\ changed.picks[i] = room.picks[i]
          BY <3>2, <3>3
        <4> HIDE DEF n
        <4>3. /\ start \in Seq(Pick)
              /\ Len(start) = IF 1 <= n THEN n - 1 + 1 ELSE 0
              /\ \A i \in 1..(n - 1 + 1) : start[i] = changed.picks[1 + i - 1]
          BY <4>1, <4>2, SubSeqProperties
        <4>4. Len(start) = n /\ \A i \in 1..n : start[i] = room.picks[i]
          BY <4>1, <4>2, <4>3
        <4> HIDE DEF start
        <4> QED BY <3>3, <4>1, <4>3, <4>4, SeqEqual DEF n, start
      <3> QED BY <1>2, <3>1, <3>2, <3>4 DEF Ledger!Follow
    <2>5. CASE \E t \in Tabs : ServePick(t)
      BY <2>1, <2>2, <2>5 DEF Ledger!Next
    <2>6. CASE \E t \in Tabs : ServeUndo(t)
      BY <2>1, <2>3, <2>6 DEF Ledger!Next
    <2>7. CASE \E t \in Tabs : Commit(t)
      BY <2>1, <2>4, <2>7 DEF Ledger!Next, Ledger!Follow
    <2> QED
      BY <2>1, <2>5, <2>6, <2>7
      DEF RoomNext, roomVars, pages, Serve, ServeSync, SendOpen, SendPick, SendUndo, Send,
          SwitchAuto, TypeLeague, GoAway, SendSync, ServeOpen, RenderAction, PollEspn, RenderSync,
          LoseAction, LoseSync, EspnChanges, WorkBegins, WorkEnds
  <1> QED BY <1>1, <1>3, RoomInvariant, PTL DEF RoomSpec, ImplementsLedger, Ledger!Spec

-----------------------------------------------------------------------------
(* Training jobs.                                                          *)

LEMMA Nones ==
    /\ None \notin Checkpoint /\ None \notin Model /\ None \notin Job
    /\ None \notin Promotion /\ None \notin Settings /\ None \notin Promoters
    /\ None \notin JobIds /\ JobIds \subseteq Nat
BY NoneAssumption, TrainingAssumption DEF JobIds

(* One more generation keeps a population exact. *)
LEMMA OneMore ==
    ASSUME NEW n \in Nat
    PROVE  /\ Uninterrupted(n) \in Seq(Nat) /\ Uninterrupted(0) = <<>>
           /\ Append(Uninterrupted(n), n + 1) = Uninterrupted(n + 1)
<1>1. /\ Uninterrupted(n) \in Seq(Nat) /\ Len(Uninterrupted(n)) = n
      /\ Uninterrupted(n + 1) \in Seq(Nat) /\ Len(Uninterrupted(n + 1)) = n + 1
  BY DEF Uninterrupted
<1>2. Uninterrupted(0) = <<>>
  BY DEF Uninterrupted
<1>3. \A i \in 1..n + 1 : Append(Uninterrupted(n), n + 1)[i] = Uninterrupted(n + 1)[i]
  BY <1>1 DEF Uninterrupted
<1>4. Append(Uninterrupted(n), n + 1) = Uninterrupted(n + 1)
  BY <1>1, <1>3
<1> QED
  BY <1>1, <1>2, <1>4

LEMMA InitInv == Init => IInv
<1> SUFFICES ASSUME Init PROVE IInv
  OBVIOUS
<1>1. TypeOK
  <2>1. launched \in 0..MaxJobs
    BY TrainingAssumption DEF Init
  <2> QED BY <2>1 DEF Init, TypeOK
<1>2. JobsOK
  BY DEF Init, JobsOK, Started, IsActive
<1>3. PromotersOK
  BY Nones DEF Init, PromotersOK, Promote
<1>4. MatchesUninterrupted /\ StoppedKeepsItsWork /\ PromotedOnce
  BY DEF Init, MatchesUninterrupted, StoppedKeepsItsWork, PromotedOnce, Ended, Started
<1>5. EndIsRecoverable
  BY Nones DEF Init, EndIsRecoverable, Ended, Started
<1> QED
  BY <1>1, <1>2, <1>3, <1>4, <1>5 DEF IInv

(* A step of the job that is active, and goes on. *)
LEMMA JobStep ==
    ASSUME IInv, NEW j \in JobIds, NEW job \in Job, IsActive(j),
           jobs' = [jobs EXCEPT ![j] = job], job.status \in Active,
           UNCHANGED <<launched, pending, seen, promoting, lock, faults>>,
           autosaves' \in [JobIds -> Checkpoint \cup {None}],
           listed' \in [JobIds -> Checkpoint \cup {None}],
           \A k \in JobIds \ {j} : autosaves'[k] = autosaves[k] /\ listed'[k] = listed[k],
           models \subseteq models', models' \subseteq Model, stamps' \in Nat,
           catalog \subseteq catalog', catalog' \subseteq models',
           \A m \in models' \ models : m.champion.steps = Uninterrupted(m.champion.gen),
           \A m \in catalog' \ catalog : m.by = "training",
           autosaves'[j] # None => Exact(autosaves'[j]),
           listed'[j] # None => /\ autosaves'[j] # None
                                /\ autosaves'[j].gen \in {listed'[j].gen, listed'[j].gen + 1},
           WorkOK(j)', FilesOK(j)'
    PROVE  IInv'
<1>1. TypeOK'
  BY DEF IInv, TypeOK
<1>2. /\ jobs'[j] = job /\ job # None /\ jobs[j] # None
      /\ \A k \in JobIds \ {j} : jobs'[k] = jobs[k]
      /\ j = launched
  BY Nones DEF IInv, TypeOK, JobsOK, IsActive, Started
<1>3. JobsOK'
  <2> SUFFICES ASSUME NEW k \in JobIds
               PROVE  /\ Started(k)' => k <= launched /\ WorkOK(k)' /\ FilesOK(k)'
                      /\ IsActive(k)' => k = launched /\ ~seen
                      /\ k > launched => autosaves'[k] = None
                      /\ listed'[k] # None => autosaves'[k] # None
    BY DEF JobsOK
  <2>1. CASE k = j
    BY <1>2, <2>1, Nones DEF IInv, JobsOK
  <2>2. CASE k # j
    <3>1. jobs'[k] = jobs[k] /\ autosaves'[k] = autosaves[k] /\ listed'[k] = listed[k]
      BY <1>2, <2>2
    <3>2. Started(k) => WorkOK(k)' /\ FilesOK(k)'
      BY <3>1 DEF IInv, JobsOK, WorkOK, FilesOK, OwnWork
    <3> QED
      BY <3>1, <3>2 DEF IInv, JobsOK, Started, IsActive
  <2> QED BY <2>1, <2>2
<1>4. PromotersOK'
  BY DEF IInv, TypeOK, PromotersOK, Promote
<1>5. MatchesUninterrupted'
  BY DEF IInv, MatchesUninterrupted
<1>6. PromotedOnce'
  BY DEF IInv, PromotedOnce
<1>7. ~Ended(j)' /\ ~Ended(j)
  BY <1>2 DEF Ended, IsActive, Active, Terminal
<1>8. StoppedKeepsItsWork'
  <2> SUFFICES ASSUME NEW k \in JobIds \ {j}
               PROVE  /\ Ended(k)' /\ jobs'[k].status # "failed" /\ jobs'[k].latest # jobs'[k].resume
                           => autosaves'[k] = jobs'[k].latest /\ listed'[k] = jobs'[k].latest
                      /\ listed'[k] # None =>
                           /\ autosaves'[k] # None
                           /\ autosaves'[k].gen \in {listed'[k].gen, listed'[k].gen + 1}
    BY <1>7 DEF StoppedKeepsItsWork
  <2> QED BY <1>2 DEF IInv, StoppedKeepsItsWork, Ended, Started
<1>9. EndIsRecoverable'
  BY <1>2, <1>7 DEF IInv, EndIsRecoverable, Ended, Started
<1> QED
  BY <1>1, <1>3, <1>4, <1>5, <1>6, <1>8, <1>9 DEF IInv

(* The last job started is never pruned when it ends. *)
LEMMA PrunedKeepsTheLast ==
    ASSUME NEW j \in JobIds, NEW records \in [JobIds -> Job \cup {None}],
           \A k \in JobIds : records[k] # None => k <= j
    PROVE  /\ Pruned(records) \in [JobIds -> Job \cup {None}]
           /\ Pruned(records)[j] = records[j]
           /\ \A k \in JobIds : Pruned(records)[k] \in {None, records[k]}
<1> DEFINE ended == {k \in JobIds : records[k] # None /\ records[k].status \in Terminal}
           later(i) == {k \in ended : k > i}
<1>1. Pruned(records) = [i \in JobIds |->
           IF i \in ended /\ Cardinality(later(i)) >= Retained THEN None ELSE records[i]]
  BY DEF Pruned
<1>2. later(j) = {}
  <2> SUFFICES ASSUME NEW k \in ended, k > j PROVE FALSE
    OBVIOUS
  <2>1. k \in Nat /\ j \in Nat /\ k <= j
    BY Nones
  <2> QED BY <2>1
<1>3. Cardinality(later(j)) = 0
  BY <1>2, FS_EmptySet
<1>4. ~(Cardinality(later(j)) >= Retained)
  BY <1>3, TrainingAssumption
<1> HIDE DEF ended, later
<1>5. \A i \in JobIds : Pruned(records)[i] =
           IF i \in ended /\ Cardinality(later(i)) >= Retained THEN None ELSE records[i]
  BY <1>1
<1>6. Pruned(records) \in [JobIds -> Job \cup {None}]
  BY <1>1
<1> QED
  BY <1>4, <1>5, <1>6

(* A step that ends the active job and writes nothing. *)
LEMMA EndStep ==
    ASSUME IInv, NEW j \in JobIds, IsActive(j), NEW status \in Terminal,
           End(j, status), UNCHANGED disk, faults' \in Nat,
           status = "cancelled" => jobs[j].stage \in {"validate", "arena"},
           status = "complete" => jobs[j].kind = "other" \/ jobs[j].stage = "finish"
    PROVE  IInv'
<1> DEFINE job == [jobs[j] EXCEPT !.status = status]
           records == [jobs EXCEPT ![j] = job]
<1>1. /\ jobs[j] \in Job /\ jobs[j] # None /\ j = launched
      /\ WorkOK(j) /\ FilesOK(j)
  BY DEF IInv, TypeOK, JobsOK, IsActive, Started
<1>2. job \in Job /\ job # None /\ job.status = status
  <2>1. job \in Job /\ job.status = status
    BY <1>1 DEF Job
  <2> QED BY <2>1, Nones
<1>3. jobs' = Pruned(records) /\ pending' = j
  BY DEF End
<1>4. records \in [JobIds -> Job \cup {None}] /\ records[j] = job
  BY <1>2 DEF IInv, TypeOK
<1>5. \A k \in JobIds : records[k] # None => k <= j
  BY <1>1, Nones DEF IInv, TypeOK, JobsOK, Started
<1>6. /\ jobs' \in [JobIds -> Job \cup {None}]
      /\ jobs'[j] = job
      /\ \A k \in JobIds \ {j} : jobs'[k] = None \/ jobs'[k] = jobs[k]
  <2>1. \A k \in JobIds \ {j} : records[k] = jobs[k]
    BY DEF IInv, TypeOK
  <2> HIDE DEF records
  <2> QED BY <1>3, <1>4, <1>5, <2>1, PrunedKeepsTheLast
<1>7. /\ job.kind = jobs[j].kind /\ job.stage = jobs[j].stage
      /\ job.settings = jobs[j].settings /\ job.target = jobs[j].target
      /\ job.resume = jobs[j].resume /\ job.latest = jobs[j].latest
      /\ job.model = jobs[j].model
  BY <1>1 DEF Job
<1>8. Ended(j)' /\ ~IsActive(j)' /\ ~seen
  <2>1. ~Ended(j) /\ pending # j
    BY <1>1 DEF IInv, EndIsRecoverable, Ended, IsActive, Active, Terminal
  <2>2. Ended(j)'
    BY <1>2, <1>6 DEF Ended, Started
  <2>3. ~IsActive(j)'
    BY <1>2, <1>6 DEF IsActive, Active, Terminal
  <2>4. ~seen
    BY DEF IInv, JobsOK
  <2> QED BY <2>2, <2>3, <2>4
<1> HIDE DEF job, records
<1>9. TypeOK'
  BY <1>3, <1>6 DEF IInv, TypeOK, End, disk
<1>10. WorkOK(j)' /\ FilesOK(j)'
  <2>1. WorkOK(j)'
    BY <1>1, <1>2, <1>6, <1>7 DEF WorkOK, OwnWork, disk
  <2>2. FilesOK(j)'
    BY <1>1, <1>6, <1>7 DEF FilesOK, OwnWork, disk
  <2> QED BY <2>1, <2>2
<1>11. JobsOK'
  <2> SUFFICES ASSUME NEW k \in JobIds
               PROVE  /\ Started(k)' => k <= launched /\ WorkOK(k)' /\ FilesOK(k)'
                      /\ IsActive(k)' => k = launched /\ ~seen
                      /\ k > launched => autosaves[k] = None
                      /\ listed[k] # None => autosaves[k] # None
    BY DEF JobsOK, disk, End
  <2>1. CASE k = j
    BY <1>1, <1>8, <1>10, <2>1, Nones DEF IInv, JobsOK
  <2>2. CASE k # j /\ jobs'[k] = jobs[k]
    <3>1. Started(k) => WorkOK(k)' /\ FilesOK(k)'
      BY <2>2 DEF IInv, JobsOK, WorkOK, FilesOK, OwnWork, disk
    <3> QED BY <2>2, <3>1 DEF IInv, JobsOK, Started, IsActive
  <2>3. CASE k # j /\ jobs'[k] = None
    BY <2>3 DEF IInv, JobsOK, Started, IsActive
  <2> QED BY <1>6, <2>1, <2>2, <2>3
<1>12. PromotersOK'
  BY DEF IInv, PromotersOK, Promote, End, disk
<1>13. MatchesUninterrupted' /\ PromotedOnce'
  BY DEF IInv, MatchesUninterrupted, PromotedOnce, disk
<1>14. StoppedKeepsItsWork'
  <2> SUFFICES ASSUME NEW k \in JobIds
               PROVE  /\ Ended(k)' /\ jobs'[k].status # "failed" /\ jobs'[k].latest # jobs'[k].resume
                           => autosaves[k] = jobs'[k].latest /\ listed[k] = jobs'[k].latest
                      /\ listed[k] # None =>
                           /\ autosaves[k] # None
                           /\ autosaves[k].gen \in {listed[k].gen, listed[k].gen + 1}
    BY DEF StoppedKeepsItsWork, disk
  <2>1. CASE k # j
    BY <1>6, <2>1 DEF IInv, StoppedKeepsItsWork, Ended, Started
  <2>2. CASE k = j
    <3>1. status # "failed" /\ OwnWork(j) => jobs[j].stage \in {"arena", "finish"}
      BY <1>1 DEF WorkOK, OwnWork, Terminal
    <3>2. status # "failed" /\ OwnWork(j) =>
            autosaves[j] = jobs[j].latest /\ listed[j] = jobs[j].latest
      BY <1>1, <3>1 DEF FilesOK
    <3> QED BY <1>2, <1>6, <1>7, <2>2, <3>2 DEF IInv, StoppedKeepsItsWork, OwnWork
  <2> QED BY <2>1, <2>2
<1>15. EndIsRecoverable'
  <2> SUFFICES ASSUME NEW k \in JobIds
               PROVE  pending' = k <=> k = launched' /\ Ended(k)' /\ ~seen'
    BY DEF EndIsRecoverable
  <2> QED BY <1>1, <1>3, <1>8 DEF End
<1> QED
  BY <1>9, <1>11, <1>12, <1>13, <1>14, <1>15 DEF IInv

(* A step that leaves the jobs and the autosaves alone. *)
LEMMA PromoterStep ==
    ASSUME IInv, UNCHANGED <<memory, autosaves, listed>>, faults' \in Nat,
           models \subseteq models', models' \subseteq Model, stamps' \in Nat,
           catalog' \subseteq models',
           \A m \in models' \ models : m.champion.steps = Uninterrupted(m.champion.gen),
           promoting' \in [Promoters -> Promotion \cup {None}],
           lock' \in Promoters \cup {None},
           PromotersOK', PromotedOnce'
    PROVE  IInv'
<1>1. TypeOK'
  BY DEF IInv, TypeOK, memory
<1>2. JobsOK'
  <2>1. \A k \in JobIds : Started(k) => WorkOK(k)' /\ FilesOK(k)'
    BY DEF IInv, JobsOK, WorkOK, FilesOK, OwnWork, memory
  <2> QED BY <2>1 DEF IInv, JobsOK, Started, IsActive, memory
<1>3. MatchesUninterrupted'
  BY DEF IInv, MatchesUninterrupted
<1>4. StoppedKeepsItsWork' /\ EndIsRecoverable'
  BY DEF IInv, StoppedKeepsItsWork, EndIsRecoverable, Ended, Started, memory
<1> QED
  BY <1>1, <1>2, <1>3, <1>4 DEF IInv

LEMMA LoadInv ==
    ASSUME IInv, NEW q \in Promoters, PromoteLoad(q)
    PROVE  IInv'
<1>1. PICK j \in JobIds :
         /\ Offered(j)
         /\ promoting' = [promoting EXCEPT ![q] =
              [stage |-> "look", champion |-> ChampionOf(autosaves[j]), model |-> None]]
  BY DEF PromoteLoad
<1> DEFINE new == [stage |-> "look", champion |-> ChampionOf(autosaves[j]), model |-> None]
<1>2. autosaves[j] \in Checkpoint /\ Exact(autosaves[j])
  BY <1>1 DEF Offered, IInv, TypeOK, MatchesUninterrupted
<1>3. /\ ChampionOf(autosaves[j]) \in Champion
      /\ ChampionOf(autosaves[j]).steps = Uninterrupted(ChampionOf(autosaves[j]).gen)
  BY <1>2 DEF ChampionOf, Champion, Checkpoint, Exact
<1>4. /\ new \in Promotion /\ new.stage = "look" /\ new # None
      /\ new.champion = ChampionOf(autosaves[j])
  <2>1. new \in Promotion /\ new.stage = "look" /\ new.champion = ChampionOf(autosaves[j])
    BY <1>3 DEF Promotion
  <2> QED BY <2>1, Nones
<1> HIDE DEF new
<1>5. /\ promoting' = [promoting EXCEPT ![q] = new]
      /\ lock = None /\ lock' = q
      /\ UNCHANGED <<memory, disk, faults>>
  BY <1>1 DEF PromoteLoad, new, LockIsFree
<1>6. /\ promoting' \in [Promoters -> Promotion \cup {None}]
      /\ promoting'[q] = new
      /\ \A r \in Promoters \ {q} : promoting'[r] = promoting[r] /\ promoting[r] = None
  BY <1>4, <1>5, Nones DEF IInv, TypeOK, PromotersOK
<1>7. PromotersOK'
  <2> SUFFICES ASSUME NEW r \in Promoters
      PROVE /\ promoting'[r] # None <=> lock' = r
            /\ promoting'[r] # None =>
                 promoting'[r].champion.steps = Uninterrupted(promoting'[r].champion.gen)
            /\ promoting'[r] # None => promoting'[r].stage = "look"
    BY DEF PromotersOK, Promote
  <2> QED BY <1>3, <1>4, <1>5, <1>6
<1>8. PromotedOnce'
  BY <1>5 DEF IInv, PromotedOnce, disk
<1> QED
  BY <1>5, <1>6, <1>7, <1>8, PromoterStep DEF IInv, TypeOK, disk

(* The request gives its answer and the lock back. *)
LEMMA ReleasedInv ==
    ASSUME IInv, NEW q \in Promoters, promoting[q] # None, Released(q)
    PROVE  /\ promoting' \in [Promoters -> Promotion \cup {None}] /\ lock' = None
           /\ \A r \in Promoters : promoting'[r] = None
           /\ PromotersOK'
<1>1. /\ lock = q /\ lock' = None
      /\ promoting' \in [Promoters -> Promotion \cup {None}]
      /\ \A r \in Promoters : promoting'[r] = None
  BY Nones DEF IInv, TypeOK, PromotersOK, Released
<1> QED
  BY <1>1, Nones DEF PromotersOK, Promote

LEMMA LookInv ==
    ASSUME IInv, NEW q \in Promoters, PromoteLook(q)
    PROVE  IInv'
<1>1. /\ promoting[q] # None /\ promoting[q].stage = "look"
      /\ UNCHANGED <<disk, faults>>
  BY DEF PromoteLook, Promote
<1>2. PromotedOnce'
  BY <1>1 DEF IInv, PromotedOnce, disk
<1>3. CASE Released(q)
  BY <1>1, <1>2, <1>3, ReleasedInv, PromoterStep DEF Released, IInv, TypeOK, disk
<1>4. CASE ~Released(q)
  <2> DEFINE new == [promoting[q] EXCEPT !.stage = "save"]
  <2>1. /\ ~\E m \in catalog : m.champion = promoting[q].champion
        /\ promoting' = [promoting EXCEPT ![q] = new]
        /\ UNCHANGED <<memory, lock>>
    BY <1>4 DEF PromoteLook
  <2>2. promoting[q] \in Promotion /\ lock = q
    BY <1>1 DEF IInv, TypeOK, PromotersOK
  <2>3. new \in Promotion /\ new.stage = "save" /\ new.champion = promoting[q].champion
    BY <2>2 DEF Promotion
  <2>4. new # None
    BY <2>3, Nones
  <2> HIDE DEF new
  <2>5. /\ promoting' \in [Promoters -> Promotion \cup {None}]
        /\ promoting'[q] = new
        /\ \A r \in Promoters \ {q} : promoting'[r] = None
    BY <2>1, <2>2, <2>3 DEF IInv, TypeOK, PromotersOK
  <2>6. PromotersOK'
    <3> SUFFICES ASSUME NEW r \in Promoters
        PROVE /\ promoting'[r] # None <=> lock' = r
              /\ promoting'[r] # None =>
                   promoting'[r].champion.steps = Uninterrupted(promoting'[r].champion.gen)
              /\ promoting'[r] # None =>
                   \A m \in catalog' : m.champion # promoting'[r].champion
              /\ ~Promote(r, "list")'
      BY DEF PromotersOK
    <3> QED BY <1>1, <2>1, <2>2, <2>3, <2>4, <2>5 DEF disk, Promote, IInv, PromotersOK
  <2> QED
    BY <1>1, <1>2, <2>1, <2>5, <2>6, PromoterStep DEF IInv, TypeOK, disk
<1> QED
  BY <1>3, <1>4

LEMMA FailedPromotionInv ==
    ASSUME IInv, NEW q \in Promoters, promoting[q] # None, FailPromotion(q)
    PROVE  IInv'
<1>1. Released(q) /\ UNCHANGED disk /\ faults' \in Nat
  BY DEF FailPromotion, IInv, TypeOK
<1>2. PromotedOnce'
  BY <1>1 DEF IInv, PromotedOnce, disk
<1> QED
  BY <1>1, <1>2, ReleasedInv, PromoterStep DEF Released, IInv, TypeOK, disk

LEMMA PromoteSaveInv ==
    ASSUME IInv, NEW q \in Promoters, PromoteSave(q)
    PROVE  IInv'
<1>1. promoting[q] # None /\ promoting[q].stage = "save" /\ promoting[q] \in Promotion
  BY DEF PromoteSave, Promote, IInv, TypeOK
<1>2. CASE FailPromotion(q)
  BY <1>1, <1>2, FailedPromotionInv
<1>3. CASE ~FailPromotion(q)
  <2> DEFINE model == ModelOf(promoting[q].champion, "promotion")
             new == [promoting[q] EXCEPT !.model = model, !.stage = "list"]
  <2>1. /\ models' = models \cup {model} /\ stamps' = stamps + 1
        /\ promoting' = [promoting EXCEPT ![q] = new]
        /\ UNCHANGED <<memory, autosaves, listed, catalog, lock, faults>>
    BY <1>3 DEF PromoteSave
  <2>2. lock = q /\ promoting[q].champion \in Champion
    BY <1>1 DEF IInv, PromotersOK, Promotion
  <2>3. model \in Model /\ model.champion = promoting[q].champion /\ model.by = "promotion"
    BY <2>2 DEF ModelOf, Model, IInv, TypeOK
  <2> HIDE DEF model
  <2>4. /\ new \in Promotion /\ new.stage = "list" /\ new.model = model
        /\ new.champion = promoting[q].champion
    BY <1>1, <2>3 DEF Promotion
  <2>5. new # None
    BY <2>4, Nones
  <2> HIDE DEF new
  <2>6. /\ promoting' \in [Promoters -> Promotion \cup {None}]
        /\ promoting'[q] = new
        /\ \A r \in Promoters \ {q} : promoting'[r] = None
    BY <2>1, <2>2, <2>4 DEF IInv, TypeOK, PromotersOK
  <2>7. /\ new.champion.steps = Uninterrupted(new.champion.gen)
        /\ \A m \in catalog : m.champion = new.champion => m.by = "training"
    BY <1>1, <2>4 DEF IInv, PromotersOK
  <2>8. PromotersOK'
    <3> SUFFICES ASSUME NEW r \in Promoters
        PROVE /\ promoting'[r] # None <=> lock' = r
              /\ promoting'[r] # None => r = q
      BY <2>1, <2>3, <2>4, <2>6, <2>7 DEF PromotersOK, Promote
    <3> QED BY <2>1, <2>2, <2>5, <2>6
  <2>9. PromotedOnce'
    BY <2>1 DEF IInv, PromotedOnce
  <2> QED
    BY <2>1, <2>3, <2>4, <2>6, <2>7, <2>8, <2>9, PromoterStep DEF IInv, TypeOK
<1> QED
  BY <1>2, <1>3

LEMMA PromoteListInv ==
    ASSUME IInv, NEW q \in Promoters, PromoteList(q)
    PROVE  IInv'
<1>1. promoting[q] # None /\ Promote(q, "list") /\ promoting[q].stage = "list"
  BY DEF PromoteList, Promote
<1>2. CASE FailPromotion(q)
  BY <1>1, <1>2, FailedPromotionInv
<1>3. CASE ~FailPromotion(q)
  <2>1. /\ catalog' = catalog \cup {promoting[q].model} /\ Released(q)
        /\ UNCHANGED <<autosaves, listed, models, stamps, faults>>
    BY <1>3 DEF PromoteList
  <2>2. /\ promoting[q].model \in models
        /\ \A m \in catalog : m.champion = promoting[q].model.champion => m.by = "training"
    BY <1>1 DEF IInv, PromotersOK
  <2>3. PromotedOnce'
    BY <2>1, <2>2 DEF IInv, PromotedOnce
  <2> QED
    BY <1>1, <2>1, <2>2, <2>3, ReleasedInv, PromoterStep DEF Released, IInv, TypeOK
<1> QED
  BY <1>2, <1>3

(* A crash leaves the files, and what is said of the files alone. *)
LEMMA RestartInv ==
    ASSUME IInv, Restart
    PROVE  IInv'
<1>1. /\ \A k \in JobIds : jobs'[k] = None
      /\ \A q \in Promoters : promoting'[q] = None
      /\ pending' = None /\ lock' = None
      /\ UNCHANGED <<launched, seen, disk>>
  BY DEF Restart
<1>2. TypeOK'
  BY DEF IInv, TypeOK, Restart, disk
<1>3. JobsOK'
  BY <1>1 DEF IInv, JobsOK, Started, IsActive, disk
<1>4. PromotersOK'
  BY <1>1, Nones DEF PromotersOK, Promote
<1>5. MatchesUninterrupted' /\ StoppedKeepsItsWork' /\ PromotedOnce'
  BY <1>1 DEF IInv, MatchesUninterrupted, StoppedKeepsItsWork, PromotedOnce, disk,
              Ended, Started
<1>6. EndIsRecoverable'
  BY <1>1, Nones DEF EndIsRecoverable, Ended, Started
<1> QED
  BY <1>2, <1>3, <1>4, <1>5, <1>6 DEF IInv

LEMMA AcknowledgeInv ==
    ASSUME IInv, NEW j \in JobIds, Acknowledge(j)
    PROVE  IInv'
<1>1. /\ Ended(j) /\ UNCHANGED <<jobs, launched, disk, promoting, lock, faults>>
      /\ pending' = (IF pending = j THEN None ELSE pending)
      /\ seen' = (seen \/ j = launched)
  BY DEF Acknowledge
<1>2. TypeOK'
  BY <1>1 DEF IInv, TypeOK, disk
<1>3. JobsOK'
  <2>1. \A k \in JobIds : Started(k) => WorkOK(k)' /\ FilesOK(k)'
    BY <1>1 DEF IInv, JobsOK, WorkOK, FilesOK, OwnWork, disk
  <2>2. \A k \in JobIds : IsActive(k) => k # j
    BY <1>1 DEF IsActive, Ended, Active, Terminal
  <2> QED BY <1>1, <2>1, <2>2 DEF IInv, JobsOK, Started, IsActive, disk
<1>4. PromotersOK'
  BY <1>1 DEF IInv, PromotersOK, Promote, disk
<1>5. MatchesUninterrupted' /\ StoppedKeepsItsWork' /\ PromotedOnce'
  BY <1>1 DEF IInv, MatchesUninterrupted, StoppedKeepsItsWork, PromotedOnce, disk,
              Ended, Started
<1>6. EndIsRecoverable'
  BY <1>1, Nones DEF IInv, EndIsRecoverable, Ended, Started
<1> QED
  BY <1>2, <1>3, <1>4, <1>5, <1>6 DEF IInv

LEMMA LaunchInv ==
    ASSUME IInv, NEW kind \in {"training", "other"}, NEW settings \in Settings \cup {None},
           NEW target \in Nat, NEW resume \in Checkpoint \cup {None},
           Launch(kind, settings, target, resume),
           resume # None => Exact(resume),
           kind = "other" => resume = None,
           kind = "training" => settings \in Settings /\ target > 0
    PROVE  IInv'
<1> PICK n \in Nat : n = launched + 1
  BY DEF IInv, TypeOK
<1> DEFINE job == [kind |-> kind, status |-> "queued", stage |-> "validate",
                   cancel |-> FALSE, settings |-> settings, target |-> target,
                   resume |-> resume, latest |-> resume, arena |-> 0, model |-> None]
<1>1. /\ jobs' = [jobs EXCEPT ![n] = job] /\ launched' = n
      /\ pending' = None /\ seen' = FALSE
      /\ ~Busy /\ launched < MaxJobs
      /\ UNCHANGED <<disk, promoting, lock, faults>>
  BY DEF Launch
<1>2. n \in JobIds /\ launched \in Nat /\ n > launched
  BY <1>1, TrainingAssumption DEF IInv, TypeOK, JobIds
<1>3. job \in Job
  BY DEF Job, Active
<1>4. job # None
  BY <1>3, Nones
<1>5. autosaves[n] = None /\ listed[n] = None
  BY <1>2 DEF IInv, JobsOK
<1>6. /\ jobs' \in [JobIds -> Job \cup {None}] /\ jobs'[n] = job
      /\ \A k \in JobIds \ {n} : jobs'[k] = jobs[k] /\ ~IsActive(k)
      /\ \A k \in JobIds : k > n => k > launched
  BY <1>1, <1>2, <1>3, Nones DEF IInv, TypeOK, Busy
<1>7. /\ job.kind = kind /\ job.status = "queued" /\ job.stage = "validate"
      /\ job.settings = settings /\ job.target = target
      /\ job.resume = resume /\ job.latest = resume
  OBVIOUS
<1> HIDE DEF job
<1>8. TypeOK'
  <2>1. launched' \in 0..MaxJobs
    BY <1>1, <1>2, TrainingAssumption DEF JobIds
  <2> QED BY <1>1, <1>6, <2>1 DEF IInv, TypeOK, disk
<1>9. WorkOK(n)' /\ FilesOK(n)'
  <2>1. resume # None => resume.gen <= resume.gen
    BY DEF Checkpoint
  <2> QED BY <1>1, <1>5, <1>6, <1>7, <2>1 DEF WorkOK, FilesOK, OwnWork, disk
<1>10. JobsOK'
  <2> SUFFICES ASSUME NEW k \in JobIds
               PROVE  /\ Started(k)' => k <= n /\ WorkOK(k)' /\ FilesOK(k)'
                      /\ IsActive(k)' => k = n /\ ~seen'
                      /\ k > n => autosaves'[k] = None
                      /\ listed'[k] # None => autosaves'[k] # None
    BY <1>1 DEF JobsOK
  <2>1. CASE k = n
    BY <1>1, <1>2, <1>5, <1>9, <2>1, Nones DEF disk
  <2>2. CASE k # n
    <3>1. jobs'[k] = jobs[k] /\ ~IsActive(k)
      BY <1>6, <2>2
    <3>2. Started(k) => WorkOK(k)' /\ FilesOK(k)'
      BY <1>1, <3>1 DEF IInv, JobsOK, WorkOK, FilesOK, OwnWork, disk
    <3>3. Started(k)' => k <= n
      BY <1>2, <3>1, Nones DEF IInv, JobsOK, Started
    <3> QED BY <1>1, <1>6, <3>1, <3>2, <3>3 DEF IInv, JobsOK, Started, IsActive, disk
  <2> QED BY <2>1, <2>2
<1>11. PromotersOK'
  BY <1>1 DEF IInv, PromotersOK, Promote, disk
<1>12. MatchesUninterrupted' /\ PromotedOnce'
  BY <1>1 DEF IInv, MatchesUninterrupted, PromotedOnce, disk
<1>13. ~Ended(n)'
  BY <1>6, <1>7 DEF Ended, Terminal
<1>14. StoppedKeepsItsWork'
  BY <1>1, <1>6, <1>13 DEF IInv, StoppedKeepsItsWork, disk, Ended, Started
<1>15. EndIsRecoverable'
  BY <1>1, <1>13, Nones DEF EndIsRecoverable
<1> QED
  BY <1>8, <1>10, <1>11, <1>12, <1>14, <1>15 DEF IInv

(* What the active job was, for the steps below. *)
LEMMA ActiveJob ==
    ASSUME IInv, NEW j \in JobIds, IsActive(j)
    PROVE  /\ jobs[j] \in Job /\ WorkOK(j) /\ FilesOK(j)
           /\ jobs[j].latest # None => jobs[j].latest \in Checkpoint /\ Exact(jobs[j].latest)
           /\ jobs[j].resume # None => jobs[j].resume \in Checkpoint /\ Exact(jobs[j].resume)
<1>1. jobs[j] \in Job /\ WorkOK(j) /\ FilesOK(j)
  BY DEF IInv, TypeOK, JobsOK, IsActive, Started
<1> QED
  BY <1>1 DEF WorkOK, Job

(* Steps that change the job's record only: its status, its stop request,  *)
(* the arenas played, or a stage that writes nothing.                      *)
LEMMA RecordStep ==
    ASSUME IInv, NEW j \in JobIds, IsActive(j), NEW job \in Job,
           jobs' = [jobs EXCEPT ![j] = job], job.status \in Active,
           UNCHANGED <<launched, pending, seen, disk, promoting, lock, faults>>,
           job.kind = jobs[j].kind, job.settings = jobs[j].settings,
           job.target = jobs[j].target, job.resume = jobs[j].resume,
           job.latest = jobs[j].latest, job.model = jobs[j].model,
           job.stage = jobs[j].stage
             \/ /\ jobs[j].kind = "training" /\ jobs[j].stage = "validate"
                /\ job.stage = "model" /\ jobs[j].resume # None
             \/ /\ jobs[j].kind = "training" /\ jobs[j].stage = "validate"
                /\ job.stage = "arena"
                /\ jobs[j].resume # None => jobs[j].resume.gen < jobs[j].target
    PROVE  IInv'
<1>1. WorkOK(j) /\ FilesOK(j)
  BY ActiveJob
<1>2. jobs'[j] = job
  BY DEF IInv, TypeOK
<1>3. /\ autosaves' = autosaves /\ listed' = listed /\ models' = models
      /\ catalog' = catalog /\ stamps' = stamps
  BY DEF disk
<1>4. job.status # "cancelled" /\ job.status # "complete"
  BY DEF Active
<1>5. WorkOK(j)'
  BY <1>1, <1>2, <1>3, <1>4 DEF WorkOK, OwnWork
<1>6. FilesOK(j)'
  BY <1>1, <1>2, <1>3 DEF FilesOK, WorkOK, OwnWork
<1>7. /\ autosaves[j] # None => Exact(autosaves[j])
      /\ listed[j] # None => /\ autosaves[j] # None
                             /\ autosaves[j].gen \in {listed[j].gen, listed[j].gen + 1}
  BY DEF IInv, MatchesUninterrupted, StoppedKeepsItsWork
<1>8. /\ autosaves \in [JobIds -> Checkpoint \cup {None}]
      /\ listed \in [JobIds -> Checkpoint \cup {None}]
      /\ models \subseteq Model /\ catalog \subseteq models /\ stamps \in Nat
  BY DEF IInv, TypeOK
<1> QED
  BY <1>3, <1>5, <1>6, <1>7, <1>8, JobStep

LEMMA FailWriteInv ==
    ASSUME IInv, NEW j \in JobIds, IsActive(j), FailWrite(j)
    PROVE  IInv'
<1>1. End(j, "failed") /\ UNCHANGED disk /\ faults' \in Nat
  BY DEF FailWrite, IInv, TypeOK
<1> QED
  BY <1>1, EndStep DEF Terminal

LEMMA StopInv ==
    ASSUME IInv, NEW j \in JobIds, IsActive(j), Stop(j),
           jobs[j].stage \in {"validate", "arena"}
    PROVE  IInv'
<1>1. End(j, "cancelled") /\ UNCHANGED disk /\ faults' \in Nat
  BY DEF Stop, IInv, TypeOK
<1> QED
  BY <1>1, EndStep DEF Terminal

LEMMA BeginInv ==
    ASSUME IInv, NEW j \in JobIds, Begin(j)
    PROVE  IInv'
<1> DEFINE job == [jobs[j] EXCEPT !.status = "running"]
<1>1. /\ IsActive(j) /\ jobs' = [jobs EXCEPT ![j] = job]
      /\ UNCHANGED <<launched, pending, seen, disk, promoting, lock, faults>>
  BY DEF Begin, IsActive, Active
<1>2. jobs[j] \in Job
  BY <1>1, ActiveJob
<1>3. /\ job \in Job /\ job.status \in Active
      /\ job.kind = jobs[j].kind /\ job.settings = jobs[j].settings
      /\ job.target = jobs[j].target /\ job.resume = jobs[j].resume
      /\ job.latest = jobs[j].latest /\ job.model = jobs[j].model
      /\ job.stage = jobs[j].stage
  BY <1>2 DEF Job, Active
<1> HIDE DEF job
<1> QED
  BY <1>1, <1>3, RecordStep

LEMMA CancelInv ==
    ASSUME IInv, NEW j \in JobIds, CancelJob(j)
    PROVE  IInv'
<1> DEFINE job == [jobs[j] EXCEPT !.cancel = TRUE]
<1>1. /\ IsActive(j) /\ jobs' = [jobs EXCEPT ![j] = job]
      /\ UNCHANGED <<launched, pending, seen, disk, promoting, lock, faults>>
  BY DEF CancelJob
<1>2. jobs[j] \in Job /\ jobs[j].status \in Active
  BY <1>1, ActiveJob DEF IsActive
<1>3. /\ job \in Job /\ job.status \in Active
      /\ job.kind = jobs[j].kind /\ job.settings = jobs[j].settings
      /\ job.target = jobs[j].target /\ job.resume = jobs[j].resume
      /\ job.latest = jobs[j].latest /\ job.model = jobs[j].model
      /\ job.stage = jobs[j].stage
  BY <1>2 DEF Job
<1> HIDE DEF job
<1> QED
  BY <1>1, <1>3, RecordStep

(* A running job of a kind in a stage is the active one. *)
LEMMA AtIsActive ==
    ASSUME NEW j \in JobIds, NEW kind, NEW stage, At(j, kind, stage)
    PROVE  IsActive(j) /\ jobs[j].kind = kind /\ jobs[j].stage = stage
BY DEF At, IsActive, Active

LEMMA GotoRecord ==
    ASSUME IInv, NEW j \in JobIds, IsActive(j),
           NEW stage \in {"validate", "arena", "save", "list", "model", "row", "finish"},
           Goto(j, stage)
    PROVE  \E job \in Job :
             /\ jobs' = [jobs EXCEPT ![j] = job] /\ jobs'[j] = job
             /\ job.status \in Active /\ job.status = jobs[j].status
             /\ job.kind = jobs[j].kind /\ job.settings = jobs[j].settings
             /\ job.target = jobs[j].target /\ job.resume = jobs[j].resume
             /\ job.latest = jobs[j].latest /\ job.model = jobs[j].model
             /\ job.stage = stage
             /\ UNCHANGED <<launched, pending, seen>>
<1> DEFINE job == [jobs[j] EXCEPT !.stage = stage]
<1>1. jobs' = [jobs EXCEPT ![j] = job] /\ UNCHANGED <<launched, pending, seen>>
  BY DEF Goto
<1>2. jobs[j] \in Job /\ jobs[j].status \in Active
  BY ActiveJob DEF IsActive
<1>3. /\ job \in Job /\ job.status = jobs[j].status
      /\ job.kind = jobs[j].kind /\ job.settings = jobs[j].settings
      /\ job.target = jobs[j].target /\ job.resume = jobs[j].resume
      /\ job.latest = jobs[j].latest /\ job.model = jobs[j].model
      /\ job.stage = stage
  BY <1>2 DEF Job
<1> HIDE DEF job
<1>4. jobs'[j] = job
  BY <1>1 DEF IInv, TypeOK
<1> QED
  BY <1>1, <1>2, <1>3, <1>4

LEMMA ValidateInv ==
    ASSUME IInv, NEW j \in JobIds, Validate(j)
    PROVE  IInv'
<1>1. IsActive(j) /\ jobs[j].kind = "training" /\ jobs[j].stage = "validate"
  BY AtIsActive DEF Validate
<1>2. /\ jobs[j] \in Job
      /\ jobs[j].resume # None => jobs[j].resume \in Checkpoint /\ Exact(jobs[j].resume)
  BY <1>1, ActiveJob
<1>3. CASE Fail(j)
  BY <1>1, <1>3, EndStep DEF Fail, Terminal, IInv, TypeOK
<1>4. CASE Stop(j)
  BY <1>1, <1>4, StopInv
<1>5. CASE /\ Finished(jobs[j]) /\ Goto(j, "model")
           /\ UNCHANGED <<disk, promoting, lock, faults>>
  <2>1. jobs[j].resume # None
    BY <1>5 DEF Finished
  <2> QED BY <1>1, <1>5, <2>1, GotoRecord, RecordStep
<1>6. CASE /\ ~Finished(jobs[j]) /\ Goto(j, "arena")
           /\ UNCHANGED <<disk, promoting, lock, faults>>
  <2>1. jobs[j].resume # None => jobs[j].resume.gen < jobs[j].target
    BY <1>2, <1>6 DEF Finished, Job, Checkpoint
  <2> QED BY <1>1, <1>6, <2>1, GotoRecord, RecordStep
<1> QED
  BY <1>3, <1>4, <1>5, <1>6 DEF Validate

(* One more generation of the active job. *)
LEMMA TrainedIs ==
    ASSUME IInv, NEW j \in JobIds, IsActive(j),
           jobs[j].kind = "training", jobs[j].stage = "arena"
    PROVE  /\ Trained(jobs[j]) \in Checkpoint /\ Exact(Trained(jobs[j]))
           /\ jobs[j].latest = None => Trained(jobs[j]).gen = 1
           /\ jobs[j].latest # None => Trained(jobs[j]).gen = jobs[j].latest.gen + 1
<1> DEFINE from == Origin(jobs[j])
<1>1. /\ jobs[j] \in Job /\ WorkOK(j)
      /\ jobs[j].latest # None => jobs[j].latest \in Checkpoint /\ Exact(jobs[j].latest)
  BY ActiveJob
<1>2. jobs[j].settings \in Settings /\ jobs[j].target \in Nat /\ jobs[j].target > 0
  BY <1>1 DEF WorkOK, Job
<1>3. /\ from \in Checkpoint /\ from.past = from.gen
      /\ from.steps = Uninterrupted(from.gen)
      /\ from.gen < from.target /\ from.target = jobs[j].target
      /\ jobs[j].latest = None => from.gen = 0
      /\ jobs[j].latest # None => from.gen = jobs[j].latest.gen
  <2>1. CASE jobs[j].latest = None
    <3>1. from = [settings |-> jobs[j].settings, target |-> jobs[j].target,
                  gen |-> 0, past |-> 0, steps |-> <<>>]
      BY <2>1 DEF Origin
    <3>2. Uninterrupted(0) = <<>> /\ <<>> \in Seq(Nat)
      BY OneMore
    <3> HIDE DEF from
    <3> QED BY <1>2, <2>1, <3>1, <3>2 DEF Checkpoint
  <2>2. CASE jobs[j].latest # None
    <3>1. from = [jobs[j].latest EXCEPT !.target = jobs[j].target]
      BY <2>2 DEF Origin
    <3>2. jobs[j].latest.gen < jobs[j].target
      BY <1>1, <2>2 DEF WorkOK
    <3> HIDE DEF from
    <3> QED BY <1>1, <1>2, <2>2, <3>1, <3>2 DEF Checkpoint, Exact
  <2> QED BY <2>1, <2>2
<1> HIDE DEF from
<1>4. Trained(jobs[j]) = [from EXCEPT !.gen = from.gen + 1, !.past = from.past + 1,
                                      !.steps = Append(from.steps, from.gen + 1)]
  BY DEF Trained, from
<1>5. /\ from.gen \in Nat
      /\ Append(from.steps, from.gen + 1) = Uninterrupted(from.gen + 1)
      /\ Uninterrupted(from.gen + 1) \in Seq(Nat)
  <2>1. from.gen \in Nat /\ from.gen + 1 \in Nat
    BY <1>3 DEF Checkpoint
  <2> QED BY <1>3, <2>1, OneMore
<1> DEFINE c == Trained(jobs[j])
<1>6. /\ c \in Checkpoint /\ c.target = from.target
      /\ c.gen = from.gen + 1 /\ c.past = from.gen + 1
      /\ c.steps = Uninterrupted(from.gen + 1)
  <2>1. PICK g \in Nat : g = from.gen + 1
    BY <1>5
  <2>2. PICK s \in Seq(Nat) : s = Uninterrupted(from.gen + 1)
    BY <1>5
  <2>3. c = [from EXCEPT !.gen = g, !.past = g, !.steps = s]
    BY <1>3, <1>4, <1>5, <2>1, <2>2
  <2> HIDE DEF c
  <2>4. /\ c \in Checkpoint /\ c.target = from.target
        /\ c.gen = g /\ c.past = g /\ c.steps = s
    BY <1>3, <2>3 DEF Checkpoint
  <2> QED BY <2>1, <2>2, <2>4
<1>7. from.gen + 1 \in 1..from.target
  <2>1. from.gen \in Nat /\ from.target \in Nat /\ from.gen < from.target
    BY <1>3 DEF Checkpoint
  <2> QED BY <2>1
<1> HIDE DEF c
<1>8. Exact(c)
  BY <1>6, <1>7 DEF Exact
<1>9. (jobs[j].latest = None => c.gen = 1)
      /\ (jobs[j].latest # None => c.gen = jobs[j].latest.gen + 1)
  BY <1>3, <1>6
<1> QED
  BY <1>6, <1>8, <1>9 DEF c

LEMMA PlayArenaInv ==
    ASSUME IInv, NEW j \in JobIds, PlayArena(j)
    PROVE  IInv'
<1>1. IsActive(j) /\ jobs[j].kind = "training" /\ jobs[j].stage = "arena"
  BY AtIsActive DEF PlayArena
<1>2. jobs[j] \in Job /\ jobs[j].status \in Active /\ WorkOK(j) /\ FilesOK(j)
  BY <1>1, ActiveJob DEF IsActive
<1>3. CASE Stop(j)
  BY <1>1, <1>3, StopInv
<1>4. CASE /\ jobs' = [jobs EXCEPT ![j].arena = @ + 1]
           /\ UNCHANGED <<launched, pending, seen, disk, promoting, lock, faults>>
  <2> DEFINE job == [jobs[j] EXCEPT !.arena = @ + 1]
  <2>1. jobs' = [jobs EXCEPT ![j] = job]
    BY <1>4
  <2>2. /\ job \in Job /\ job.status \in Active
        /\ job.kind = jobs[j].kind /\ job.settings = jobs[j].settings
        /\ job.target = jobs[j].target /\ job.resume = jobs[j].resume
        /\ job.latest = jobs[j].latest /\ job.model = jobs[j].model
        /\ job.stage = jobs[j].stage
    BY <1>2 DEF Job
  <2> HIDE DEF job
  <2> QED BY <1>1, <1>4, <2>1, <2>2, RecordStep
<1>5. CASE /\ jobs' = [jobs EXCEPT ![j].latest = Trained(jobs[j]),
                                   ![j].arena = 0, ![j].stage = "save"]
           /\ UNCHANGED <<launched, pending, seen, disk, promoting, lock, faults>>
  <2>1. PICK c \in Checkpoint : /\ c = Trained(jobs[j]) /\ Exact(c)
                                /\ jobs[j].latest = None => c.gen = 1
                                /\ jobs[j].latest # None => c.gen = jobs[j].latest.gen + 1
    BY <1>1, TrainedIs
  <2> DEFINE job == [jobs[j] EXCEPT !.latest = c, !.arena = 0, !.stage = "save"]
  <2>2. jobs' = [jobs EXCEPT ![j] = job]
    BY <1>5, <2>1
  <2>3. /\ job \in Job /\ job.status \in Active
        /\ job.kind = "training" /\ job.settings = jobs[j].settings
        /\ job.target = jobs[j].target /\ job.resume = jobs[j].resume
        /\ job.latest = c /\ job.stage = "save"
    BY <1>1, <1>2 DEF Job
  <2> HIDE DEF job
  <2>4. jobs'[j] = job
    BY <2>2 DEF IInv, TypeOK
  <2>5. /\ autosaves' = autosaves /\ listed' = listed /\ models' = models
        /\ catalog' = catalog /\ stamps' = stamps
    BY <1>5 DEF disk
  <2>6. /\ jobs[j].latest # None =>
             jobs[j].latest \in Checkpoint /\ jobs[j].latest.gen \in Nat
        /\ jobs[j].resume # None =>
             /\ jobs[j].resume \in Checkpoint /\ jobs[j].resume.gen \in Nat
             /\ jobs[j].latest # None /\ jobs[j].resume.gen <= jobs[j].latest.gen
        /\ c.gen \in Nat /\ c # None
    BY <1>2, Nones DEF WorkOK, Job, Checkpoint
  <2>7. c # jobs[j].resume /\ (jobs[j].resume # None => jobs[j].resume.gen <= c.gen)
    BY <2>1, <2>6
  <2>8. WorkOK(j)'
    <3>1. job.status # "cancelled" /\ job.status # "complete"
      BY <2>3 DEF Active
    <3> QED BY <1>1, <1>2, <2>1, <2>3, <2>4, <2>6, <2>7, <3>1 DEF WorkOK, OwnWork
  <2>9. listed[j] = autosaves[j] /\ (autosaves[j] # None => autosaves[j].gen + 1 = c.gen)
    BY <1>1, <1>2, <2>1 DEF FilesOK, OwnWork, IInv, JobsOK
  <2>10. FilesOK(j)'
    BY <2>3, <2>4, <2>5, <2>7, <2>9 DEF FilesOK, OwnWork
  <2>11. /\ autosaves \in [JobIds -> Checkpoint \cup {None}]
         /\ listed \in [JobIds -> Checkpoint \cup {None}]
         /\ models \subseteq Model /\ catalog \subseteq models /\ stamps \in Nat
    BY DEF IInv, TypeOK
  <2>12. /\ autosaves[j] # None => Exact(autosaves[j])
         /\ listed[j] # None => /\ autosaves[j] # None
                                /\ autosaves[j].gen \in {listed[j].gen, listed[j].gen + 1}
    BY DEF IInv, MatchesUninterrupted, StoppedKeepsItsWork
  <2> QED
    BY <1>1, <1>5, <2>2, <2>3, <2>5, <2>8, <2>10, <2>11, <2>12, JobStep
<1> QED
  BY <1>3, <1>4, <1>5 DEF PlayArena

LEMMA SaveAutosaveInv ==
    ASSUME IInv, NEW j \in JobIds, SaveAutosave(j)
    PROVE  IInv'
<1>1. IsActive(j) /\ jobs[j].kind = "training" /\ jobs[j].stage = "save"
  BY AtIsActive DEF SaveAutosave
<1>2. /\ jobs[j] \in Job /\ jobs[j].status \in Active /\ WorkOK(j) /\ FilesOK(j)
      /\ jobs[j].latest # None => jobs[j].latest \in Checkpoint /\ Exact(jobs[j].latest)
  BY <1>1, ActiveJob DEF IsActive
<1>3. CASE FailWrite(j)
  BY <1>1, <1>3, FailWriteInv
<1>4. CASE /\ autosaves' = [autosaves EXCEPT ![j] = jobs[j].latest]
           /\ Goto(j, "list")
           /\ UNCHANGED <<listed, models, catalog, stamps, promoting, lock, faults>>
  <2>1. PICK job \in Job :
          /\ jobs' = [jobs EXCEPT ![j] = job] /\ jobs'[j] = job
          /\ job.status \in Active /\ job.status = jobs[j].status
          /\ job.kind = jobs[j].kind /\ job.settings = jobs[j].settings
          /\ job.target = jobs[j].target /\ job.resume = jobs[j].resume
          /\ job.latest = jobs[j].latest /\ job.model = jobs[j].model
          /\ job.stage = "list"
          /\ UNCHANGED <<launched, pending, seen>>
    BY <1>1, <1>4, GotoRecord
  <2>2. OwnWork(j) /\ jobs[j].latest # None
    BY <1>1, <1>2 DEF WorkOK
  <2>3. PICK c \in Checkpoint : c = jobs[j].latest /\ Exact(c)
    BY <1>2, <2>2
  <2>4. /\ autosaves' \in [JobIds -> Checkpoint \cup {None}] /\ autosaves'[j] = c
        /\ \A k \in JobIds \ {j} : autosaves'[k] = autosaves[k] /\ listed'[k] = listed[k]
        /\ listed' \in [JobIds -> Checkpoint \cup {None}] /\ c # None
        /\ models \subseteq Model /\ catalog \subseteq models /\ stamps \in Nat
    BY <1>4, <2>3, Nones DEF IInv, TypeOK
  <2>5. /\ listed[j] = autosaves[j]
        /\ autosaves[j] # None => autosaves[j].gen + 1 = c.gen
    BY <1>1, <1>2, <2>2, <2>3 DEF FilesOK
  <2>6. WorkOK(j)'
    <3>1. job.status # "cancelled" /\ job.status # "complete"
      BY <2>1 DEF Active
    <3> QED BY <1>1, <1>2, <2>1, <2>2, <3>1 DEF WorkOK, OwnWork
  <2>7. FilesOK(j)'
    BY <1>4, <2>1, <2>2, <2>3, <2>4, <2>5 DEF FilesOK, OwnWork
  <2>8. listed'[j] # None => /\ autosaves'[j] # None
                             /\ autosaves'[j].gen \in {listed'[j].gen, listed'[j].gen + 1}
    BY <1>4, <2>4, <2>5
  <2> QED
    BY <1>1, <1>4, <2>1, <2>3, <2>4, <2>6, <2>7, <2>8, JobStep
<1> QED
  BY <1>3, <1>4 DEF SaveAutosave

LEMMA ListAutosaveInv ==
    ASSUME IInv, NEW j \in JobIds, ListAutosave(j)
    PROVE  IInv'
<1>1. IsActive(j) /\ jobs[j].kind = "training" /\ jobs[j].stage = "list"
  BY AtIsActive DEF ListAutosave
<1>2. /\ jobs[j] \in Job /\ jobs[j].status \in Active /\ WorkOK(j) /\ FilesOK(j)
      /\ jobs[j].latest # None => jobs[j].latest \in Checkpoint /\ Exact(jobs[j].latest)
  BY <1>1, ActiveJob DEF IsActive
<1>3. CASE FailWrite(j)
  BY <1>1, <1>3, FailWriteInv
<1>4. CASE ~FailWrite(j)
  <2> DEFINE stage == IF jobs[j].latest.gen < jobs[j].target THEN "arena" ELSE "model"
  <2>0. /\ listed' = [listed EXCEPT ![j] = jobs[j].latest] /\ Goto(j, stage)
        /\ UNCHANGED <<autosaves, models, catalog, stamps, promoting, lock, faults>>
        /\ stage \in {"arena", "model"}
    BY <1>4 DEF ListAutosave
  <2>1. PICK job \in Job :
          /\ jobs' = [jobs EXCEPT ![j] = job] /\ jobs'[j] = job
          /\ job.status \in Active /\ job.status = jobs[j].status
          /\ job.kind = jobs[j].kind /\ job.settings = jobs[j].settings
          /\ job.target = jobs[j].target /\ job.resume = jobs[j].resume
          /\ job.latest = jobs[j].latest /\ job.model = jobs[j].model
          /\ job.stage = stage
          /\ UNCHANGED <<launched, pending, seen>>
    <3> HIDE DEF stage
    <3> QED BY <1>1, <2>0, GotoRecord
  <2>2. OwnWork(j) /\ jobs[j].latest # None
    BY <1>1, <1>2 DEF WorkOK
  <2>3. PICK c \in Checkpoint : c = jobs[j].latest /\ Exact(c)
    BY <1>2, <2>2
  <2>4. /\ listed' \in [JobIds -> Checkpoint \cup {None}] /\ listed'[j] = c
        /\ \A k \in JobIds \ {j} : autosaves'[k] = autosaves[k] /\ listed'[k] = listed[k]
        /\ autosaves' \in [JobIds -> Checkpoint \cup {None}] /\ c # None
        /\ models \subseteq Model /\ catalog \subseteq models /\ stamps \in Nat
    BY <2>0, <2>3, Nones DEF IInv, TypeOK
  <2>5. autosaves[j] = c
    BY <1>1, <1>2, <2>2, <2>3 DEF FilesOK
  <2>6. WorkOK(j)'
    <3>1. job.status # "cancelled" /\ job.status # "complete"
      BY <2>1 DEF Active
    <3> QED BY <1>1, <1>2, <2>1, <2>2, <3>1 DEF WorkOK, OwnWork
  <2>7. FilesOK(j)'
    BY <2>0, <2>1, <2>2, <2>3, <2>4, <2>5 DEF FilesOK, OwnWork
  <2> HIDE DEF stage
  <2> QED
    BY <1>1, <2>0, <2>1, <2>3, <2>4, <2>5, <2>6, <2>7, JobStep
<1> QED
  BY <1>3, <1>4

LEMMA SaveModelInv ==
    ASSUME IInv, NEW j \in JobIds, SaveModel(j)
    PROVE  IInv'
<1>1. IsActive(j) /\ jobs[j].kind = "training" /\ jobs[j].stage = "model"
  BY AtIsActive DEF SaveModel
<1>2. /\ jobs[j] \in Job /\ jobs[j].status \in Active /\ WorkOK(j) /\ FilesOK(j)
      /\ jobs[j].latest \in Checkpoint /\ Exact(jobs[j].latest)
  BY <1>1, ActiveJob DEF IsActive, WorkOK
<1>3. CASE FailWrite(j)
  BY <1>1, <1>3, FailWriteInv
<1>4. CASE ~FailWrite(j)
  <2> DEFINE model == ModelOf(ChampionOf(jobs[j].latest), "training")
             job == [jobs[j] EXCEPT !.model = model, !.stage = "row"]
  <2>1. /\ models' = models \cup {model} /\ stamps' = stamps + 1
        /\ jobs' = [jobs EXCEPT ![j] = job]
        /\ UNCHANGED <<launched, pending, seen, autosaves, listed, catalog,
                       promoting, lock, faults>>
    BY <1>4 DEF SaveModel
  <2>2. /\ ChampionOf(jobs[j].latest) \in Champion
        /\ ChampionOf(jobs[j].latest).steps = Uninterrupted(ChampionOf(jobs[j].latest).gen)
    BY <1>2 DEF ChampionOf, Champion, Checkpoint, Exact
  <2>3. /\ model \in Model /\ model.by = "training"
        /\ model.champion.steps = Uninterrupted(model.champion.gen)
    BY <2>2 DEF ModelOf, Model, IInv, TypeOK
  <2> HIDE DEF model
  <2>4. /\ job \in Job /\ job.status \in Active
        /\ job.kind = jobs[j].kind /\ job.settings = jobs[j].settings
        /\ job.target = jobs[j].target /\ job.resume = jobs[j].resume
        /\ job.latest = jobs[j].latest /\ job.model = model /\ job.stage = "row"
    BY <1>2, <2>3 DEF Job
  <2> HIDE DEF job
  <2>5. jobs'[j] = job
    BY <2>1 DEF IInv, TypeOK
  <2>6. WorkOK(j)'
    <3>1. job.status # "cancelled" /\ job.status # "complete"
      BY <2>4 DEF Active
    <3> QED BY <1>1, <1>2, <2>1, <2>3, <2>4, <2>5, <3>1, Nones DEF WorkOK, OwnWork
  <2>7. FilesOK(j)'
    BY <1>1, <1>2, <2>1, <2>4, <2>5 DEF FilesOK, OwnWork
  <2>8. /\ autosaves[j] # None => Exact(autosaves[j])
        /\ listed[j] # None => /\ autosaves[j] # None
                               /\ autosaves[j].gen \in {listed[j].gen, listed[j].gen + 1}
    BY DEF IInv, MatchesUninterrupted, StoppedKeepsItsWork
  <2>9. /\ autosaves \in [JobIds -> Checkpoint \cup {None}]
        /\ listed \in [JobIds -> Checkpoint \cup {None}]
        /\ models \subseteq Model /\ catalog \subseteq models /\ stamps \in Nat
    BY DEF IInv, TypeOK
  <2>10. /\ models \subseteq models' /\ models' \subseteq Model /\ stamps' \in Nat
         /\ catalog \subseteq catalog' /\ catalog' \subseteq models'
         /\ \A m \in models' \ models : m.champion.steps = Uninterrupted(m.champion.gen)
         /\ \A m \in catalog' \ catalog : m.by = "training"
    BY <2>1, <2>3, <2>9
  <2>11. autosaves' = autosaves /\ listed' = listed
    BY <2>1
  <2> QED
    BY <1>1, <2>1, <2>4, <2>6, <2>7, <2>8, <2>9, <2>10, <2>11, JobStep
<1> QED
  BY <1>3, <1>4

LEMMA ListModelInv ==
    ASSUME IInv, NEW j \in JobIds, ListModel(j)
    PROVE  IInv'
<1>1. IsActive(j) /\ jobs[j].kind = "training" /\ jobs[j].stage = "row"
  BY AtIsActive DEF ListModel
<1>2. jobs[j] \in Job /\ jobs[j].status \in Active /\ WorkOK(j) /\ FilesOK(j)
  BY <1>1, ActiveJob DEF IsActive
<1>3. CASE FailWrite(j)
  BY <1>1, <1>3, FailWriteInv
<1>4. CASE /\ catalog' = catalog \cup {jobs[j].model} /\ Goto(j, "finish")
           /\ UNCHANGED <<autosaves, listed, models, stamps, promoting, lock, faults>>
  <2>1. PICK job \in Job :
          /\ jobs' = [jobs EXCEPT ![j] = job] /\ jobs'[j] = job
          /\ job.status \in Active /\ job.status = jobs[j].status
          /\ job.kind = jobs[j].kind /\ job.settings = jobs[j].settings
          /\ job.target = jobs[j].target /\ job.resume = jobs[j].resume
          /\ job.latest = jobs[j].latest /\ job.model = jobs[j].model
          /\ job.stage = "finish"
          /\ UNCHANGED <<launched, pending, seen>>
    BY <1>1, <1>4, GotoRecord
  <2>2. jobs[j].model \in models /\ jobs[j].model.by = "training" /\ jobs[j].latest # None
    BY <1>1, <1>2 DEF WorkOK
  <2>3. WorkOK(j)'
    <3>1. job.status # "cancelled" /\ job.status # "complete"
      BY <2>1 DEF Active
    <3> QED BY <1>1, <1>2, <2>1, <2>2, <3>1 DEF WorkOK, OwnWork
  <2>4. FilesOK(j)'
    BY <1>1, <1>2, <1>4, <2>1 DEF FilesOK, OwnWork
  <2>5. /\ autosaves[j] # None => Exact(autosaves[j])
        /\ listed[j] # None => /\ autosaves[j] # None
                               /\ autosaves[j].gen \in {listed[j].gen, listed[j].gen + 1}
    BY DEF IInv, MatchesUninterrupted, StoppedKeepsItsWork
  <2>6. /\ autosaves \in [JobIds -> Checkpoint \cup {None}]
        /\ listed \in [JobIds -> Checkpoint \cup {None}]
        /\ models \subseteq Model /\ catalog \subseteq models /\ stamps \in Nat
    BY DEF IInv, TypeOK
  <2> QED
    BY <1>1, <1>4, <2>1, <2>2, <2>3, <2>4, <2>5, <2>6, JobStep
<1> QED
  BY <1>3, <1>4 DEF ListModel

LEMMA FinishInv ==
    ASSUME IInv, NEW j \in JobIds, Finish(j)
    PROVE  IInv'
<1>1. IsActive(j) /\ jobs[j].stage = "finish"
  BY AtIsActive DEF Finish
<1> QED
  BY <1>1, EndStep DEF Finish, Terminal, IInv, TypeOK

LEMMA WorkOtherInv ==
    ASSUME IInv, NEW j \in JobIds, WorkOther(j)
    PROVE  IInv'
<1>1. IsActive(j) /\ jobs[j].kind = "other" /\ jobs[j].stage = "validate"
  BY AtIsActive DEF WorkOther
<1>2. CASE Stop(j)
  BY <1>1, <1>2, StopInv
<1>3. CASE FailWrite(j)
  BY <1>1, <1>3, FailWriteInv
<1>4. CASE End(j, "complete") /\ UNCHANGED <<disk, faults>>
  BY <1>1, <1>4, EndStep DEF Terminal, IInv, TypeOK
<1> QED
  BY <1>2, <1>3, <1>4 DEF WorkOther

LEMMA StartInv ==
    ASSUME IInv, StartTraining \/ ResumeTraining \/ StartOther
    PROVE  IInv'
<1>1. \A j \in JobIds : Offered(j) =>
        /\ autosaves[j] \in Checkpoint /\ Exact(autosaves[j])
        /\ autosaves[j].settings \in Settings
        /\ autosaves[j].target \in Nat /\ autosaves[j].target > 0
  BY DEF Offered, IInv, TypeOK, MatchesUninterrupted, Checkpoint, Exact
<1>2. \A target \in Targets : target \in Nat /\ target > 0
  BY TrainingAssumption
<1>3. CASE StartTraining
  <2>1. PICK settings \in Settings, target \in Targets :
          \/ Launch("training", settings, target, None)
          \/ \E j \in JobIds : /\ Offered(j)
                               /\ Launch("training", settings, target, autosaves[j])
    BY <1>3 DEF StartTraining
  <2>2. CASE Launch("training", settings, target, None)
    BY <1>2, <2>2, LaunchInv
  <2>3. ASSUME NEW j \in JobIds, Offered(j),
               Launch("training", settings, target, autosaves[j])
        PROVE  IInv'
    BY <1>1, <1>2, <2>3, LaunchInv
  <2> QED BY <2>1, <2>2, <2>3
<1>4. CASE ResumeTraining
  <2>1. PICK j \in JobIds :
          /\ Offered(j)
          /\ \E target \in {autosaves[j].target}
                             \cup {n \in Targets : n >= autosaves[j].gen} :
               Launch("training", autosaves[j].settings, target, autosaves[j])
    BY <1>4 DEF ResumeTraining
  <2>2. PICK target \in Nat :
          target > 0 /\ Launch("training", autosaves[j].settings, target, autosaves[j])
    BY <1>1, <1>2, <2>1
  <2> QED BY <1>1, <2>1, <2>2, LaunchInv
<1>5. CASE StartOther
  BY <1>5, LaunchInv DEF StartOther
<1> QED
  BY <1>3, <1>4, <1>5

\* What a job has written by each stage, who holds the lock, and what follows.
THEOREM TrainingInvariant == Spec => []IInv
<1>1. IInv /\ [Next]_vars => IInv'
  <2> SUFFICES ASSUME IInv, [Next]_vars PROVE IInv'
    OBVIOUS
  <2>1. CASE UNCHANGED vars
    <3>1. PromotersOK' /\ PromotedOnce'
      BY <2>1 DEF vars, disk, IInv, PromotersOK, PromotedOnce, Promote
    <3> QED BY <2>1, <3>1, PromoterStep DEF vars, memory, disk, IInv, TypeOK
  <2>2. CASE StartTraining \/ ResumeTraining \/ StartOther
    BY <2>2, StartInv
  <2>3. ASSUME NEW j \in JobIds, CancelJob(j) \/ Acknowledge(j) \/ RunJob(j)
        PROVE  IInv'
    BY <2>3, CancelInv, AcknowledgeInv, BeginInv, ValidateInv, PlayArenaInv,
       SaveAutosaveInv, ListAutosaveInv, SaveModelInv, ListModelInv, FinishInv,
       WorkOtherInv DEF RunJob, RunTraining
  <2>4. ASSUME NEW q \in Promoters, PromoteLoad(q) \/ PromoteOn(q)
        PROVE  IInv'
    BY <2>4, LoadInv, LookInv, PromoteSaveInv, PromoteListInv DEF PromoteOn
  <2>5. CASE Restart
    BY <2>5, RestartInv
  <2> QED BY <2>1, <2>2, <2>3, <2>4, <2>5 DEF Next
<1> QED
  BY InitInv, <1>1, PTL DEF Spec

\* Every autosave and every model is that of an uninterrupted run.
THEOREM EveryAutosaveIsUninterrupted == Spec => []MatchesUninterrupted
<1>1. IInv => MatchesUninterrupted
  BY DEF IInv
<1> QED
  BY <1>1, TrainingInvariant, PTL

\* What was stopped or completed is on disk and in the catalog.
THEOREM NoGenerationIsLost == Spec => []StoppedKeepsItsWork
<1>1. IInv => StoppedKeepsItsWork
  BY DEF IInv
<1> QED
  BY <1>1, TrainingInvariant, PTL

\* Promotions of one champion agree on one model.
THEOREM PromotionsAgree == Spec => []PromotedOnce
<1>1. IInv => PromotedOnce
  BY DEF IInv
<1> QED
  BY <1>1, TrainingInvariant, PTL

\* The end of the last job is recoverable until a page acknowledged it.
THEOREM TheLastEndIsRecoverable == Spec => []EndIsRecoverable
<1>1. IInv => EndIsRecoverable
  BY DEF IInv
<1> QED
  BY <1>1, TrainingInvariant, PTL
=============================================================================

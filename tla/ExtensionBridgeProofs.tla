----------------------- MODULE ExtensionBridgeProofs -----------------------
(***************************************************************************)
(* The extension bridge and its service worker, for any calls, polls,      *)
(* secrets and values.  The bridge alone: IInv is inductive, each safety   *)
(* invariant follows from it, and the bridge implements CommandExchange.   *)
(* With the worker as its client: every step of the two is a step of the   *)
(* bridge, LinkIInv is inductive, and the worker's safety follows.         *)
(***************************************************************************)
EXTENDS ServiceWorker, TLAPS

USE NoneAssumption, CancellableAssumption
USE DEF ForgetOffer, Replays, PollOver, TimerFires

\* An answer is never mistaken for an exception.
LEMMA AnswersAreNotRaised == Bodies \cap (Reasons \cup Refusals) = {}
  BY DEF Bodies, Reasons, Refusals, Raised

\* The exceptions of the bridge's methods are of the declared kinds.
LEMMA RaisedTypes ==
  /\ \A why \in {"disconnected", "closed", "cancelled", "timeout"} : Raised(why) \in Reasons
  /\ \A why \in {"closed", "unpaired", "busy", "cancelled"} : Raised(why) \in Refusals
  BY DEF Reasons, Refusals

LEMMA InitIInv == Init => IInv
  <1> SUFFICES ASSUME Init PROVE IInv
    OBVIOUS
  <1>1. TypeOK
    <2>1. <<>> \in Seq(Secrets)
      OBVIOUS
    <2>2. claims \in [Calls -> Seq(Secrets)]
      BY <2>1 DEF Init
    <2> QED BY <2>2 DEF Init, TypeOK, Waiting
  <1>2. CommandLife
    BY DEF Init, CommandLife, Waiting, Answered
  <1>3. ReceiptMatches /\ SlotBelongsToSession /\ OneWayIn
    BY DEF Init, ReceiptMatches, SlotBelongsToSession, OneWayIn
  <1>4. SleepersHaveNothingToReturn /\ SleepingPollsMissNothing
    BY DEF Init, SleepersHaveNothingToReturn, SleepingPollsMissNothing
  <1> QED BY <1>1, <1>2, <1>3, <1>4 DEF IInv

\* What a notify_all does to the threads.
LEMMA RousedType ==
  /\ \A was \in [Calls -> {"new", "checked", "returned"} \cup Waiting] :
       /\ Roused(was) \in [Calls -> {"new", "checked", "returned"} \cup Waiting]
       /\ \A c \in Calls :
            /\ Roused(was)[c] # "asleep"
            /\ Roused(was)[c] \in Waiting <=> was[c] \in Waiting
            /\ was[c] # "asleep" => Roused(was)[c] = was[c]
  /\ \A was \in [Polls -> {"new", "expired"} \cup Waiting] :
       /\ Roused(was) \in [Polls -> {"new", "expired"} \cup Waiting]
       /\ \A q \in Polls : Roused(was)[q] # "asleep"
  BY DEF Roused, Waiting

\* The same of pc and pollPc, for an action that only notifies.
LEMMA NotifiedThreads ==
  ASSUME TypeOK, pc' = Roused(pc), pollPc' = Roused(pollPc)
  PROVE  /\ pc' \in [Calls -> {"new", "checked", "returned"} \cup Waiting]
         /\ pollPc' \in [Polls -> {"new", "expired"} \cup Waiting]
         /\ \A q \in Polls : pollPc'[q] # "asleep"
         /\ \A c \in Calls :
              /\ pc'[c] # "asleep"
              /\ pc'[c] \in Waiting <=> pc[c] \in Waiting
              /\ pc[c] \notin Waiting => pc'[c] = pc[c]
  BY RousedType DEF TypeOK, Waiting

\* The same of pc, when the notifying thread c goes to sleep or returns.
LEMMA NotifiedByCaller ==
  ASSUME TypeOK, NEW c \in Calls, NEW to \in {"asleep", "returned"},
         pc' = [Roused(pc) EXCEPT ![c] = to]
  PROVE  /\ pc' \in [Calls -> {"new", "checked", "returned"} \cup Waiting]
         /\ pc'[c] = to
         /\ \A d \in Calls \ {c} :
              /\ pc'[d] # "asleep"
              /\ pc'[d] \in Waiting <=> pc[d] \in Waiting
              /\ pc[d] \notin Waiting => pc'[d] = pc[d]
  <1> DEFINE roused == Roused(pc)
  <1>1. /\ roused \in [Calls -> {"new", "checked", "returned"} \cup Waiting]
        /\ \A d \in Calls :
             /\ roused[d] # "asleep"
             /\ roused[d] \in Waiting <=> pc[d] \in Waiting
             /\ pc[d] # "asleep" => roused[d] = pc[d]
    BY RousedType DEF TypeOK
  <1>2. pc' = [roused EXCEPT ![c] = to]
    OBVIOUS
  <1> HIDE DEF roused
  <1> QED BY ZenonT(30), <1>1, <1>2 DEF Waiting

\* Dropping the session ends its command and leaves nobody asleep.
LEMMA DropCommandKeeps ==
  ASSUME IInv, NEW why \in {"disconnected", "closed", "cancelled", "timeout"},
         DropCommand(why), UNCHANGED <<state, answer, outcome, submittedTo, claims, acked>>
  PROVE  /\ CommandLife' /\ ReceiptMatches' /\ SlotBelongsToSession'
         /\ SleepersHaveNothingToReturn' /\ SleepingPollsMissNothing'
         /\ terminal' \in [Calls -> Reasons \cup {None}]
         /\ pc' \in [Calls -> {"new", "checked", "returned"} \cup Waiting]
         /\ pollPc' \in [Polls -> {"new", "expired"} \cup Waiting]
         /\ slot' = None /\ token' = None /\ receipt' = None
  <1>1. /\ slot' = None /\ token' = None /\ receipt' = None
        /\ pc' = Roused(pc) /\ pollPc' = Roused(pollPc)
    BY DEF DropCommand, NotifyAll
  <1>2. /\ pc' \in [Calls -> {"new", "checked", "returned"} \cup Waiting]
        /\ pollPc' \in [Polls -> {"new", "expired"} \cup Waiting]
        /\ \A q \in Polls : pollPc'[q] # "asleep"
        /\ \A c \in Calls :
             /\ pc'[c] # "asleep"
             /\ pc'[c] \in Waiting <=> pc[c] \in Waiting
             /\ pc[c] \notin Waiting => pc'[c] = pc[c]
    BY <1>1, NotifiedThreads DEF IInv
  <1>3. /\ terminal' \in [Calls -> Reasons \cup {None}]
        /\ \A c \in Calls :
             IF slot = c /\ state[c] \in {"queued", "claimed"}
             THEN terminal'[c] \in Reasons
             ELSE terminal'[c] = terminal[c]
    BY RaisedTypes DEF DropCommand, IInv, TypeOK
  <1>4. CommandLife'
    BY <1>1, <1>2, <1>3
       DEF IInv, TypeOK, CommandLife, Answered, SlotBelongsToSession, Waiting
  <1>5. ReceiptMatches' /\ SlotBelongsToSession'
    BY <1>1 DEF ReceiptMatches, SlotBelongsToSession
  <1>6. SleepersHaveNothingToReturn' /\ SleepingPollsMissNothing'
    BY <1>2 DEF SleepersHaveNothingToReturn, SleepingPollsMissNothing
  <1> QED BY <1>1, <1>2, <1>3, <1>4, <1>5, <1>6

LEMMA CreatePairingKeeps ==
  ASSUME IInv, NEW s \in Secrets, CreatePairing(s)
  PROVE  IInv'
  <1>1. CASE token # None
    <2>1. DropCommand("disconnected") /\ UNCHANGED <<state, answer, outcome, submittedTo, claims, acked>>
      BY <1>1 DEF CreatePairing
    <2>2. TypeOK'
      BY <2>1, DropCommandKeeps DEF IInv, TypeOK, CreatePairing
    <2>3. OneWayIn'
      BY <2>1, DropCommandKeeps DEF CreatePairing, OneWayIn
    <2> QED BY <2>1, <2>2, <2>3, DropCommandKeeps DEF IInv
  <1>2. CASE token = None
    <2>1. /\ slot = None
          /\ pc' = Roused(pc) /\ pollPc' = Roused(pollPc)
          /\ UNCHANGED <<terminal, slot, receipt, token>>
      BY <1>2 DEF CreatePairing, NotifyAll, IInv, SlotBelongsToSession
    <2>2. TypeOK'
      BY <2>1, RousedType DEF IInv, TypeOK, CreatePairing
    <2>3. CommandLife'
      <3>1. \A c \in Calls :
             /\ pc'[c] \in Waiting <=> pc[c] \in Waiting
             /\ pc[c] \notin Waiting => pc'[c] = pc[c]
        BY <2>1, NotifiedThreads DEF IInv
      <3>2. UNCHANGED <<state, terminal, answer, outcome, slot, claims, submittedTo, acked>>
        BY <2>1 DEF CreatePairing
      <3> QED BY <3>1, <3>2 DEF IInv, TypeOK, CommandLife, Waiting, Answered
    <2>4. ReceiptMatches' /\ SlotBelongsToSession' /\ OneWayIn'
      BY <2>1, <1>2 DEF IInv, CreatePairing, ReceiptMatches, SlotBelongsToSession, OneWayIn
    <2>5. SleepersHaveNothingToReturn' /\ SleepingPollsMissNothing'
      BY <2>1, RousedType DEF IInv, TypeOK, SleepersHaveNothingToReturn, SleepingPollsMissNothing
    <2> QED BY <2>2, <2>3, <2>4, <2>5 DEF IInv
  <1> QED BY <1>1, <1>2

LEMMA DisconnectKeeps ==
  ASSUME IInv, NEW t \in Secrets, Disconnect(t)
  PROVE  IInv'
  <1>1. DropCommand("disconnected") /\ UNCHANGED <<state, answer, outcome, submittedTo, claims, acked>>
    BY DEF Disconnect, history
  <1>2. TypeOK'
    BY <1>1, DropCommandKeeps DEF IInv, TypeOK, Disconnect, history
  <1>3. OneWayIn'
    BY <1>1, DropCommandKeeps DEF Disconnect, OneWayIn
  <1> QED BY <1>1, <1>2, <1>3, DropCommandKeeps DEF IInv

LEMMA CloseKeeps ==
  ASSUME IInv, Close
  PROVE  IInv'
  <1>1. DropCommand("closed") /\ UNCHANGED <<state, answer, outcome, submittedTo, claims, acked>>
    BY DEF Close, history
  <1>2. TypeOK'
    BY <1>1, DropCommandKeeps DEF IInv, TypeOK, Close, history
  <1>3. OneWayIn'
    BY <1>1, DropCommandKeeps DEF Close, OneWayIn
  <1> QED BY <1>1, <1>2, <1>3, DropCommandKeeps DEF IInv

\* The two steps that only let an offer go stale.
LEMMA PairExpiryKeeps ==
  ASSUME IInv, PairDeadlinePasses \/ ExpirePairing
  PROVE  IInv'
  <1>1. UNCHANGED <<closed, token, slot, receipt, callers, pollers, history>>
        /\ pairCode' \in {pairCode, None} /\ pairExpired' \in BOOLEAN
    BY DEF PairDeadlinePasses, ExpirePairing
  <1>2. TypeOK'
    BY <1>1 DEF IInv, TypeOK, callers, pollers, history
  <1>3. CommandLife' /\ ReceiptMatches' /\ OneWayIn'
    BY <1>1 DEF IInv, CommandLife, ReceiptMatches, OneWayIn, callers, history
  <1>4. SlotBelongsToSession' /\ SleepersHaveNothingToReturn'
    BY <1>1 DEF IInv, SlotBelongsToSession, SleepersHaveNothingToReturn, callers, history
  <1>5. SleepingPollsMissNothing'
    BY <1>1 DEF IInv, SleepingPollsMissNothing, HasSession, NothingQueued, callers, pollers
  <1> QED BY <1>2, <1>3, <1>4, <1>5 DEF IInv

LEMMA ConnectKeeps ==
  ASSUME IInv, NEW code \in Secrets, NEW s \in Secrets, Connect(code, s)
  PROVE  IInv'
  <1>1. pc' = Roused(pc) /\ pollPc' = Roused(pollPc)
    BY DEF Connect, NotifyAll
  <1>2. /\ slot = None /\ ~closed
        /\ UNCHANGED <<closed, slot, terminal, state, answer, outcome, claims, submittedTo, acked>>
    BY DEF Connect, IInv, SlotBelongsToSession
  <1>3. TypeOK'
    BY <1>1, NotifiedThreads DEF IInv, TypeOK, Connect
  <1>4. CommandLife'
    <2>1. \A c \in Calls :
           /\ pc'[c] \in Waiting <=> pc[c] \in Waiting
           /\ pc[c] \notin Waiting => pc'[c] = pc[c]
      BY <1>1, NotifiedThreads DEF IInv
    <2> QED BY <1>2, <2>1 DEF IInv, TypeOK, CommandLife, Waiting, Answered
  <1>5. ReceiptMatches' /\ SlotBelongsToSession' /\ OneWayIn'
    BY <1>2 DEF Connect, ReceiptMatches, SlotBelongsToSession, OneWayIn
  <1>6. SleepersHaveNothingToReturn' /\ SleepingPollsMissNothing'
    BY <1>1, NotifiedThreads DEF IInv, SleepersHaveNothingToReturn, SleepingPollsMissNothing
  <1> QED BY <1>3, <1>4, <1>5, <1>6 DEF IInv

\* Handing the queued command to the live session.
LEMMA ClaimKeeps ==
  ASSUME IInv, HasSession(token), Claim(token),
         UNCHANGED <<session, slot, receipt, pc, terminal, answer, due, cancelled,
                     outcome, minted, submittedTo, acked>>
  PROVE  /\ CommandLife' /\ ReceiptMatches' /\ SlotBelongsToSession'
         /\ SleepersHaveNothingToReturn' /\ NothingQueued'
         /\ state' \in [Calls -> {"absent", "queued", "claimed", "complete", "failed"}]
         /\ claims' \in [Calls -> Seq(Secrets)]
  <1>1. PICK c \in Calls : slot = c /\ state[c] = "queued"
    BY DEF Claim, IInv, TypeOK
  <1>2. /\ state' = [state EXCEPT ![c] = "claimed"]
        /\ claims' = [claims EXCEPT ![c] = <<token>>]
    <2>1. claims[c] = <<>>
      BY <1>1 DEF IInv, CommandLife
    <2>2. Append(claims[c], token) = <<token>>
      BY <2>1
    <2> QED BY <1>1, <2>2 DEF Claim
  <1>3. token = submittedTo[c] /\ token \in Secrets
    BY <1>1 DEF IInv, SlotBelongsToSession, HasSession, TypeOK
  <1>4. claims' \in [Calls -> Seq(Secrets)]
    <2>1. <<token>> \in Seq(Secrets)
      BY <1>3
    <2> QED BY <1>2, <2>1 DEF IInv, TypeOK
  <1>5. state' \in [Calls -> {"absent", "queued", "claimed", "complete", "failed"}]
    BY <1>2 DEF IInv, TypeOK
  <1>6. CommandLife'
    BY <1>1, <1>2, <1>3 DEF IInv, TypeOK, CommandLife, Answered
  <1>7. ReceiptMatches'
    <2>1. receipt # None => receipt.call # c
      BY <1>1 DEF IInv, ReceiptMatches, Answered
    <2>2. receipt # None => state'[receipt.call] = state[receipt.call]
      BY <1>2, <2>1 DEF IInv, TypeOK, Receipts
    <2> QED BY <2>2 DEF IInv, ReceiptMatches
  <1>8. SlotBelongsToSession'
    BY DEF IInv, SlotBelongsToSession, session
  <1>9. SleepersHaveNothingToReturn'
    BY <1>2 DEF IInv, TypeOK, SleepersHaveNothingToReturn
  <1>10. NothingQueued'
    BY <1>1, <1>2 DEF IInv, TypeOK, NothingQueued
  <1> QED BY <1>4, <1>5, <1>6, <1>7, <1>8, <1>9, <1>10

LEMMA PollKeeps ==
  ASSUME IInv, NEW q \in Polls, NEW t \in Secrets, Poll(q, t)
  PROVE  IInv'
  <1>1. HasSession(t) /\ t = token /\ UNCHANGED <<session, slot>>
    BY DEF Poll, HasSession
  <1>2. OneWayIn'
    BY <1>1 DEF IInv, OneWayIn, session
  <1>3. CASE Claim(t) /\ UNCHANGED pollers
    <2>1. /\ CommandLife' /\ ReceiptMatches' /\ SlotBelongsToSession'
          /\ SleepersHaveNothingToReturn' /\ NothingQueued'
          /\ state' \in [Calls -> {"absent", "queued", "claimed", "complete", "failed"}]
          /\ claims' \in [Calls -> Seq(Secrets)]
      BY <1>1, <1>3, ClaimKeeps DEF Poll
    <2>2. TypeOK'
      BY <1>3, <2>1 DEF IInv, TypeOK, Poll, session, pollers
    <2>3. SleepingPollsMissNothing'
      BY <1>1, <1>3, <2>1 DEF IInv, SleepingPollsMissNothing, HasSession, session, pollers
    <2> QED BY <1>2, <2>1, <2>2, <2>3 DEF IInv
  <1>4. CASE /\ NothingQueued
             /\ pollPc' = [pollPc EXCEPT ![q] = "asleep"]
             /\ pollToken' = [pollToken EXCEPT ![q] = t]
             /\ UNCHANGED <<state, claims>>
    <2>1. TypeOK'
      BY <1>4 DEF IInv, TypeOK, Poll, session, Waiting
    <2>2. CommandLife' /\ ReceiptMatches'
      BY <1>4 DEF IInv, CommandLife, ReceiptMatches, Poll
    <2>3. SlotBelongsToSession' /\ SleepersHaveNothingToReturn'
      BY <1>4 DEF IInv, SlotBelongsToSession, SleepersHaveNothingToReturn, Poll, session
    <2>4. SleepingPollsMissNothing'
      BY <1>1, <1>4 DEF IInv, TypeOK, SleepingPollsMissNothing, HasSession, NothingQueued, session
    <2> QED BY <1>2, <2>1, <2>2, <2>3, <2>4 DEF IInv
  <1> QED BY <1>3, <1>4 DEF Poll

LEMMA PollDeadlinePassesKeeps ==
  ASSUME IInv, NEW q \in Polls, PollDeadlinePasses(q)
  PROVE  IInv'
  <1> USE DEF PollDeadlinePasses, session, callers, history
  <1>1. TypeOK'
    BY DEF IInv, TypeOK
  <1>2. CommandLife' /\ ReceiptMatches' /\ OneWayIn'
    BY DEF IInv, CommandLife, ReceiptMatches, OneWayIn
  <1>3. SlotBelongsToSession' /\ SleepersHaveNothingToReturn'
    BY DEF IInv, SlotBelongsToSession, SleepersHaveNothingToReturn
  <1>4. SleepingPollsMissNothing'
    BY DEF IInv, TypeOK, SleepingPollsMissNothing, HasSession, NothingQueued
  <1> QED BY <1>1, <1>2, <1>3, <1>4 DEF IInv

LEMMA PollLookKeeps ==
  ASSUME IInv, NEW q \in Polls, PollLook(q)
  PROVE  IInv'
  <1>1. UNCHANGED <<session, slot, receipt, pc, terminal, answer, due, cancelled,
                    outcome, minted, submittedTo, acked>>
    BY DEF PollLook
  <1>2. OneWayIn'
    BY <1>1 DEF IInv, OneWayIn, session
  <1>3. CASE HasSession(pollToken[q]) /\ Claim(pollToken[q]) /\ PollDone(q)
    <2>1. HasSession(token) /\ Claim(token)
      BY <1>3 DEF HasSession
    <2>2. /\ CommandLife' /\ ReceiptMatches' /\ SlotBelongsToSession'
          /\ SleepersHaveNothingToReturn' /\ NothingQueued'
          /\ state' \in [Calls -> {"absent", "queued", "claimed", "complete", "failed"}]
          /\ claims' \in [Calls -> Seq(Secrets)]
      BY <1>1, <2>1, ClaimKeeps
    <2>3. TypeOK'
      BY <1>1, <1>3, <2>2 DEF IInv, TypeOK, PollDone, session
    <2>4. SleepingPollsMissNothing'
      BY <1>1, <1>3, <2>2 DEF IInv, TypeOK, SleepingPollsMissNothing, HasSession, PollDone, session
    <2> QED BY <1>2, <2>2, <2>3, <2>4 DEF IInv
  <1>4. CASE /\ UNCHANGED <<state, claims>>
             /\ \/ PollDone(q)
                \/ /\ HasSession(pollToken[q]) /\ NothingQueued
                   /\ pollPc' = [pollPc EXCEPT ![q] = "asleep"]
                   /\ UNCHANGED pollToken
    <2>1. TypeOK'
      BY ZenonT(30), <1>1, <1>4 DEF IInv, TypeOK, PollDone, session, Waiting
    <2>2. CommandLife' /\ ReceiptMatches'
      BY <1>1, <1>4 DEF IInv, CommandLife, ReceiptMatches
    <2>3. SlotBelongsToSession' /\ SleepersHaveNothingToReturn'
      BY <1>1, <1>4 DEF IInv, SlotBelongsToSession, SleepersHaveNothingToReturn, session
    <2>4. SleepingPollsMissNothing'
      BY <1>1, <1>4
         DEF IInv, TypeOK, SleepingPollsMissNothing, HasSession, NothingQueued, PollDone, session
    <2> QED BY <1>2, <2>1, <2>2, <2>3, <2>4 DEF IInv
  <1> QED BY <1>3, <1>4 DEF PollLook

LEMMA CompleteAcceptKeeps ==
  ASSUME IInv, NEW t \in Secrets, NEW c \in Calls, NEW b \in Bodies, CompleteAccept(t, c, b)
  PROVE  IInv'
  <1>1. pc' = Roused(pc) /\ pollPc' = Roused(pollPc)
    BY DEF CompleteAccept, NotifyAll
  <1>2. slot = c /\ state[c] = "claimed" /\ terminal[c] = None /\ pc[c] \in Waiting
    BY DEF CompleteAccept, Current, IInv, SlotBelongsToSession
  <1>3. PICK k \in Answered : state' = [state EXCEPT ![c] = k]
    BY DEF CompleteAccept, Answered
  <1>4. receipt' = [call |-> c, body |-> b] /\ receipt' \in Receipts
    BY DEF CompleteAccept, Receipts
  <1>5. TypeOK'
    <2>1. acked' \in [Calls -> SUBSET Bodies]
      BY DEF CompleteAccept, IInv, TypeOK
    <2> QED BY <1>1, <1>3, <1>4, <2>1, NotifiedThreads
            DEF CompleteAccept, IInv, TypeOK, session, Answered
  <1>6. CommandLife'
    <2>1. \A d \in Calls :
           /\ pc'[d] \in Waiting <=> pc[d] \in Waiting
           /\ pc[d] \notin Waiting => pc'[d] = pc[d]
      BY <1>1, NotifiedThreads DEF IInv
    <2>2. acked[c] = {}
      BY <1>2 DEF IInv, CommandLife, Answered
    <2>3. /\ answer'[c] = b /\ acked'[c] = {b} /\ state'[c] \in Answered
          /\ UNCHANGED <<slot, terminal, outcome, claims, submittedTo>>
      BY <1>3, <2>2 DEF CompleteAccept, IInv, TypeOK
    <2>4. \A d \in Calls \ {c} :
            answer'[d] = answer[d] /\ acked'[d] = acked[d] /\ state'[d] = state[d]
      BY <1>3 DEF CompleteAccept, IInv, TypeOK
    <2> SUFFICES ASSUME NEW d \in Calls
                 PROVE  CommandLife!(d)'
      BY DEF CommandLife
    <2>5. CASE d = c
      BY <1>2, <2>1, <2>3, <2>5 DEF IInv, TypeOK, CommandLife, Waiting, Answered
    <2>6. CASE d # c
      BY <2>1, <2>3, <2>4, <2>6 DEF IInv, TypeOK, CommandLife, Waiting, Answered
    <2> QED BY <2>5, <2>6
  <1>7. ReceiptMatches'
    BY <1>3, <1>4 DEF CompleteAccept, IInv, TypeOK, ReceiptMatches
  <1>8. SlotBelongsToSession' /\ OneWayIn'
    <2>1. pc'[c] \in Waiting
      BY <1>1, <1>2, NotifiedThreads DEF IInv
    <2> QED BY <1>2, <2>1 DEF CompleteAccept, IInv, SlotBelongsToSession, OneWayIn, session
  <1>9. SleepersHaveNothingToReturn' /\ SleepingPollsMissNothing'
    BY <1>1, NotifiedThreads DEF IInv, SleepersHaveNothingToReturn, SleepingPollsMissNothing
  <1> QED BY <1>5, <1>6, <1>7, <1>8, <1>9 DEF IInv

LEMMA CompleteLateKeeps ==
  ASSUME IInv, NEW t \in Secrets, NEW c \in Calls, CompleteLate(t, c)
  PROVE  IInv'
  <1>1. pc' = Roused(pc) /\ pollPc' = Roused(pollPc)
    BY DEF CompleteLate, NotifyAll
  <1>2. slot = c /\ state[c] = "claimed"
    BY DEF CompleteLate, Current
  <1>3. PICK why \in Reasons : terminal' = [terminal EXCEPT ![c] = why]
    BY RaisedTypes DEF CompleteLate
  <1>4. TypeOK'
    BY <1>1, <1>3, NotifiedThreads DEF CompleteLate, IInv, TypeOK, session, history
  <1>5. CommandLife'
    <2>1. \A d \in Calls :
           /\ pc'[d] \in Waiting <=> pc[d] \in Waiting
           /\ pc[d] \notin Waiting => pc'[d] = pc[d]
      BY <1>1, NotifiedThreads DEF IInv
    <2>2. /\ slot' = None /\ UNCHANGED <<state, answer, outcome, claims, submittedTo, acked>>
          /\ terminal'[c] # None
          /\ \A d \in Calls \ {c} : terminal'[d] = terminal[d]
      BY <1>3 DEF CompleteLate, IInv, TypeOK, history
    <2> QED BY <1>2, <2>1, <2>2 DEF IInv, TypeOK, CommandLife, Waiting, Answered
  <1>6. ReceiptMatches' /\ SlotBelongsToSession' /\ OneWayIn'
    BY DEF CompleteLate, IInv, ReceiptMatches, SlotBelongsToSession, OneWayIn, session
  <1>7. SleepersHaveNothingToReturn' /\ SleepingPollsMissNothing'
    BY <1>1, NotifiedThreads DEF IInv, SleepersHaveNothingToReturn, SleepingPollsMissNothing
  <1> QED BY <1>4, <1>5, <1>6, <1>7 DEF IInv

LEMMA CompleteReplayKeeps ==
  ASSUME IInv, NEW t \in Secrets, NEW c \in Calls, NEW b \in Bodies, CompleteReplay(t, c, b)
  PROVE  IInv'
  <1>1. receipt.body = b
    <2>1. receipt.body \in Bodies /\ receipt.body.kind = b.kind /\ receipt.body.value = b.value
      BY DEF CompleteReplay, IInv, TypeOK, Receipts
    <2> QED BY <2>1 DEF Bodies
  <1>2. acked[c] = {b}
    BY <1>1 DEF CompleteReplay, IInv, ReceiptMatches, CommandLife
  <1>3. acked' = acked
    BY <1>2 DEF CompleteReplay, IInv, TypeOK
  <1> USE <1>3 DEF CompleteReplay, session, callers, pollers
  <1>4. TypeOK'
    BY DEF IInv, TypeOK
  <1>5. CommandLife' /\ ReceiptMatches' /\ OneWayIn'
    BY DEF IInv, CommandLife, ReceiptMatches, OneWayIn
  <1>6. SlotBelongsToSession' /\ SleepersHaveNothingToReturn'
    BY DEF IInv, SlotBelongsToSession, SleepersHaveNothingToReturn
  <1>7. SleepingPollsMissNothing'
    BY DEF IInv, SleepingPollsMissNothing, HasSession, NothingQueued
  <1> QED BY <1>4, <1>5, <1>6, <1>7 DEF IInv

LEMMA ExecuteRefusalKeeps ==
  ASSUME IInv, NEW c \in Calls, ExecutePrecheck(c) \/ ExecuteRefuse(c)
  PROVE  IInv'
  <1>1. /\ UNCHANGED <<session, slot, receipt, state, terminal, answer, due,
                       cancelled, pollers, history>>
        /\ pc[c] \in {"new", "checked"}
    BY DEF ExecutePrecheck, ExecuteRefuse
  <1>2. \E to \in {"checked", "returned"} : pc' = [pc EXCEPT ![c] = to]
    BY DEF ExecutePrecheck, ExecuteRefuse, Return
  <1>3. \/ outcome' = outcome
        \/ \E why \in Refusals : outcome' = [outcome EXCEPT ![c] = why] /\ pc'[c] = "returned"
    BY RaisedTypes DEF ExecutePrecheck, ExecuteRefuse, Return, IInv, TypeOK
  <1>4. TypeOK'
    <2>1. pc' \in [Calls -> {"new", "checked", "returned"} \cup Waiting]
      BY <1>2 DEF IInv, TypeOK
    <2> DEFINE Outcomes == Bodies \cup Reasons \cup Refusals \cup {None}
    <2>2. outcome' \in [Calls -> Outcomes]
      <3>1. outcome \in [Calls -> Outcomes] /\ Refusals \subseteq Outcomes
        BY DEF IInv, TypeOK
      <3> HIDE DEF Outcomes
      <3> QED BY <1>3, <3>1
    <2> QED BY <1>1, <2>1, <2>2 DEF IInv, TypeOK, session, pollers, history
  <1>5. CommandLife'
    <2>1. state[c] = "absent" /\ pc'[c] \in {"checked", "returned"}
      BY <1>1, <1>2 DEF IInv, TypeOK, CommandLife
    <2>2. \A d \in Calls \ {c} : pc'[d] = pc[d] /\ outcome'[d] = outcome[d]
      BY <1>2, <1>3 DEF IInv, TypeOK
    <2>3. outcome'[c] \notin Bodies
      BY <1>1, <1>3, AnswersAreNotRaised DEF IInv, TypeOK, CommandLife
    <2> QED BY <1>1, <2>1, <2>2, <2>3 DEF IInv, CommandLife, Waiting, Answered, history
  <1>6. ReceiptMatches' /\ OneWayIn' /\ SleepingPollsMissNothing'
    BY <1>1 DEF IInv, ReceiptMatches, OneWayIn, SleepingPollsMissNothing, HasSession,
                NothingQueued, session, pollers
  <1>7. SlotBelongsToSession' /\ SleepersHaveNothingToReturn'
    <2>1. slot # c
      BY <1>1 DEF IInv, SlotBelongsToSession, Waiting
    <2>2. pc'[c] # "asleep" /\ \A d \in Calls \ {c} : pc'[d] = pc[d]
      BY <1>2 DEF IInv, TypeOK
    <2>3. SlotBelongsToSession'
      BY <1>1, <2>1, <2>2 DEF IInv, TypeOK, SlotBelongsToSession, session, history
    <2>4. SleepersHaveNothingToReturn'
      BY <1>1, <2>2 DEF IInv, SleepersHaveNothingToReturn
    <2> QED BY <2>3, <2>4
  <1> QED BY <1>4, <1>5, <1>6, <1>7 DEF IInv

LEMMA ExecuteSubmitKeeps ==
  ASSUME IInv, NEW c \in Calls, ExecuteSubmit(c)
  PROVE  IInv'
  <1>1. /\ pc[c] = "checked" /\ ~closed /\ token \in Secrets /\ slot = None
        /\ pollPc' = Roused(pollPc)
        /\ UNCHANGED <<session, receipt, terminal, answer, due, cancelled, pollToken,
                       minted, claims, acked>>
    BY DEF ExecuteSubmit, IInv, TypeOK
  <1>2. /\ \A d \in Calls \ {c} :
             /\ pc'[d] # "asleep"
             /\ pc'[d] \in Waiting <=> pc[d] \in Waiting
             /\ pc[d] \notin Waiting => pc'[d] = pc[d]
        /\ pc' \in [Calls -> {"new", "checked", "returned"} \cup Waiting]
    <2>1. PICK to \in {"asleep", "returned"} : pc' = [Roused(pc) EXCEPT ![c] = to]
      BY DEF ExecuteSubmit
    <2> QED BY <2>1, NotifiedByCaller DEF IInv
  <1>3. state[c] = "absent" /\ terminal[c] = None
    BY <1>1 DEF IInv, CommandLife
  <1>4. pollPc' \in [Polls -> {"new", "expired"} \cup Waiting]
        /\ \A q \in Polls : pollPc'[q] # "asleep"
    BY <1>1, RousedType DEF IInv, TypeOK
  <1>5. SleepingPollsMissNothing'
    BY <1>4 DEF SleepingPollsMissNothing
  <1>6. OneWayIn'
    BY <1>1 DEF IInv, OneWayIn, session
  <1>7. CASE /\ slot' = c /\ pc'[c] = "asleep" /\ outcome' = outcome
             /\ state' = [state EXCEPT ![c] = "queued"]
             /\ submittedTo' = [submittedTo EXCEPT ![c] = token]
    <2>1. TypeOK'
      BY <1>1, <1>2, <1>4, <1>7 DEF IInv, TypeOK, session
    <2>2. CommandLife'
      <3>1. /\ state'[c] = "queued" /\ claims[c] = <<>> /\ answer[c] = None /\ acked[c] = {}
            /\ outcome[c] \notin Bodies
        BY <1>1, <1>3, <1>7 DEF IInv, TypeOK, CommandLife, Answered
      <3>2. \A d \in Calls \ {c} : state'[d] = state[d] /\ submittedTo'[d] = submittedTo[d]
        BY <1>7 DEF IInv, TypeOK
      <3> SUFFICES ASSUME NEW d \in Calls
                   PROVE  CommandLife!(d)'
        BY DEF CommandLife
      <3>3. CASE d = c
        BY <1>1, <1>3, <1>7, <3>1, <3>3 DEF Waiting, Answered
      <3>4. CASE d # c
        BY <1>1, <1>2, <1>7, <3>2, <3>4 DEF IInv, TypeOK, CommandLife, Waiting, Answered
      <3> QED BY <3>3, <3>4
    <2>3. ReceiptMatches'
      <3>1. receipt # None => receipt.call # c
        BY <1>3 DEF IInv, ReceiptMatches, Answered
      <3> QED BY <1>1, <1>7, <3>1 DEF IInv, TypeOK, ReceiptMatches, Receipts
    <2>4. SlotBelongsToSession' /\ SleepersHaveNothingToReturn'
      BY <1>1, <1>2, <1>3, <1>7
         DEF IInv, TypeOK, SlotBelongsToSession, SleepersHaveNothingToReturn, Waiting, session
    <2> QED BY <1>5, <1>6, <2>1, <2>2, <2>3, <2>4 DEF IInv
  <1>8. CASE /\ pc'[c] = "returned" /\ UNCHANGED <<slot, state, submittedTo>>
             /\ outcome' = [outcome EXCEPT ![c] = Raised("cancelled")]
    <2>1. TypeOK'
      BY <1>1, <1>2, <1>4, <1>8, RaisedTypes DEF IInv, TypeOK, session
    <2>2. CommandLife'
      <3>1. outcome'[c] \notin Bodies
        BY <1>8, RaisedTypes, AnswersAreNotRaised DEF IInv, TypeOK
      <3>2. \A d \in Calls \ {c} : outcome'[d] = outcome[d]
        BY <1>8 DEF IInv, TypeOK
      <3> QED BY <1>1, <1>2, <1>3, <1>8, <3>1, <3>2 DEF IInv, CommandLife, Waiting, Answered
    <2>3. ReceiptMatches' /\ SlotBelongsToSession'
      BY <1>1, <1>8 DEF IInv, ReceiptMatches, SlotBelongsToSession
    <2>4. SleepersHaveNothingToReturn'
      BY <1>2, <1>8 DEF SleepersHaveNothingToReturn
    <2> QED BY <1>5, <1>6, <2>1, <2>2, <2>3, <2>4 DEF IInv
  <1> QED
    <2>1. \A to \in {"asleep", "returned"} :
            pc' = [Roused(pc) EXCEPT ![c] = to] => pc'[c] = to
      BY NotifiedByCaller DEF IInv
    <2> QED BY <1>7, <1>8, <2>1 DEF ExecuteSubmit

\* A thread of execute() that changes nothing but its own sleep.
LEMMA ExecuteDozeKeeps ==
  ASSUME IInv, NEW c \in Calls, ExecuteWake(c) \/ ExecuteSleep(c)
  PROVE  IInv'
  <1>1. /\ Verdict(c) = None \/ pc'[c] # "asleep"
        /\ UNCHANGED <<session, slot, receipt, state, terminal, answer, due,
                       cancelled, outcome, pollers, history>>
    BY DEF ExecuteWake, ExecuteSleep, IInv, TypeOK, Waiting
  <1>2. PICK to \in Waiting : pc' = [pc EXCEPT ![c] = to]
    BY DEF ExecuteWake, ExecuteSleep, Waiting
  <1>3. pc[c] \in Waiting
    BY DEF ExecuteWake, ExecuteSleep, Waiting
  <1>4. TypeOK'
    BY <1>1, <1>2 DEF IInv, TypeOK, session, pollers, history
  <1>5. CommandLife' /\ ReceiptMatches' /\ OneWayIn'
    BY <1>1, <1>2, <1>3
       DEF IInv, TypeOK, CommandLife, ReceiptMatches, OneWayIn, Waiting, session, history
  <1>6. SlotBelongsToSession' /\ SleepingPollsMissNothing'
    BY <1>1, <1>2 DEF IInv, TypeOK, SlotBelongsToSession, SleepingPollsMissNothing,
                      HasSession, NothingQueued, session, pollers, history
  <1>7. SleepersHaveNothingToReturn'
    <2>1. ASSUME Verdict(c) = None
          PROVE  terminal[c] = None /\ state[c] \notin Answered
      BY <2>1 DEF Verdict, IInv, CommandLife, Answered
    <2>2. ASSUME Verdict(c) = None
          PROVE  slot = c /\ terminal[c] = None /\ state[c] \in {"queued", "claimed"}
      BY <1>3, <2>1, <2>2 DEF IInv, CommandLife, TypeOK, Answered
    <2> QED BY <1>1, <1>2, <2>2 DEF IInv, TypeOK, SleepersHaveNothingToReturn
  <1> QED BY <1>4, <1>5, <1>6, <1>7 DEF IInv

LEMMA ExecuteReturnKeeps ==
  ASSUME IInv, NEW c \in Calls, ExecuteReturn(c)
  PROVE  IInv'
  <1>1. /\ pc[c] = "awake" /\ Verdict(c) # None
        /\ outcome' = [outcome EXCEPT ![c] = Verdict(c)]
        /\ UNCHANGED <<session, receipt, state, terminal, answer, due, cancelled,
                       pollToken, history>>
    BY DEF ExecuteReturn
  <1>2. /\ Verdict(c) \in Bodies \cup Reasons
        /\ state[c] \in Answered => Verdict(c) = answer[c]
        /\ Verdict(c) \in Bodies => state[c] \in Answered
    BY <1>1, RaisedTypes, AnswersAreNotRaised
       DEF Verdict, IInv, TypeOK, CommandLife, Answered
  <1>3. /\ pc' \in [Calls -> {"new", "checked", "returned"} \cup Waiting]
        /\ pollPc' \in [Polls -> {"new", "expired"} \cup Waiting]
        /\ pc'[c] = "returned"
        /\ \A d \in Calls \ {c} :
             /\ pc'[d] = "asleep" => pc[d] = "asleep" /\ slot # c
             /\ pc'[d] \in Waiting <=> pc[d] \in Waiting
             /\ pc[d] \notin Waiting => pc'[d] = pc[d]
        /\ slot' = IF slot = c THEN None ELSE slot
    <2>1. CASE slot = c
      <3>1. /\ slot' = None /\ pollPc' = Roused(pollPc)
            /\ pc' = [Roused(pc) EXCEPT ![c] = "returned"]
        BY <2>1 DEF ExecuteReturn
      <3> QED BY <2>1, <3>1, RousedType, NotifiedByCaller DEF IInv, TypeOK
    <2>2. CASE slot # c
      <3>1. /\ UNCHANGED <<slot, pollPc>>
            /\ pc' = [pc EXCEPT ![c] = "returned"]
        BY <2>2 DEF ExecuteReturn
      <3> QED BY <2>2, <3>1 DEF IInv, TypeOK, Waiting
    <2> QED BY <2>1, <2>2
  <1>4. TypeOK'
    BY <1>1, <1>2, <1>3 DEF IInv, TypeOK, session, history
  <1>5. CommandLife'
    <2>1. \A d \in Calls \ {c} : outcome'[d] = outcome[d]
      BY <1>1 DEF IInv, TypeOK
    <2>2. outcome'[c] = Verdict(c)
      BY <1>1 DEF IInv, TypeOK
    <2> SUFFICES ASSUME NEW d \in Calls
                 PROVE  CommandLife!(d)'
      BY DEF CommandLife
    <2>3. CASE d = c
      BY <1>1, <1>2, <1>3, <2>2, <2>3 DEF IInv, CommandLife, Waiting, Answered, history
    <2>4. CASE d # c
      BY <1>1, <1>3, <2>1, <2>4 DEF IInv, TypeOK, CommandLife, Waiting, Answered, history
    <2> QED BY <2>3, <2>4
  <1>6. ReceiptMatches' /\ OneWayIn'
    BY <1>1 DEF IInv, ReceiptMatches, OneWayIn, session
  <1>7. SlotBelongsToSession'
    BY <1>1, <1>3 DEF IInv, TypeOK, SlotBelongsToSession, session, history
  <1>8. SleepersHaveNothingToReturn'
    BY <1>1, <1>3 DEF IInv, SleepersHaveNothingToReturn
  <1>9. SleepingPollsMissNothing'
    <2>1. CASE slot = c
      <3>1. pollPc' = Roused(pollPc)
        BY <2>1 DEF ExecuteReturn
      <3> QED BY <3>1, RousedType DEF IInv, TypeOK, SleepingPollsMissNothing
    <2>2. CASE slot # c
      <3>1. UNCHANGED <<slot, pollPc>>
        BY <2>2 DEF ExecuteReturn
      <3> QED BY <1>1, <3>1
              DEF IInv, SleepingPollsMissNothing, HasSession, NothingQueued, session
    <2> QED BY <2>1, <2>2
  <1> QED BY <1>4, <1>5, <1>6, <1>7, <1>8, <1>9 DEF IInv

\* Neither the clock nor the user touches the exchange.
LEMMA OutsideWorldKeeps ==
  ASSUME IInv, NEW c \in Calls, CommandDeadlinePasses(c) \/ Cancel(c)
  PROVE  IInv'
  <1>1. /\ UNCHANGED <<session, slot, receipt, pc, state, terminal, answer,
                       outcome, pollers, history>>
        /\ due' \in [Calls -> BOOLEAN] /\ cancelled' \in [Calls -> BOOLEAN]
    BY DEF CommandDeadlinePasses, Cancel, IInv, TypeOK
  <1>2. TypeOK'
    BY <1>1 DEF IInv, TypeOK, session, pollers, history
  <1>3. CommandLife' /\ ReceiptMatches' /\ OneWayIn'
    BY <1>1 DEF IInv, CommandLife, ReceiptMatches, OneWayIn, session, history
  <1>4. SlotBelongsToSession' /\ SleepersHaveNothingToReturn'
    BY <1>1 DEF IInv, SlotBelongsToSession, SleepersHaveNothingToReturn, session, history
  <1>5. SleepingPollsMissNothing'
    BY <1>1 DEF IInv, SleepingPollsMissNothing, HasSession, NothingQueued, session, pollers
  <1> QED BY <1>2, <1>3, <1>4, <1>5 DEF IInv

LEMMA StutterKeeps ==
  ASSUME IInv, UNCHANGED vars
  PROVE  IInv'
  <1> USE DEF vars, session, callers, pollers, history
  <1>1. TypeOK' /\ CommandLife' /\ ReceiptMatches' /\ OneWayIn'
    BY DEF IInv, TypeOK, CommandLife, ReceiptMatches, OneWayIn
  <1>2. SlotBelongsToSession' /\ SleepersHaveNothingToReturn'
    BY DEF IInv, SlotBelongsToSession, SleepersHaveNothingToReturn
  <1>3. SleepingPollsMissNothing'
    BY DEF IInv, SleepingPollsMissNothing, HasSession, NothingQueued
  <1> QED BY <1>1, <1>2, <1>3 DEF IInv

\* Every step of the bridge preserves the invariant.
LEMMA BridgeStepKeeps ==
  ASSUME IInv, [Next]_vars
  PROVE  IInv'
  <1>1. CASE \E s \in Secrets : CreatePairing(s)
    BY <1>1, CreatePairingKeeps
  <1>2. CASE PairDeadlinePasses \/ ExpirePairing
    BY <1>2, PairExpiryKeeps
  <1>3. CASE \E code, s \in Secrets : Connect(code, s)
    BY <1>3, ConnectKeeps
  <1>4. CASE \E t \in Secrets : Disconnect(t)
    BY <1>4, DisconnectKeeps
  <1>5. CASE Close
    BY <1>5, CloseKeeps
  <1>6. CASE \E q \in Polls, t \in Secrets : Poll(q, t)
    BY <1>6, PollKeeps
  <1>7. CASE \E q \in Polls : PollDeadlinePasses(q)
    BY <1>7, PollDeadlinePassesKeeps
  <1>8. CASE \E q \in Polls : PollLook(q)
    BY <1>8, PollLookKeeps
  <1>9. CASE \E t \in Secrets, c \in Calls, b \in Bodies : CompleteAccept(t, c, b)
    BY <1>9, CompleteAcceptKeeps
  <1>10. CASE \E t \in Secrets, c \in Calls : CompleteLate(t, c)
    BY <1>10, CompleteLateKeeps
  <1>11. CASE \E t \in Secrets, c \in Calls, b \in Bodies : CompleteReplay(t, c, b)
    BY <1>11, CompleteReplayKeeps
  <1>12. CASE \E c \in Calls : ExecutePrecheck(c) \/ ExecuteRefuse(c)
    BY <1>12, ExecuteRefusalKeeps
  <1>13. CASE \E c \in Calls : ExecuteSubmit(c)
    BY <1>13, ExecuteSubmitKeeps
  <1>14. CASE \E c \in Calls : ExecuteWake(c) \/ ExecuteSleep(c)
    BY <1>14, ExecuteDozeKeeps
  <1>15. CASE \E c \in Calls : ExecuteReturn(c)
    BY <1>15, ExecuteReturnKeeps
  <1>16. CASE \E c \in Calls : CommandDeadlinePasses(c) \/ Cancel(c)
    BY <1>16, OutsideWorldKeeps
  <1>17. CASE UNCHANGED vars
    BY <1>17, StutterKeeps
  <1> QED BY <1>1, <1>2, <1>3, <1>4, <1>5, <1>6, <1>7, <1>8, <1>9, <1>10, <1>11,
            <1>12, <1>13, <1>14, <1>15, <1>16, <1>17 DEF Next

\* Every reachable state of the bridge satisfies the inductive invariant,
\* and with it the type invariant and the four safety invariants that are
\* among its conjuncts: a command in the slot belongs to the live session,
\* no caller and no poller misses a wake-up, no two ways in are open.
THEOREM BridgeInvariant == Spec => []IInv
  <1>1. Init => IInv
    BY InitIInv
  <1>2. IInv /\ [Next]_vars => IInv'
    BY BridgeStepKeeps
  <1> QED BY <1>1, <1>2, PTL DEF Spec

\* The acknowledged answer is what execute() returns, for any number of
\* callers, sessions, replays and deadlines, and nothing else is.
THEOREM AcknowledgedAnswersAreReturned == Spec => []AcknowledgedIsReturned
  <1>1. ASSUME IInv, NEW c \in Calls, NEW b \in acked[c]
        PROVE  /\ acked[c] = {b}
               /\ IF pc[c] = "returned" THEN outcome[c] = b ELSE Verdict(c) = b
    <2>1. state[c] \in Answered
      BY <1>1 DEF IInv, CommandLife
    <2>2. acked[c] = {answer[c]} /\ terminal[c] = None
      BY <1>1, <2>1 DEF IInv, CommandLife
    <2>3. acked[c] = {b} /\ answer[c] = b
      BY <2>2
    <2> QED BY <1>1, <2>1, <2>2, <2>3 DEF IInv, CommandLife, Verdict, Answered
  <1>2. ASSUME IInv, NEW c \in Calls, outcome[c] \in Bodies
        PROVE  outcome[c] \in acked[c]
    BY <1>2 DEF IInv, CommandLife
  <1>3. IInv => AcknowledgedIsReturned
    BY <1>1, <1>2 DEF AcknowledgedIsReturned
  <1> QED BY <1>3, BridgeInvariant, PTL

\* A command is handed out at most once, to the session it was submitted to.
THEOREM CommandsAreHandedOnce == Spec => []HandedOnceToItsSession
  <1>1. IInv => HandedOnceToItsSession
    BY DEF IInv, CommandLife, HandedOnceToItsSession
  <1> QED BY <1>1, BridgeInvariant, PTL

\* The slot never holds a command of a session that is gone.
THEOREM SlotsBelongToSessions == Spec => []SlotBelongsToSession
  <1>1. IInv => SlotBelongsToSession
    BY DEF IInv
  <1> QED BY <1>1, BridgeInvariant, PTL

\* No caller sleeps on while what it waits for has come, and no poll while
\* a command of its session is queued.
THEOREM NobodySleepsOn == Spec => []NoWakeupIsLost
  <1>1. IInv => NoWakeupIsLost
    BY DEF IInv, NoWakeupIsLost
  <1> QED BY <1>1, BridgeInvariant, PTL

\* A pairing code and a session are never usable at the same time.
THEOREM ThereIsOneWayIn == Spec => []OneWayIn
  <1>1. IInv => OneWayIn
    BY DEF IInv
  <1> QED BY <1>1, BridgeInvariant, PTL

-----------------------------------------------------------------------------
(* The bridge implements the abstract exchange.                            *)

\* The exchange sees nothing of call d in this step.
Unseen(d) == PhaseOf(d)' = PhaseOf(d) /\ VerdictOf(d)' = VerdictOf(d)

\* A step no call is seen in is a stutter of the exchange.
LEMMA UnseenStep ==
  ASSUME \A d \in Calls : Unseen(d)
  PROVE  UNCHANGED Exchange!vars
  BY DEF Unseen, Exchange!vars

\* A step only call c is seen in changes only what the exchange has of c.
LEMMA SeenStep ==
  ASSUME NEW c \in Calls, NEW phase, NEW verdict,
         PhaseOf(c)' = phase, VerdictOf(c)' = verdict,
         \A d \in Calls \ {c} : Unseen(d)
  PROVE  /\ [d \in Calls |-> PhaseOf(d)]' = [[d \in Calls |-> PhaseOf(d)] EXCEPT ![c] = phase]
         /\ [d \in Calls |-> VerdictOf(d)]' = [[d \in Calls |-> VerdictOf(d)] EXCEPT ![c] = verdict]
  BY DEF Unseen

\* What a thread does between its waits is its own affair.
LEMMA UnseenIf ==
  ASSUME NEW d \in Calls,
         terminal'[d] = terminal[d], answer'[d] = answer[d],
         outcome'[d] = outcome[d], state'[d] = state[d],
         pc'[d] \in {"new", "checked"} <=> pc[d] \in {"new", "checked"},
         pc'[d] = "returned" <=> pc[d] = "returned"
  PROVE  Unseen(d)
  BY DEF Unseen, PhaseOf, VerdictOf

\* The calls that are open hold the slot: there is at most one.
LEMMA OpenHoldsTheSlot ==
  ASSUME IInv
  PROVE  /\ \A d \in Exchange!Open : d = slot
         /\ slot # None /\ state[slot] = "queued" => PhaseOf(slot) = "pending"
         /\ slot # None /\ state[slot] = "claimed" => PhaseOf(slot) = "given"
  BY DEF IInv, TypeOK, CommandLife, SlotBelongsToSession, Answered, Exchange!Open,
         PhaseOf, Waiting

\* Being ended by somebody else than its caller settles the call in the slot.
LEMMA DropIsAbort ==
  ASSUME IInv, NEW why \in Reasons,
         pc' = Roused(pc), pollPc' = Roused(pollPc), UNCHANGED <<state, answer, outcome>>,
         terminal' = IF slot # None /\ state[slot] \in {"queued", "claimed"}
                     THEN [terminal EXCEPT ![slot] = why]
                     ELSE terminal
  PROVE  [Exchange!Next]_(Exchange!vars)
  <1>1. \A d \in Calls :
          /\ pc'[d] \in Waiting <=> pc[d] \in Waiting
          /\ pc[d] \notin Waiting => pc'[d] = pc[d]
    BY NotifiedThreads DEF IInv
  <1>2. ASSUME NEW d \in Calls, terminal'[d] = terminal[d] PROVE Unseen(d)
    BY <1>1, <1>2, UnseenIf DEF Waiting, IInv, TypeOK
  <1>3. CASE slot # None /\ state[slot] \in {"queued", "claimed"}
    <2>1. PICK c \in Calls : slot = c
      BY <1>3 DEF IInv, TypeOK
    <2>2. pc[c] \in Waiting /\ c \in Exchange!Open
      BY <1>3, <2>1, OpenHoldsTheSlot DEF IInv, SlotBelongsToSession, Exchange!Open
    <2>3. terminal'[c] = why /\ \A d \in Calls \ {c} : terminal'[d] = terminal[d]
      BY <1>3, <2>1 DEF IInv, TypeOK
    <2>4. PhaseOf(c)' = "settled" /\ VerdictOf(c)' = why
      BY <1>1, <2>2, <2>3 DEF PhaseOf, VerdictOf, Waiting
    <2>5. Exchange!Abort(c, why)
      BY <1>2, <2>2, <2>3, <2>4, SeenStep DEF Exchange!Abort
    <2> QED BY <2>5 DEF Exchange!Next
  <1>4. CASE ~(slot # None /\ state[slot] \in {"queued", "claimed"})
    BY <1>2, <1>4, UnseenStep
  <1> QED BY <1>3, <1>4

\* A command handed out is given.
LEMMA ClaimIsHand ==
  ASSUME IInv, NEW t, Claim(t), UNCHANGED <<pc, terminal, answer, outcome>>
  PROVE  [Exchange!Next]_(Exchange!vars)
  <1>1. PICK c \in Calls : slot = c /\ state[c] = "queued"
    BY DEF Claim, IInv, TypeOK
  <1>2. PhaseOf(c) = "pending" /\ pc[c] \in Waiting /\ terminal[c] = None /\ answer[c] = None
    BY <1>1, OpenHoldsTheSlot DEF IInv, SlotBelongsToSession, CommandLife, Answered
  <1>3. state'[c] = "claimed" /\ \A d \in Calls \ {c} : state'[d] = state[d]
    BY <1>1 DEF Claim, IInv, TypeOK
  <1>4. PhaseOf(c)' = "given" /\ VerdictOf(c)' = VerdictOf(c)
    BY <1>2, <1>3 DEF PhaseOf, VerdictOf, Waiting
  <1>5. \A d \in Calls \ {c} : Unseen(d)
    BY <1>3, UnseenIf
  <1>6. /\ [d \in Calls |-> PhaseOf(d)]' = [[d \in Calls |-> PhaseOf(d)] EXCEPT ![c] = "given"]
        /\ [d \in Calls |-> VerdictOf(d)]' = [d \in Calls |-> VerdictOf(d)]
    BY <1>4, <1>5, SeenStep DEF Unseen
  <1>7. Exchange!Hand(c)
    BY <1>2, <1>6 DEF Exchange!Hand
  <1> QED BY <1>7 DEF Exchange!Next

\* The acknowledged answer settles the call.
LEMMA AcceptIsAnswer ==
  ASSUME IInv, NEW t \in Secrets, NEW c \in Calls, NEW b \in Bodies, CompleteAccept(t, c, b)
  PROVE  [Exchange!Next]_(Exchange!vars)
  <1>1. /\ pc' = Roused(pc) /\ pollPc' = Roused(pollPc)
        /\ slot = c /\ state[c] = "claimed"
        /\ UNCHANGED <<terminal, outcome>>
    BY DEF CompleteAccept, NotifyAll, Current
  <1>2. PhaseOf(c) = "given" /\ pc[c] \in Waiting /\ terminal[c] = None
    BY <1>1, OpenHoldsTheSlot DEF IInv, TypeOK, SlotBelongsToSession
  <1>3. \A d \in Calls :
          /\ pc'[d] \in Waiting <=> pc[d] \in Waiting
          /\ pc[d] \notin Waiting => pc'[d] = pc[d]
    BY <1>1, NotifiedThreads DEF IInv
  <1>4. /\ answer'[c] = b
        /\ \A d \in Calls \ {c} : answer'[d] = answer[d] /\ state'[d] = state[d]
    BY DEF CompleteAccept, IInv, TypeOK
  <1>5. PhaseOf(c)' = "settled" /\ VerdictOf(c)' = b
    BY <1>1, <1>2, <1>3, <1>4 DEF PhaseOf, VerdictOf, Waiting
  <1>6. \A d \in Calls \ {c} : Unseen(d)
    BY <1>1, <1>3, <1>4, UnseenIf DEF Waiting, IInv, TypeOK
  <1>7. Exchange!Answer(c, b)
    BY <1>2, <1>5, <1>6, SeenStep DEF Exchange!Answer
  <1> QED BY <1>7 DEF Exchange!Next

\* A call turned away was idle, and returns at once.
LEMMA RefusalIsRefuse ==
  ASSUME IInv, NEW c \in Calls, ExecutePrecheck(c) \/ ExecuteRefuse(c)
  PROVE  [Exchange!Next]_(Exchange!vars)
  <1>1. pc[c] \in {"new", "checked"} /\ UNCHANGED <<state, terminal, answer>>
    BY DEF ExecutePrecheck, ExecuteRefuse
  <1>2. CASE pc' = [pc EXCEPT ![c] = "checked"] /\ UNCHANGED outcome
    <2>1. \A d \in Calls : Unseen(d)
      BY <1>1, <1>2, UnseenIf DEF IInv, TypeOK
    <2> QED BY <2>1, UnseenStep
  <1>3. ASSUME NEW why \in Refusals, Return(c, why) PROVE Exchange!Next
    <2>1. /\ pc'[c] = "returned" /\ outcome'[c] = why
          /\ \A d \in Calls \ {c} : pc'[d] = pc[d] /\ outcome'[d] = outcome[d]
      BY <1>3 DEF Return, IInv, TypeOK
    <2>2. PhaseOf(c) = "idle" /\ PhaseOf(c)' = "returned" /\ VerdictOf(c)' = why
      BY <1>1, <2>1 DEF PhaseOf, VerdictOf
    <2>3. \A d \in Calls \ {c} : Unseen(d)
      BY <1>1, <2>1, UnseenIf
    <2>4. Exchange!Refuse(c, why)
      BY <2>2, <2>3, SeenStep DEF Exchange!Refuse
    <2> QED BY <2>4 DEF Exchange!Next
  <1>4. \/ pc' = [pc EXCEPT ![c] = "checked"] /\ UNCHANGED outcome
        \/ \E why \in Refusals : Return(c, why)
    BY RaisedTypes DEF ExecutePrecheck, ExecuteRefuse
  <1> QED BY <1>2, <1>3, <1>4

\* A command that takes the slot opens the exchange, which was empty.
LEMMA SubmitIsSubmit ==
  ASSUME IInv, NEW c \in Calls, ExecuteSubmit(c)
  PROVE  [Exchange!Next]_(Exchange!vars)
  <1>1. pc[c] = "checked" /\ slot = None /\ UNCHANGED <<terminal, answer>>
    BY DEF ExecuteSubmit
  <1>2. PICK to \in {"asleep", "returned"} :
          /\ pc' = [Roused(pc) EXCEPT ![c] = to]
          /\ to = "asleep" => state' = [state EXCEPT ![c] = "queued"] /\ UNCHANGED outcome
          /\ to = "returned" => outcome' = [outcome EXCEPT ![c] = Raised("cancelled")]
                                /\ UNCHANGED state
    BY DEF ExecuteSubmit
  <1>3. /\ pc'[c] = to
        /\ \A d \in Calls \ {c} :
             /\ pc'[d] \in Waiting <=> pc[d] \in Waiting
             /\ pc[d] \notin Waiting => pc'[d] = pc[d]
    BY <1>2, NotifiedByCaller DEF IInv
  <1>4. \A d \in Calls \ {c} : state'[d] = state[d] /\ outcome'[d] = outcome[d]
    BY <1>2 DEF IInv, TypeOK
  <1>5. \A d \in Calls \ {c} : Unseen(d)
    BY <1>1, <1>3, <1>4, UnseenIf DEF Waiting, IInv, TypeOK
  <1>6. PhaseOf(c) = "idle" /\ terminal[c] = None /\ answer[c] = None
    BY <1>1 DEF PhaseOf, IInv, CommandLife, Answered
  <1>7. CASE to = "asleep"
    <2>1. state'[c] = "queued"
      BY <1>2, <1>7 DEF IInv, TypeOK
    <2>2. PhaseOf(c)' = "pending" /\ VerdictOf(c)' = VerdictOf(c)
      BY <1>1, <1>3, <1>6, <1>7, <2>1 DEF PhaseOf, VerdictOf
    <2>3. /\ [d \in Calls |-> PhaseOf(d)]' = [[d \in Calls |-> PhaseOf(d)] EXCEPT ![c] = "pending"]
          /\ [d \in Calls |-> VerdictOf(d)]' = [d \in Calls |-> VerdictOf(d)]
      BY <1>5, <2>2, SeenStep DEF Unseen
    <2>4. Exchange!Open = {}
      <3>1. \A d \in Exchange!Open : d \in Calls /\ d = slot
        BY OpenHoldsTheSlot DEF Exchange!Open
      <3> QED BY <1>1, <3>1
    <2>5. Exchange!Submit(c)
      BY <1>6, <2>3, <2>4 DEF Exchange!Submit
    <2> QED BY <2>5 DEF Exchange!Next
  <1>8. CASE to = "returned"
    <2>1. outcome'[c] = Raised("cancelled") /\ Raised("cancelled") \in Refusals
      BY <1>2, <1>8, RaisedTypes DEF IInv, TypeOK
    <2>2. PhaseOf(c)' = "returned" /\ VerdictOf(c)' = Raised("cancelled")
      BY <1>3, <1>8, <2>1 DEF PhaseOf, VerdictOf
    <2>3. Exchange!Refuse(c, Raised("cancelled"))
      BY <1>5, <1>6, <2>2, SeenStep DEF Exchange!Refuse
    <2> QED BY <2>1, <2>3 DEF Exchange!Next
  <1> QED BY <1>7, <1>8

\* What settled a call is what it returns; a call nobody settled gives up.
LEMMA ReturnIsReturn ==
  ASSUME IInv, NEW c \in Calls, ExecuteReturn(c)
  PROVE  [Exchange!Next]_(Exchange!vars)
  <1>1. /\ pc[c] = "awake" /\ Verdict(c) # None
        /\ outcome'[c] = Verdict(c)
        /\ \A d \in Calls \ {c} : outcome'[d] = outcome[d]
        /\ UNCHANGED <<state, terminal, answer>>
    BY DEF ExecuteReturn, IInv, TypeOK
  <1>2. /\ pc'[c] = "returned"
        /\ \A d \in Calls \ {c} :
             /\ pc'[d] \in Waiting <=> pc[d] \in Waiting
             /\ pc[d] \notin Waiting => pc'[d] = pc[d]
    <2>1. CASE slot = c
      BY <2>1, NotifiedByCaller DEF IInv, ExecuteReturn
    <2>2. CASE slot # c
      BY <2>2 DEF IInv, TypeOK, ExecuteReturn
    <2> QED BY <2>1, <2>2
  <1>3. \A d \in Calls \ {c} : Unseen(d)
    BY <1>1, <1>2, UnseenIf DEF Waiting, IInv, TypeOK
  <1>4. PhaseOf(c)' = "returned" /\ VerdictOf(c)' = Verdict(c)
    BY <1>1, <1>2 DEF PhaseOf, VerdictOf
  <1>5. CASE terminal[c] # None \/ answer[c] # None
    <2>1. PhaseOf(c) = "settled" /\ VerdictOf(c) = Verdict(c)
      BY <1>1, <1>5 DEF PhaseOf, VerdictOf, Verdict, IInv, CommandLife, Answered
    <2>2. /\ [d \in Calls |-> PhaseOf(d)]' = [[d \in Calls |-> PhaseOf(d)] EXCEPT ![c] = "returned"]
          /\ [d \in Calls |-> VerdictOf(d)]' = [d \in Calls |-> VerdictOf(d)]
      BY <1>3, <1>4, <2>1, SeenStep DEF Unseen
    <2>3. Exchange!Return(c)
      BY <2>1, <2>2 DEF Exchange!Return
    <2> QED BY <2>3 DEF Exchange!Next
  <1>6. CASE terminal[c] = None /\ answer[c] = None
    <2>1. PhaseOf(c) \in {"pending", "given"} /\ Verdict(c) \in Reasons
      BY <1>1, <1>6, RaisedTypes DEF PhaseOf, Verdict, IInv, CommandLife, Answered
    <2>2. Exchange!GiveUp(c, Verdict(c))
      BY <1>3, <1>4, <2>1, SeenStep DEF Exchange!GiveUp, Exchange!Open
    <2> QED BY <2>1, <2>2 DEF Exchange!Next
  <1> QED BY <1>5, <1>6

\* The bridge implements the exchange, for any calls, polls, secrets and
\* values: one command at a time is open, it is handed out once and settled
\* once, by the acknowledged answer or by one reason, and what settled it is
\* what execute() returns (extension_bridge.py, all of the class).
THEOREM BridgeIsAnExchange == Spec => ImplementsExchange
  <1>1. Init => Exchange!Init
    BY DEF Init, Exchange!Init, PhaseOf, VerdictOf
  <1>2. IInv /\ [Next]_vars => [Exchange!Next]_(Exchange!vars)
    <2> SUFFICES ASSUME IInv, [Next]_vars
                 PROVE  [Exchange!Next]_(Exchange!vars)
      OBVIOUS
    <2>1. CASE \E s \in Secrets : CreatePairing(s)
      <3>1. /\ pc' = Roused(pc) /\ pollPc' = Roused(pollPc)
            /\ UNCHANGED <<state, answer, outcome>>
            /\ terminal' = IF slot # None /\ state[slot] \in {"queued", "claimed"}
                           THEN [terminal EXCEPT ![slot] = Raised("disconnected")]
                           ELSE terminal
        BY <2>1 DEF CreatePairing, DropCommand, NotifyAll, IInv, SlotBelongsToSession
      <3> QED BY <3>1, RaisedTypes, DropIsAbort
    <2>2. CASE \E t \in Secrets : Disconnect(t)
      <3>1. DropCommand("disconnected") /\ UNCHANGED <<state, answer, outcome>>
        BY <2>2 DEF Disconnect
      <3> QED BY <3>1, RaisedTypes, DropIsAbort DEF DropCommand, NotifyAll
    <2>3. CASE Close
      <3>1. DropCommand("closed") /\ UNCHANGED <<state, answer, outcome>>
        BY <2>3 DEF Close
      <3> QED BY <3>1, RaisedTypes, DropIsAbort DEF DropCommand, NotifyAll
    <2>4. CASE \E t \in Secrets, c \in Calls : CompleteLate(t, c)
      <3>1. PICK c \in Calls, why \in Reasons :
              /\ slot = c /\ state[c] = "claimed"
              /\ terminal' = [terminal EXCEPT ![c] = why]
              /\ pc' = Roused(pc) /\ pollPc' = Roused(pollPc)
              /\ UNCHANGED <<state, answer, outcome>>
        BY <2>4, RaisedTypes DEF CompleteLate, Current, NotifyAll
      <3> QED BY <3>1, DropIsAbort
    <2>5. CASE \E code, s \in Secrets : Connect(code, s)
      <3>1. /\ pc' = Roused(pc) /\ pollPc' = Roused(pollPc)
            /\ UNCHANGED <<state, answer, outcome, terminal>>
        BY <2>5 DEF Connect, NotifyAll
      <3>2. \A d \in Calls : Unseen(d)
        BY <3>1, NotifiedThreads, UnseenIf DEF IInv, TypeOK, Waiting
      <3> QED BY <3>2, UnseenStep
    <2>6. CASE \E q \in Polls, t \in Secrets : Poll(q, t)
      <3>1. CASE \E t \in Secrets : Claim(t)
        BY <2>6, <3>1, ClaimIsHand DEF Poll
      <3>2. CASE ~\E t \in Secrets : Claim(t)
        <4>1. \A d \in Calls : Unseen(d)
          BY <2>6, <3>2, UnseenIf DEF Poll
        <4> QED BY <4>1, UnseenStep
      <3> QED BY <3>1, <3>2
    <2>7. CASE \E q \in Polls : PollLook(q)
      <3>1. UNCHANGED <<pc, terminal, answer, outcome>>
        BY <2>7 DEF PollLook
      <3>2. CASE \E q \in Polls : Claim(pollToken[q])
        BY <3>1, <3>2, ClaimIsHand
      <3>3. CASE UNCHANGED state
        <4>1. \A d \in Calls : Unseen(d)
          BY <3>1, <3>3, UnseenIf
        <4> QED BY <4>1, UnseenStep
      <3> QED BY <2>7, <3>2, <3>3 DEF PollLook
    <2>8. CASE \E t \in Secrets, c \in Calls, b \in Bodies : CompleteAccept(t, c, b)
      BY <2>8, AcceptIsAnswer
    <2>9. CASE \E c \in Calls : ExecutePrecheck(c) \/ ExecuteRefuse(c)
      BY <2>9, RefusalIsRefuse
    <2>10. CASE \E c \in Calls : ExecuteSubmit(c)
      BY <2>10, SubmitIsSubmit
    <2>11. CASE \E c \in Calls : ExecuteReturn(c)
      BY <2>11, ReturnIsReturn
    <2>12. CASE \E c \in Calls : ExecuteWake(c) \/ ExecuteSleep(c)
      <3>1. PICK c \in Calls, to \in Waiting :
              /\ pc[c] \in Waiting /\ pc' = [pc EXCEPT ![c] = to]
              /\ UNCHANGED <<state, terminal, answer, outcome>>
        BY <2>12 DEF ExecuteWake, ExecuteSleep, Waiting
      <3>2. \A d \in Calls : Unseen(d)
        BY <3>1, UnseenIf DEF IInv, TypeOK, Waiting
      <3> QED BY <3>2, UnseenStep
    <2>13. CASE \/ PairDeadlinePasses \/ ExpirePairing
                \/ \E q \in Polls : PollDeadlinePasses(q)
                \/ \E t \in Secrets, c \in Calls, b \in Bodies : CompleteReplay(t, c, b)
                \/ \E c \in Calls : CommandDeadlinePasses(c) \/ Cancel(c)
                \/ UNCHANGED vars
      <3>1. UNCHANGED <<pc, state, terminal, answer, outcome>>
        BY <2>13 DEF PairDeadlinePasses, ExpirePairing, PollDeadlinePasses, CompleteReplay,
                     CommandDeadlinePasses, Cancel, vars, callers
      <3>2. \A d \in Calls : Unseen(d)
        BY <3>1, UnseenIf
      <3> QED BY <3>2, UnseenStep
    <2> QED BY <2>1, <2>2, <2>3, <2>4, <2>5, <2>6, <2>7, <2>8, <2>9, <2>10, <2>11,
              <2>12, <2>13 DEF Next
  <1> QED BY <1>1, <1>2, BridgeInvariant, PTL DEF Spec, ImplementsExchange, Exchange!Spec

-----------------------------------------------------------------------------
(* The service worker at the other end of the bridge.                      *)

\* The outcomes the worker sends are bodies, and told apart.
LEMMA OutcomeTypes ==
  /\ \A kind \in {"result", "error"} : Outcome(kind) \in Bodies /\ Outcome(kind).value # Restarted
  /\ [kind |-> "error", value |-> Restarted] \in Bodies
  /\ None \notin Bodies
  BY LinkAssumption DEF Outcome, Bodies

\* A command that is queued has been handed to nobody, so a poll that hands
\* one over hands over a command no loop has.
LEMMA PollsOnlyClaim ==
  ASSUME IInv, NEW q \in Polls,
         PollLook(q) \/ \E t \in Secrets : Poll(q, t)
  PROVE  /\ answer' = answer
         /\ \/ claims' = claims
            \/ /\ slot \in Calls /\ claims[slot] = <<>>
               /\ \A c \in Calls \ {slot} : claims'[c] = claims[c]
               /\ claims'[slot] # <<>>
  <1>1. answer' = answer /\ (claims' = claims \/ \E t : Claim(t))
    BY DEF Poll, PollLook
  <1>2. ASSUME NEW t, Claim(t)
        PROVE  /\ slot \in Calls /\ claims[slot] = <<>>
               /\ \A c \in Calls \ {slot} : claims'[c] = claims[c]
               /\ claims'[slot] # <<>>
    <2>1. slot \in Calls /\ state[slot] = "queued"
      BY <1>2 DEF Claim, IInv, TypeOK
    <2>2. claims[slot] = <<>> /\ claims' = [claims EXCEPT ![slot] = Append(@, t)]
      BY <1>2, <2>1 DEF Claim, IInv, CommandLife
    <2>3. Append(<<>>, t) = <<t>> /\ <<t>> # <<>>
      OBVIOUS
    <2> QED BY <2>1, <2>2, <2>3 DEF IInv, TypeOK
  <1> QED BY <1>1, <1>2

\* A completion hands over nothing, and answers no other command than its own.
LEMMA CompletionsOnlyAnswer ==
  ASSUME LinkIInv, NEW t \in Secrets, Delivering(t),
         Accepted(t) \/ Stale(t) \/ UNCHANGED vars
  PROVE  /\ job[t] \in Calls /\ body[t] \in Bodies
         /\ [Next]_vars
         /\ claims' = claims
         /\ \A c \in Calls : answer'[c] = answer[c] \/ (c = job[t] /\ answer'[c] = body[t])
  <1>1. job[t] \in Calls /\ body[t] \in Bodies
    BY DEF LinkIInv, LinkTypeOK, LoopsHoldTheirCommand
  <1>2. [Next]_vars
    BY <1>1 DEF Accepted, Stale, Next
  <1>3. claims' = claims
    BY DEF Accepted, Stale, CompleteAccept, CompleteReplay, CompleteLate, vars, history
  <1>4. answer' = answer \/ answer' = [answer EXCEPT ![job[t]] = body[t]]
    BY DEF Accepted, Stale, CompleteAccept, CompleteReplay, CompleteLate, vars, callers
  <1> QED BY <1>1, <1>2, <1>3, <1>4 DEF LinkIInv, LinkTypeOK, TypeOK

LEMMA DisconnectsOnlyDrop ==
  ASSUME LinkIInv, NEW t, Disconnect(t) \/ UNCHANGED vars
  PROVE  claims' = claims /\ answer' = answer /\ [Next]_vars
  <1>1. Disconnect(t) => t \in Secrets
    BY DEF Disconnect, HasSession, LinkIInv, LinkTypeOK, TypeOK
  <1> QED BY <1>1 DEF Disconnect, DropCommand, vars, callers, history, Next

\* A loop that goes on with its command or has none.
Quiet(t) ==
  \/ loop'[t] \in {"off", "poll", "waiting"}
  \/ loop'[t] = loop[t] /\ job'[t] = job[t] /\ body'[t] = body[t]

\* What is known of commands and answers stays true when loops only go on or
\* end, and what is answered is what one of them delivers.
LEMMA QuietLoopsKeep ==
  ASSUME LinkIInv, \A t \in Secrets : Quiet(t),
         UNCHANGED <<runs, did>>,
         restarts > 0 => restarts' > 0,
         \A c \in Calls : claims[c] # <<>> => claims'[c] # <<>>,
         \A c \in Calls : \/ answer'[c] = answer[c]
                          \/ \E t \in Secrets : Delivering(t) /\ job[t] = c /\ answer'[c] = body[t]
  PROVE  LoopsHoldTheirCommand' /\ EachCommandHasOneLoop' /\ BodiesAreTruthful'
  <1>1. LoopsHoldTheirCommand'
    BY DEF LinkIInv, LoopsHoldTheirCommand, Quiet, Executing, Delivering
  <1>2. EachCommandHasOneLoop'
    <2>1. \A t \in Secrets : Executing(t)' =>
            Executing(t) /\ loop'[t] = loop[t] /\ job'[t] = job[t] /\ job[t] \in Calls
      <3>1. \A t \in Secrets : Executing(t) => job[t] \in Calls
        BY DEF LinkIInv, LinkTypeOK, LoopsHoldTheirCommand
      <3> QED BY <3>1 DEF Quiet, Executing
    <2>2. RunsOnce' /\ \A c \in Calls : claims'[c] = <<>> => runs'[c] = 0 /\ did'[c] = None
      BY DEF LinkIInv, EachCommandHasOneLoop, RunsOnce
    <2>3. \A t \in Secrets : Executing(t)' =>
            /\ claims'[job'[t]] # <<>>
            /\ did'[job'[t]] = None
            /\ loop'[t] = "got" => runs'[job'[t]] = 0
            /\ \A u \in Secrets : Executing(u)' /\ job'[u] = job'[t] => u = t
      BY <2>1 DEF LinkIInv, EachCommandHasOneLoop
    <2> QED BY <2>2, <2>3 DEF EachCommandHasOneLoop, Executing
  <1>3. \A c, b : Truthful(c, b) => Truthful(c, b)'
    BY DEF Truthful
  <1>4. \A t \in Secrets : Delivering(t)' =>
          Delivering(t) /\ job'[t] = job[t] /\ body'[t] = body[t]
    BY DEF Quiet, Delivering
  <1>5. BodiesAreTruthful'
    BY <1>3, <1>4 DEF LinkIInv, BodiesAreTruthful, LoopsHoldTheirCommand, Truthful
  <1> QED BY <1>1, <1>2, <1>5

\* Where a loop stands the worker runs.
LEMMA LoopsNeedTheWorker ==
  ASSUME LinkIInv, NEW t \in Secrets, loop[t] # "off"
  PROVE  worker \in {"up", "restoring"}
  BY DEF LinkIInv, LinkTypeOK, NothingRunsWhileDown

\* A step that leaves the session, the loops and the commands alone.
LEMMA SideStepKeeps ==
  ASSUME IInv', LinkIInv,
         UNCHANGED <<worker, live, stored, looping, restarts, past, answer>>,
         \A c \in Calls : claims[c] # <<>> => claims'[c] # <<>>,
         pending' \in Secrets \cup {None}, storedPending' \in Secrets \cup {None},
         scanTab' \in Tabs \cup {None}, tabs' \in SUBSET Tabs,
         accepting' \in SUBSET [code : Secrets, token : Secrets \cup {None}],
         stopping' \in [Secrets \cup {None} -> {"off", "disconnecting", "closing"}],
         worker = "down" =>
           accepting' = {} /\ \A x \in Secrets \cup {None} : stopping'[x] = "off"
  PROVE  LinkIInv'
  <1>1. LinkTypeOK'
    BY DEF IInv, LinkIInv, LinkTypeOK, looping, past
  <1>2. NothingRunsWhileDown' /\ StoredIsWhatIsLive'
    BY DEF LinkIInv, NothingRunsWhileDown, StoredIsWhatIsLive, looping
  <1>3. LoopsHoldTheirCommand' /\ EachCommandHasOneLoop' /\ BodiesAreTruthful'
    <2>1. \A t \in Secrets : Quiet(t)
      BY DEF Quiet, looping
    <2> QED BY <2>1, QuietLoopsKeep DEF past
  <1> QED BY <1>1, <1>2, <1>3 DEF LinkIInv

\* The app does nothing to the worker and nothing the worker's loops rest on.
LEMMA AppKeeps ==
  ASSUME IInv', LinkIInv, App \/ UNCHANGED linkVars
  PROVE  LinkIInv' /\ [Next]_vars
  <1>1. UNCHANGED <<workerVars, claims, answer>> /\ [Next]_vars
    <2>1. CASE UNCHANGED linkVars
      BY <2>1 DEF linkVars, vars, history, callers
    <2>2. CASE App
      <3>1. UNCHANGED workerVars /\ Next
        BY <2>2 DEF App, Next
      <3>2. UNCHANGED <<claims, answer>>
        BY <2>2 DEF App, CreatePairing, PairDeadlinePasses, ExpirePairing, Close,
             PollDeadlinePasses, ExecutePrecheck, ExecuteRefuse, ExecuteSubmit, ExecuteWake,
             ExecuteReturn, ExecuteSleep, CommandDeadlinePasses, Cancel, callers, history
      <3> QED BY <3>1, <3>2
    <2> QED BY <2>1, <2>2
  <1>2. LinkIInv'
    BY <1>1, SideStepKeeps
       DEF LinkIInv, LinkTypeOK, NothingRunsWhileDown, workerVars, memory, looping, disk, bounds
  <1> QED BY <1>1, <1>2

\* Pairing up to the reply that makes the session.
LEMMA PairingKeeps ==
  ASSUME IInv, IInv', LinkIInv,
         \/ ReceivePair \/ ForgetPending \/ Accept
         \/ \E r \in accepting : AcceptFails(r) \/ \E s \in Secrets : AcceptServed(r, s)
  PROVE  LinkIInv'
  <1> USE DEF LinkIInv, LinkTypeOK, NothingRunsWhileDown, bounds
  <1>1. CASE ReceivePair \/ ForgetPending \/ Accept
    <2>1. UNCHANGED <<worker, live, stored, looping, restarts, past, claims, answer>>
      BY <1>1 DEF ReceivePair, ForgetPending, Accept, vars, history, callers
    <2>2. pending' \in Secrets \cup {None} /\ storedPending' \in Secrets \cup {None}
      BY <1>1 DEF ReceivePair, ForgetPending, Accept, IInv, TypeOK
    <2>3. /\ scanTab' \in Tabs \cup {None} /\ tabs' \in SUBSET Tabs
          /\ accepting' \in SUBSET [code : Secrets, token : Secrets \cup {None}]
          /\ stopping' \in [Secrets \cup {None} -> {"off", "disconnecting", "closing"}]
          /\ worker # "down"
      BY <1>1 DEF ReceivePair, ForgetPending, Accept
    <2> QED BY <2>1, <2>2, <2>3, SideStepKeeps
  <1>2. CASE \E r \in accepting : AcceptFails(r) \/ \E s \in Secrets : AcceptServed(r, s)
    <2>1. UNCHANGED <<worker, live, stored, looping, restarts, past, claims, answer>>
      BY <1>2 DEF AcceptFails, AcceptServed, Connect, Lose, vars, history, callers, disk
    <2>2. worker # "down"
      BY <1>2
    <2>3. accepting' \in SUBSET [code : Secrets, token : Secrets \cup {None}]
      BY <1>2 DEF AcceptFails, AcceptServed
    <2>4. UNCHANGED <<pending, storedPending, scanTab, tabs, stopping>>
      BY <1>2 DEF AcceptFails, AcceptServed, disk
    <2> QED BY <2>1, <2>2, <2>3, <2>4, SideStepKeeps
  <1> QED BY <1>1, <1>2

\* What is left of a stopSession after its first await.
LEMMA StopStepsKeep ==
  ASSUME IInv', LinkIInv,
         (\E t \in Secrets : StopTells(t)) \/ (\E x \in Secrets \cup {None} : StopCloses(x))
  PROVE  LinkIInv'
  <1> USE DEF LinkIInv, LinkTypeOK
  <1>1. UNCHANGED <<worker, live, stored, looping, restarts, past, claims, answer>>
    BY DEF StopTells, StopCloses, Disconnect, DropCommand, Lose, vars, history, callers,
           disk, bounds
  <1>2. worker # "down"
    BY DEF NothingRunsWhileDown, StopTells, StopCloses
  <1>3. UNCHANGED <<pending, storedPending, accepting>>
    BY DEF StopTells, StopCloses, disk
  <1>4. /\ scanTab' \in Tabs \cup {None} /\ tabs' \in SUBSET Tabs
        /\ stopping' \in [Secrets \cup {None} -> {"off", "disconnecting", "closing"}]
    BY DEF StopTells, StopCloses
  <1> QED BY <1>1, <1>2, <1>3, <1>4, SideStepKeeps

\* stopSession forgets the session at once, and no loop starts anything.
LEMMA StopSessionEnds ==
  ASSUME LinkIInv, NEW loops, StopSession(loops),
         \A t \in Secrets : loops[t] \in {loop[t], "off"}
  PROVE  /\ live' = None /\ pending' = None /\ stored' = None /\ storedPending' = None
         /\ accepting' = {}
         /\ stopping' \in [Secrets \cup {None} -> {"off", "disconnecting", "closing"}]
         /\ loop' \in [Secrets -> Stages]
         /\ \A t \in Secrets : loop'[t] = "off" \/ (loop'[t] = loops[t] /\ loop'[t] = loop[t])
  <1>1. loop' = [t \in Secrets |-> IF loops[t] \in {"waiting", "got"} THEN "off" ELSE loops[t]]
    BY DEF StopSession
  <1>2. loop \in [Secrets -> Stages]
    BY DEF LinkIInv, LinkTypeOK, Stages
  <1>3. /\ loop' \in [Secrets -> Stages]
        /\ \A t \in Secrets : loop'[t] = "off" \/ (loop'[t] = loops[t] /\ loop'[t] = loop[t])
    BY <1>1, <1>2 DEF Stages
  <1>4. stopping' \in [Secrets \cup {None} -> {"off", "disconnecting", "closing"}]
    BY DEF StopSession, LinkIInv, LinkTypeOK
  <1> QED BY <1>3, <1>4 DEF StopSession

\* What the end of the loop t leaves behind.
Ended(t) ==
  /\ worker' = worker /\ scanTab' = scanTab
  /\ pending' \in Secrets \cup {None} /\ storedPending' \in Secrets \cup {None}
  /\ accepting' \in SUBSET [code : Secrets, token : Secrets \cup {None}]
  /\ stopping' \in [Secrets \cup {None} -> {"off", "disconnecting", "closing"}]
  /\ loop' \in [Secrets -> Stages]
  /\ loop'[t] = "off"
  /\ \A u \in Secrets : loop'[u] \in {loop[u], "off"}
  /\ \/ live' = None /\ stored' = None
     \/ live' = live /\ live # t /\ stored' = stored

LEMMA EndSessionEnds ==
  ASSUME LinkIInv, NEW t \in Secrets, EndSession(t)
  PROVE  Ended(t)
  <1>1. CASE live = t
    <2> DEFINE loops == [loop EXCEPT ![t] = "off"]
    <2>1. StopSession(loops) /\ UNCHANGED <<worker, scanTab>>
      BY <1>1 DEF EndSession
    <2>2. loops[t] = "off" /\ \A u \in Secrets : loops[u] \in {loop[u], "off"}
      BY DEF LinkIInv, LinkTypeOK
    <2> HIDE DEF loops
    <2> QED BY <2>1, <2>2, StopSessionEnds DEF Ended
  <1>2. CASE live # t
    BY <1>2 DEF EndSession, memory, disk, Ended, LinkIInv, LinkTypeOK, Stages
  <1> QED BY <1>1, <1>2

\* A step that ends loops, and with them a session or none, and may answer
\* what one of them delivers.
LEMMA EndingKeeps ==
  ASSUME IInv', LinkIInv,
         worker' \in {"up", "restoring"},
         {pending', storedPending'} \subseteq Secrets \cup {None},
         scanTab' \in Tabs \cup {None}, tabs' \in SUBSET Tabs,
         accepting' \in SUBSET [code : Secrets, token : Secrets \cup {None}],
         stopping' \in [Secrets \cup {None} -> {"off", "disconnecting", "closing"}],
         loop' \in [Secrets -> Stages],
         \A t \in Secrets : loop'[t] \in {loop[t], "off", "poll"},
         thread' \in [Secrets -> Polls \cup {None}],
         job' \in [Secrets -> Calls \cup {None}],
         body' \in [Secrets -> Bodies \cup {None}],
         inflight' \in [Secrets -> Calls \cup {None}],
         tries' \in [Secrets -> 0 .. 2], failures' \in [Secrets -> 0 .. 2],
         \A t \in Secrets : loop'[t] \in {"off", "poll"} \/ (job'[t] = job[t] /\ body'[t] = body[t]),
         \/ live' = None /\ stored' = None
         \/ live' = live /\ stored' = stored /\ worker' = worker
            /\ (live # None => inflight'[live] = inflight[live]),
         UNCHANGED <<runs, did, restarts>>,
         \A c \in Calls : claims[c] # <<>> => claims'[c] # <<>>,
         \A c \in Calls : \/ answer'[c] = answer[c]
                          \/ \E t \in Secrets : Delivering(t) /\ job[t] = c /\ answer'[c] = body[t]
  PROVE  LinkIInv'
  <1>1. LinkTypeOK'
    BY DEF IInv, LinkIInv, LinkTypeOK, Stages
  <1>2. NothingRunsWhileDown'
    BY DEF NothingRunsWhileDown
  <1>3. StoredIsWhatIsLive'
    BY DEF LinkIInv, StoredIsWhatIsLive
  <1>4. LoopsHoldTheirCommand' /\ EachCommandHasOneLoop' /\ BodiesAreTruthful'
    <2>1. \A t \in Secrets : Quiet(t)
      BY DEF Quiet
    <2> QED BY <2>1, QuietLoopsKeep
  <1> QED BY <1>1, <1>2, <1>3, <1>4 DEF LinkIInv

\* session !== owner
LEMMA LoopLeavesKeeps ==
  ASSUME IInv', LinkIInv, NEW t \in Secrets, LoopLeaves(t)
  PROVE  LinkIInv'
  <1> USE DEF LinkIInv, LinkTypeOK, Stages, LoopLeaves, memory, disk, bounds, past
  <1>1. worker \in {"up", "restoring"}
    BY LoopsNeedTheWorker
  <1>2. loop' \in [Secrets -> Stages] /\ \A u \in Secrets : loop'[u] \in {loop[u], "off", "poll"}
    OBVIOUS
  <1>3. UNCHANGED <<claims, answer>>
    BY DEF vars, history, callers
  <1> QED BY <1>1, <1>2, <1>3, EndingKeeps

\* What the loop t keeps of its command is gone, and only that.
LEMMA ForgettingForgets ==
  ASSUME LinkIInv, NEW t \in Secrets, Forgetting(t)
  PROVE  /\ thread' \in [Secrets -> Polls \cup {None}]
         /\ job' \in [Secrets -> Calls \cup {None}]
         /\ body' \in [Secrets -> Bodies \cup {None}]
         /\ tries' \in [Secrets -> 0 .. 2] /\ failures' \in [Secrets -> 0 .. 2]
         /\ \A u \in Secrets \ {t} : job'[u] = job[u] /\ body'[u] = body[u]
  BY DEF Forgetting, LinkIInv, LinkTypeOK

\* The loop t ends with its session, or alone if the worker has another one.
LEMMA EndedLoopKeeps ==
  ASSUME IInv', LinkIInv, NEW t \in Secrets, loop[t] # "off",
         EndSession(t), Forgetting(t),
         inflight' \in {inflight, [inflight EXCEPT ![t] = None]},
         UNCHANGED <<tabs, runs, did, restarts>>,
         \A c \in Calls : claims[c] # <<>> => claims'[c] # <<>>,
         \A c \in Calls : \/ answer'[c] = answer[c]
                          \/ \E u \in Secrets : Delivering(u) /\ job[u] = c /\ answer'[c] = body[u]
  PROVE  LinkIInv'
  <1>1. Ended(t)
    BY EndSessionEnds
  <1>2. worker' \in {"up", "restoring"}
    BY <1>1, LoopsNeedTheWorker DEF Ended
  <1>3. /\ inflight' \in [Secrets -> Calls \cup {None}]
        /\ \A u \in Secrets \ {t} : inflight'[u] = inflight[u]
    BY DEF LinkIInv, LinkTypeOK
  <1>4. \/ live' = None /\ stored' = None
        \/ /\ live' = live /\ stored' = stored /\ worker' = worker
           /\ live # None => inflight'[live] = inflight[live]
    BY <1>1, <1>3 DEF Ended, LinkIInv, LinkTypeOK
  <1>5. \A u \in Secrets : loop'[u] \in {"off", "poll"} \/ (job'[u] = job[u] /\ body'[u] = body[u])
    BY <1>1, ForgettingForgets DEF Ended
  <1>6. /\ {pending', storedPending'} \subseteq Secrets \cup {None}
        /\ scanTab' \in Tabs \cup {None} /\ tabs' \in SUBSET Tabs
    BY <1>1 DEF Ended, LinkIInv, LinkTypeOK
  <1> QED BY <1>1, <1>2, <1>3, <1>4, <1>5, <1>6, ForgettingForgets, EndingKeeps DEF Ended

\* restoreSession gives up: every loop ends, and with them the session.
LEMMA RestoreFailsKeeps ==
  ASSUME IInv', LinkIInv, NEW t \in Secrets, RestoreFails, Forgetting(t),
         inflight' = [inflight EXCEPT ![t] = None], UNCHANGED <<runs, did, restarts>>
  PROVE  LinkIInv'
  <1>1. /\ inflight' \in [Secrets -> Calls \cup {None}]
        /\ loop' \in [Secrets -> Stages] /\ \A u \in Secrets : loop'[u] = "off"
    BY DEF RestoreFails, LinkIInv, LinkTypeOK, Stages
  <1>2. claims' = claims /\ answer' = answer
    BY DisconnectsOnlyDrop DEF RestoreFails
  <1>3. /\ {pending', storedPending'} \subseteq Secrets \cup {None}
        /\ scanTab' \in Tabs \cup {None} /\ tabs' \in SUBSET Tabs
        /\ accepting' \in SUBSET [code : Secrets, token : Secrets \cup {None}]
        /\ stopping' \in [Secrets \cup {None} -> {"off", "disconnecting", "closing"}]
    BY DEF RestoreFails, LinkIInv, LinkTypeOK
  <1> QED BY <1>1, <1>2, <1>3, ForgettingForgets, EndingKeeps DEF RestoreFails

\* The bridge does not know the session, or the poll is lost.
LEMMA PollEndsKeep ==
  ASSUME IInv', LinkIInv, NEW t \in Secrets, PollRefused(t) \/ PollFails(t)
  PROVE  LinkIInv'
  <1>1. /\ loop[t] # "off"
        /\ UNCHANGED <<inflight, tabs, runs, did, restarts, claims, answer>>
    BY DEF PollRefused, PollFails, Lose, vars, history, callers, bounds, past
  <1>2. CASE EndSession(t) /\ Forgetting(t)
    BY <1>1, <1>2, EndedLoopKeeps
  <1>3. CASE /\ PollFails(t)
             /\ ~TooManyFailures(t)
             /\ loop' = [loop EXCEPT ![t] = "poll"]
             /\ thread' = [thread EXCEPT ![t] = None]
             /\ job' = [job EXCEPT ![t] = None]
             /\ failures' = [failures EXCEPT ![t] = @ + 1]
             /\ UNCHANGED <<memory, disk, body, tries>>
    <2> USE DEF LinkIInv, LinkTypeOK, Stages, memory, disk
    <2>1. failures' \in [Secrets -> 0 .. 2]
      BY <1>3 DEF TooManyFailures
    <2>2. /\ loop' \in [Secrets -> Stages]
          /\ \A u \in Secrets : loop'[u] \in {loop[u], "off", "poll"}
          /\ \A u \in Secrets : loop'[u] \in {"off", "poll"}
                                \/ (job'[u] = job[u] /\ body'[u] = body[u])
          /\ thread' \in [Secrets -> Polls \cup {None}]
          /\ job' \in [Secrets -> Calls \cup {None}]
      BY <1>3
    <2>3. worker' \in {"up", "restoring"} /\ worker' = worker
      BY <1>1, <1>3, LoopsNeedTheWorker
    <2> QED BY <1>1, <1>3, <2>1, <2>2, <2>3, EndingKeeps
  <1> QED BY <1>2, <1>3 DEF PollRefused, PollFails, Rejected

\* A completion that fails for good, or once more.
LEMMA FailedDeliveryKeeps ==
  ASSUME IInv', LinkIInv, NEW t \in Secrets, DeliveryRefused(t) \/ DeliveryLost(t)
  PROVE  LinkIInv'
  <1>1. /\ loop[t] # "off" /\ Delivering(t)
        /\ UNCHANGED <<runs, did, restarts>>
    BY DEF DeliveryRefused, DeliveryLost, Delivering, Lose, bounds, past
  <1>2. CASE RestoreFails /\ Forgetting(t) /\ inflight' = [inflight EXCEPT ![t] = None]
    BY <1>1, <1>2, RestoreFailsKeeps
  <1>3. CASE /\ EndSession(t) /\ Forgetting(t) /\ inflight' = [inflight EXCEPT ![t] = None]
             /\ UNCHANGED tabs
             /\ UNCHANGED vars \/ Accepted(t) \/ Stale(t)
    BY <1>1, <1>3, CompletionsOnlyAnswer, EndedLoopKeeps
  <1>4. CASE /\ tries[t] < 2
             /\ UNCHANGED vars \/ Accepted(t) \/ Stale(t)
             /\ tries' = [tries EXCEPT ![t] = @ + 1]
             /\ UNCHANGED <<memory, loop, thread, job, inflight, body, failures, disk, tabs>>
    <2> USE DEF LinkIInv, LinkTypeOK, Stages, memory, disk
    <2>1. tries' \in [Secrets -> 0 .. 2]
      BY <1>4
    <2>2. worker' \in {"up", "restoring"}
      BY <1>1, <1>4, LoopsNeedTheWorker
    <2> QED BY <1>1, <1>4, <2>1, <2>2, CompletionsOnlyAnswer, EndingKeeps
  <1> QED BY <1>2, <1>3, <1>4 DEF DeliveryRefused, DeliveryLost

\* persistSession stores the session there is.
LEMMA PersistedIsLive ==
  ASSUME PersistSession, live' \in Secrets \cup {None}, scanTab' \in Tabs \cup {None},
         inflight' \in [Secrets -> Calls \cup {None}]
  PROVE  /\ stored' \in Saved \cup {None}
         /\ StoredIsWhatIsLive'
  BY LinkAssumption DEF PersistSession, Saved, StoredIsWhatIsLive

\* A completion the bridge has taken, or that has become pointless.
LEMMA DeliveredKeeps ==
  ASSUME IInv', LinkIInv, NEW t \in Secrets, Deliver(t) \/ DeliveryExpires(t)
  PROVE  LinkIInv'
  <1> USE DEF LinkIInv, LinkTypeOK, Stages
  <1>1. /\ loop[t] # "off" /\ Delivering(t) /\ Delivered(t)
        /\ UNCHANGED <<tabs, runs, did, restarts>>
        /\ Accepted(t) \/ Stale(t) \/ UNCHANGED vars
    BY DEF Deliver, DeliveryExpires, Delivering, bounds, past
  <1>2. /\ inflight' = [inflight EXCEPT ![t] = None] /\ Forgetting(t)
        /\ inflight' \in [Secrets -> Calls \cup {None}]
    BY <1>1 DEF Delivered, ClearNote
  <1>3. CASE /\ StopSession([loop EXCEPT ![t] = "off"])
             /\ UNCHANGED <<worker, scanTab>>
    <2> DEFINE loops == [loop EXCEPT ![t] = "off"]
    <2>1. StopSession(loops) /\ loops[t] = "off" /\ \A u \in Secrets : loops[u] \in {loop[u], "off"}
      BY <1>3
    <2> HIDE DEF loops
    <2>2. /\ live' = None /\ pending' = None /\ stored' = None /\ storedPending' = None
          /\ accepting' = {}
          /\ stopping' \in [Secrets \cup {None} -> {"off", "disconnecting", "closing"}]
          /\ loop' \in [Secrets -> Stages]
          /\ loop'[t] = "off"
          /\ \A u \in Secrets : loop'[u] \in {loop[u], "off"}
      BY <2>1, StopSessionEnds
    <2>3. worker' \in {"up", "restoring"}
      BY <1>1, <1>3, LoopsNeedTheWorker
    <2>4. \A u \in Secrets : loop'[u] \in {"off", "poll"} \/ (job'[u] = job[u] /\ body'[u] = body[u])
      BY <1>2, <2>2, ForgettingForgets
    <2>5. /\ claims' = claims
          /\ \A c \in Calls : \/ answer'[c] = answer[c]
                             \/ \E u \in Secrets : Delivering(u) /\ job[u] = c /\ answer'[c] = body[u]
      BY <1>1, CompletionsOnlyAnswer
    <2>6. /\ thread' \in [Secrets -> Polls \cup {None}]
          /\ job' \in [Secrets -> Calls \cup {None}]
          /\ body' \in [Secrets -> Bodies \cup {None}]
          /\ tries' \in [Secrets -> 0 .. 2] /\ failures' \in [Secrets -> 0 .. 2]
      BY <1>2, ForgettingForgets
    <2> QED BY <1>1, <1>2, <1>3, <2>2, <2>3, <2>4, <2>5, <2>6, EndingKeeps
  <1>4. CASE /\ loop' = [loop EXCEPT ![t] = "poll"]
             /\ worker' = "up"
             /\ UNCHANGED <<pending, live, scanTab, accepting, stopping, storedPending>>
             /\ PersistSession
    <2>1. LinkTypeOK' /\ NothingRunsWhileDown' /\ StoredIsWhatIsLive'
      <3>1. stored' \in Saved \cup {None}
        BY <1>2, <1>4, PersistedIsLive
      <3>2. LinkTypeOK'
        BY <1>1, <1>2, <1>4, <3>1, ForgettingForgets DEF IInv
      <3>3. NothingRunsWhileDown'
        BY <1>4 DEF NothingRunsWhileDown
      <3>4. StoredIsWhatIsLive'
        BY <1>2, <1>4, PersistedIsLive
      <3> QED BY <3>2, <3>3, <3>4
    <2>2. \A u \in Secrets : Quiet(u)
      BY <1>2, <1>4, ForgettingForgets DEF Quiet
    <2> QED BY <1>1, <2>1, <2>2, QuietLoopsKeep, CompletionsOnlyAnswer
  <1> QED BY <1>1, <1>3, <1>4 DEF Delivered

\* The user ends the session, or closes its scan tab.
LEMMA UserKeeps ==
  ASSUME IInv', LinkIInv, UserStops \/ \E tab \in Tabs : ScanTabRemoved(tab)
  PROVE  LinkIInv'
  <1> USE DEF LinkIInv, LinkTypeOK
  <1>1. /\ UNCHANGED <<vars, worker, thread, job, inflight, body, tries, failures, bounds, past>>
        /\ scanTab' \in Tabs \cup {None} /\ tabs' \in SUBSET Tabs
    BY DEF UserStops, ScanTabRemoved
  <1>2. UNCHANGED <<claims, answer, restarts, runs, did>>
    BY <1>1 DEF vars, history, callers, bounds, past
  <1>3. CASE StopSession(loop) /\ worker # "down"
    <2>1. worker \in {"up", "restoring"}
      BY <1>3
    <2>2. \A t \in Secrets : loop[t] \in {loop[t], "off"}
      OBVIOUS
    <2>3. /\ live' = None /\ pending' = None /\ stored' = None /\ storedPending' = None
          /\ accepting' = {}
          /\ stopping' \in [Secrets \cup {None} -> {"off", "disconnecting", "closing"}]
          /\ loop' \in [Secrets -> Stages]
          /\ \A u \in Secrets : loop'[u] \in {loop[u], "off"}
      BY <1>3, <2>2, StopSessionEnds
    <2> QED BY <1>1, <1>2, <2>1, <2>3, EndingKeeps
  <1>4. CASE UNCHANGED <<pending, live, accepting, stopping, loop, disk>>
    BY <1>1, <1>2, <1>4, SideStepKeeps DEF disk, looping, past, NothingRunsWhileDown
  <1> QED BY <1>3, <1>4 DEF UserStops, ScanTabRemoved, NothingRunsWhileDown

\* The reply to the accepted pair makes the session, and its loop starts.
LEMMA AcceptDoneKeeps ==
  ASSUME IInv', LinkIInv, NEW r \in accepting, AcceptDone(r)
  PROVE  LinkIInv'
  <1> USE DEF LinkIInv, LinkTypeOK, Stages
  <1>1. /\ r.token \in Secrets /\ worker # "down"
        /\ UNCHANGED <<claims, answer, restarts, runs, did>>
    BY DEF AcceptDone, NothingRunsWhileDown, vars, history, callers, bounds, past
  <1>2. stored' \in Saved \cup {None} /\ StoredIsWhatIsLive'
    BY <1>1, PersistedIsLive DEF AcceptDone
  <1>3. LinkTypeOK' /\ NothingRunsWhileDown'
    BY <1>1, <1>2 DEF AcceptDone, NothingRunsWhileDown, IInv
  <1>4. \A t \in Secrets : Quiet(t)
    BY DEF AcceptDone, Quiet
  <1> QED BY <1>1, <1>2, <1>3, <1>4, QuietLoopsKeep

\* A loop that fetches gets a command no other loop has, or none.
LEMMA FetchingKeeps ==
  ASSUME IInv', LinkIInv, NEW t \in Secrets, loop[t] \in {"poll", "waiting"},
         UNCHANGED <<memory, inflight, body, tries, disk, tabs, restarts, past, answer>>,
         thread' \in [Secrets -> Polls \cup {None}], failures' \in [Secrets -> 0 .. 2],
         job' \in [Secrets -> Calls \cup {None}], loop' \in [Secrets -> Stages],
         \A u \in Secrets \ {t} : loop'[u] = loop[u] /\ job'[u] = job[u],
         loop'[t] \in {"poll", "waiting", "got"},
         loop'[t] = "got" =>
           slot \in Calls /\ claims[slot] = <<>> /\ claims'[slot] # <<>> /\ job'[t] = slot,
         \A c \in Calls : claims[c] # <<>> => claims'[c] # <<>>
  PROVE  LinkIInv'
  <1> USE DEF memory, disk, past
  <1>1. LinkTypeOK'
    BY DEF LinkIInv, LinkTypeOK, IInv, Stages
  <1>2. NothingRunsWhileDown' /\ StoredIsWhatIsLive'
    BY LoopsNeedTheWorker DEF LinkIInv, NothingRunsWhileDown, StoredIsWhatIsLive
  <1>3. LoopsHoldTheirCommand'
    BY DEF LinkIInv, LoopsHoldTheirCommand, Executing, Delivering
  <1>4. EachCommandHasOneLoop'
    <2>1. \A u \in Secrets \ {t} : Executing(u)' <=> Executing(u)
      BY DEF Executing
    <2>2. \A u \in Secrets : Executing(u) => u # t /\ job[u] \in Calls /\ claims[job[u]] # <<>>
      BY DEF LinkIInv, LinkTypeOK, LoopsHoldTheirCommand, EachCommandHasOneLoop, Executing
    <2>3. RunsOnce' /\ \A c \in Calls : claims'[c] = <<>> => runs'[c] = 0 /\ did'[c] = None
      BY DEF LinkIInv, EachCommandHasOneLoop, RunsOnce
    <2>4. Executing(t)' =>
            /\ loop'[t] = "got" /\ job'[t] \in Calls /\ claims[job'[t]] = <<>>
            /\ claims'[job'[t]] # <<>>
            /\ runs[job'[t]] = 0 /\ did[job'[t]] = None
      BY DEF Executing, LinkIInv, EachCommandHasOneLoop
    <2>5. ASSUME NEW u \in Secrets, Executing(u)'
          PROVE  /\ claims'[job'[u]] # <<>>
                 /\ did'[job'[u]] = None
                 /\ loop'[u] = "got" => runs'[job'[u]] = 0
                 /\ \A v \in Secrets : Executing(v)' /\ job'[v] = job'[u] => v = u
      <3>1. CASE u = t
        BY <2>1, <2>2, <2>4, <2>5, <3>1
      <3>2. CASE u # t
        BY <2>1, <2>2, <2>4, <2>5, <3>2 DEF LinkIInv, EachCommandHasOneLoop
      <3> QED BY <3>1, <3>2
    <2> QED BY <2>3, <2>5 DEF EachCommandHasOneLoop, Executing
  <1>5. BodiesAreTruthful'
    <2>1. \A u \in Secrets : Delivering(u)' => u # t /\ Delivering(u) /\ job'[u] = job[u]
      BY DEF Delivering
    <2> QED BY <2>1 DEF LinkIInv, BodiesAreTruthful, Truthful
  <1> QED BY <1>1, <1>2, <1>3, <1>4, <1>5 DEF LinkIInv

LEMMA PollSendKeeps ==
  ASSUME IInv, IInv', LinkIInv, NEW t \in Secrets, NEW q \in Polls, PollSend(t, q)
  PROVE  LinkIInv'
  <1>1. /\ loop[t] = "poll" /\ answer' = answer
        /\ UNCHANGED <<memory, inflight, body, tries, failures, disk, tabs, restarts, past>>
        /\ \/ claims' = claims
           \/ /\ slot \in Calls /\ claims[slot] = <<>>
              /\ \A c \in Calls \ {slot} : claims'[c] = claims[c]
              /\ claims'[slot] # <<>>
    BY PollsOnlyClaim DEF PollSend, bounds
  <1>2. CASE claims' # claims
    <2>1. loop' = [loop EXCEPT ![t] = "got"] /\ job' = [job EXCEPT ![t] = slot] /\ thread' = thread
      BY <1>2 DEF PollSend
    <2>2. /\ loop' \in [Secrets -> Stages] /\ job' \in [Secrets -> Calls \cup {None}]
          /\ job'[t] = slot /\ loop'[t] = "got"
          /\ \A u \in Secrets \ {t} : loop'[u] = loop[u] /\ job'[u] = job[u]
          /\ thread' \in [Secrets -> Polls \cup {None}] /\ failures' \in [Secrets -> 0 .. 2]
      BY <1>1, <1>2, <2>1 DEF LinkIInv, LinkTypeOK, Stages
    <2> QED BY <1>1, <1>2, <2>2, FetchingKeeps
  <1>3. CASE claims' = claims
    <2>1. /\ loop' = [loop EXCEPT ![t] = "waiting"]
          /\ thread' = [thread EXCEPT ![t] = q] /\ job' = job
      BY <1>3 DEF PollSend
    <2>2. /\ loop' \in [Secrets -> Stages] /\ job' \in [Secrets -> Calls \cup {None}]
          /\ loop'[t] = "waiting"
          /\ \A u \in Secrets \ {t} : loop'[u] = loop[u] /\ job'[u] = job[u]
          /\ thread' \in [Secrets -> Polls \cup {None}] /\ failures' \in [Secrets -> 0 .. 2]
      BY <1>1, <2>1 DEF LinkIInv, LinkTypeOK, Stages
    <2> QED BY <1>1, <1>3, <2>2, FetchingKeeps
  <1> QED BY <1>2, <1>3

LEMMA PollServeKeeps ==
  ASSUME IInv, IInv', LinkIInv, NEW q \in Polls, PollServe(q)
  PROVE  LinkIInv'
  <1>1. /\ answer' = answer
        /\ \/ claims' = claims
           \/ /\ slot \in Calls /\ claims[slot] = <<>>
              /\ \A c \in Calls \ {slot} : claims'[c] = claims[c]
              /\ claims'[slot] # <<>>
    BY PollsOnlyClaim DEF PollServe
  <1>2. \A c \in Calls : claims[c] # <<>> => claims'[c] # <<>>
    BY <1>1
  <1>3. CASE UNCHANGED workerVars
    BY <1>1, <1>2, <1>3, SideStepKeeps
       DEF LinkIInv, LinkTypeOK, NothingRunsWhileDown, workerVars, memory, looping, disk, bounds
  <1>4. ASSUME NEW t \in Secrets, loop[t] = "waiting",
               loop' = [loop EXCEPT ![t] = IF claims' # claims THEN "got" ELSE "poll"],
               thread' = [thread EXCEPT ![t] = None],
               job' = [job EXCEPT ![t] = IF claims' # claims THEN slot ELSE None],
               failures' = [failures EXCEPT ![t] = 0],
               UNCHANGED <<memory, disk, body, tries, inflight, tabs, bounds, past>>
        PROVE  LinkIInv'
    <2>1. /\ loop' \in [Secrets -> Stages] /\ job' \in [Secrets -> Calls \cup {None}]
          /\ loop'[t] = IF claims' # claims THEN "got" ELSE "poll"
          /\ claims' # claims => job'[t] = slot
          /\ \A u \in Secrets \ {t} : loop'[u] = loop[u] /\ job'[u] = job[u]
          /\ thread' \in [Secrets -> Polls \cup {None}] /\ failures' \in [Secrets -> 0 .. 2]
      BY <1>1, <1>4 DEF LinkIInv, LinkTypeOK, Stages
    <2>2. restarts' = restarts
      BY <1>4 DEF bounds
    <2> QED BY <1>1, <1>2, <1>4, <2>1, <2>2, FetchingKeeps
  <1>5. ASSUME NEW t \in Secrets, loop[t] = "waiting", Rejected(t), Forgetting(t),
               UNCHANGED <<inflight, tabs, bounds, past>>
        PROVE  LinkIInv'
    BY <1>1, <1>2, <1>5, EndedLoopKeeps DEF Rejected, bounds, past
  <1> QED BY <1>3, <1>4, <1>5 DEF PollServe

\* The command is dispatched, by the one loop that has it.
LEMMA ReceiveKeeps ==
  ASSUME IInv', LinkIInv, NEW t \in Secrets, Receive(t)
  PROVE  LinkIInv'
  <1>1. /\ loop[t] = "got" /\ Executing(t) /\ job[t] \in Calls
        /\ UNCHANGED <<memory, thread, job, body, tries, storedPending, tabs, bounds, did,
                       claims, answer, restarts>>
    BY DEF Receive, Executing, LinkIInv, LinkTypeOK, LoopsHoldTheirCommand, vars, history,
           callers, bounds
  <1>2. /\ loop'[t] = "running" /\ \A u \in Secrets \ {t} : loop'[u] = loop[u]
        /\ loop' \in [Secrets -> Stages]
        /\ failures' \in [Secrets -> 0 .. 2]
        /\ inflight' \in [Secrets -> Calls \cup {None}]
    BY <1>1 DEF Receive, LinkIInv, LinkTypeOK, Stages
  <1>3. runs[job[t]] = 0
    BY <1>1 DEF LinkIInv, EachCommandHasOneLoop
  <1>4. /\ runs' \in [Calls -> Nat]
        /\ runs'[job[t]] = runs[job[t]] + 1
        /\ \A c \in Calls \ {job[t]} : runs'[c] = runs[c]
    BY <1>1 DEF Receive, LinkIInv, LinkTypeOK
  <1>5. stored' \in Saved \cup {None} /\ StoredIsWhatIsLive'
    BY <1>1, <1>2, PersistedIsLive DEF Receive, memory, LinkIInv, LinkTypeOK
  <1>6. LinkTypeOK'
    BY <1>1, <1>2, <1>4, <1>5 DEF IInv, LinkIInv, LinkTypeOK, Stages, memory
  <1>7. NothingRunsWhileDown' /\ LoopsHoldTheirCommand'
    BY <1>1, <1>2, LoopsNeedTheWorker
       DEF LinkIInv, NothingRunsWhileDown, LoopsHoldTheirCommand, Executing, Delivering, memory
  <1>8. EachCommandHasOneLoop'
    <2>1. \A u \in Secrets : Executing(u)' <=> Executing(u)
      BY <1>1, <1>2 DEF Executing
    <2>2. RunsOnce' /\ \A c \in Calls : claims'[c] = <<>> => runs'[c] = 0 /\ did'[c] = None
      BY <1>1, <1>3, <1>4 DEF LinkIInv, EachCommandHasOneLoop, RunsOnce
    <2>3. ASSUME NEW u \in Secrets, Executing(u)'
          PROVE  /\ claims'[job'[u]] # <<>>
                 /\ did'[job'[u]] = None
                 /\ loop'[u] = "got" => runs'[job'[u]] = 0
                 /\ \A v \in Secrets : Executing(v)' /\ job'[v] = job'[u] => v = u
      <3>1. u # t => job[u] # job[t] /\ job[u] \in Calls
        BY <1>1, <2>1, <2>3
           DEF LinkIInv, LinkTypeOK, EachCommandHasOneLoop, LoopsHoldTheirCommand
      <3> QED BY <1>1, <1>2, <1>4, <2>1, <2>3, <3>1 DEF LinkIInv, EachCommandHasOneLoop
    <2> QED BY <2>2, <2>3 DEF EachCommandHasOneLoop, Executing
  <1>9. BodiesAreTruthful'
    <2>1. \A u \in Secrets : Delivering(u)' => u # t /\ Delivering(u)
      BY <1>2 DEF Delivering
    <2> QED BY <1>1, <2>1 DEF LinkIInv, BodiesAreTruthful, Truthful
  <1> QED BY <1>5, <1>6, <1>7, <1>8, <1>9 DEF LinkIInv

\* The outcome of a command is written once, by the loop that runs it, and
\* no answer speaks of it before.
LEMMA OverKeeps ==
  ASSUME LinkIInv, NEW t \in Secrets, loop[t] \in {"running", "creating"},
         NEW b \in Bodies, b.value # Restarted, Over(t, b),
         UNCHANGED <<runs, claims, answer, restarts>>
  PROVE  /\ loop' \in [Secrets -> Stages] /\ body' \in [Secrets -> Bodies \cup {None}]
         /\ \A u \in Secrets : loop'[u] # "off" => loop[u] # "off"
         /\ did' \in [Calls -> Bodies \cup {None}]
         /\ LoopsHoldTheirCommand' /\ EachCommandHasOneLoop' /\ BodiesAreTruthful'
  <1>1. Executing(t) /\ job[t] \in Calls /\ did[job[t]] = None
    BY DEF Executing, LinkIInv, LinkTypeOK, LoopsHoldTheirCommand, EachCommandHasOneLoop
  <1>2. /\ loop'[t] = "posting" /\ \A u \in Secrets \ {t} : loop'[u] = loop[u]
        /\ loop' \in [Secrets -> Stages]
        /\ body'[t] = b /\ \A u \in Secrets \ {t} : body'[u] = body[u]
        /\ body' \in [Secrets -> Bodies \cup {None}]
        /\ job' = job
    BY DEF Over, LinkIInv, LinkTypeOK, Stages
  <1>3. /\ did' \in [Calls -> Bodies \cup {None}]
        /\ \A c \in Calls \ {job[t]} : did'[c] = did[c]
    BY DEF Over, LinkIInv, LinkTypeOK
  <1>4. did'[job[t]] = b
    BY <1>1 DEF Over, LinkIInv, LinkTypeOK
  <1>5. LoopsHoldTheirCommand'
    BY <1>1, <1>2, OutcomeTypes DEF LinkIInv, LoopsHoldTheirCommand, Executing, Delivering
  <1>6. EachCommandHasOneLoop'
    <2>1. \A u \in Secrets : Executing(u)' =>
            /\ u # t /\ Executing(u)
            /\ job[u] # job[t] /\ job[u] \in Calls
      BY <1>1, <1>2
         DEF Executing, LinkIInv, LinkTypeOK, LoopsHoldTheirCommand, EachCommandHasOneLoop
    <2>2. RunsOnce' /\ \A c \in Calls : claims'[c] = <<>> => runs'[c] = 0 /\ did'[c] = None
      BY <1>1, <1>3 DEF LinkIInv, EachCommandHasOneLoop, RunsOnce
    <2>3. ASSUME NEW u \in Secrets, Executing(u)'
          PROVE  /\ claims'[job'[u]] # <<>>
                 /\ did'[job'[u]] = None
                 /\ loop'[u] = "got" => runs'[job'[u]] = 0
                 /\ \A v \in Secrets : Executing(v)' /\ job'[v] = job'[u] => v = u
      BY <1>2, <1>3, <2>1, <2>3 DEF LinkIInv, EachCommandHasOneLoop
    <2> QED BY <2>2, <2>3 DEF EachCommandHasOneLoop, Executing
  <1>7. ASSUME NEW c \in Calls, NEW a \in Bodies, Truthful(c, a)
        PROVE  Truthful(c, a)'
    BY <1>1, <1>3, <1>7, OutcomeTypes DEF Truthful
  <1>8. BodiesAreTruthful'
    <2>1. ASSUME NEW u \in Secrets, Delivering(u)' PROVE Truthful(job[u], body[u])'
      <3>1. CASE u = t
        BY <1>2, <1>4, <3>1 DEF Truthful
      <3>2. CASE u # t
        <4>1. Delivering(u) /\ body'[u] = body[u] /\ job[u] \in Calls /\ body[u] \in Bodies
          BY <1>2, <2>1, <3>2 DEF Delivering, LinkIInv, LinkTypeOK, LoopsHoldTheirCommand
        <4> QED BY <1>2, <1>7, <4>1 DEF LinkIInv, BodiesAreTruthful, Truthful
      <3> QED BY <3>1, <3>2
    <2>2. ASSUME NEW c \in Calls, answer[c] # None PROVE Truthful(c, answer[c])'
      BY <1>7, <2>2 DEF LinkIInv, LinkTypeOK, TypeOK, BodiesAreTruthful
    <2> QED BY <1>2, <2>1, <2>2 DEF BodiesAreTruthful, Delivering, Truthful
  <1> QED BY <1>2, <1>3, <1>5, <1>6, <1>8

LEMMA OperationKeeps ==
  ASSUME IInv', LinkIInv, NEW t \in Secrets,
         OpenTab(t) \/ TabNotCreated(t) \/ Operate(t) \/ \E tab \in Tabs : TabCreated(t, tab)
  PROVE  LinkIInv'
  <1>1. /\ loop[t] \in {"running", "creating"} /\ worker' \in {"up", "restoring"}
        /\ UNCHANGED <<worker, pending, live, accepting, stopping, thread, job, inflight, tries,
                       failures, storedPending, runs, claims, answer, restarts>>
    <2>1. loop[t] \in {"running", "creating"}
      BY DEF OpenTab, TabNotCreated, Operate, TabCreated
    <2>2. UNCHANGED <<worker, pending, live, accepting, stopping, thread, job, inflight, tries,
                      failures, storedPending, runs, claims, answer, restarts>>
      BY DEF OpenTab, TabNotCreated, Operate, TabCreated, Over, memory, disk, vars, history,
             callers, bounds
    <2> QED BY <2>1, <2>2, LoopsNeedTheWorker
  <1>2. /\ scanTab' \in Tabs \cup {None} /\ tabs' \in SUBSET Tabs
        /\ stored' = stored \/ PersistSession
    BY DEF OpenTab, TabNotCreated, Operate, TabCreated, LinkIInv, LinkTypeOK, memory, disk
  <1>3. stored' \in Saved \cup {None} /\ StoredIsWhatIsLive'
    <2>1. /\ live' \in Secrets \cup {None} /\ inflight' \in [Secrets -> Calls \cup {None}]
          /\ stored \in Saved \cup {None}
      BY <1>1 DEF LinkIInv, LinkTypeOK
    <2>2. CASE PersistSession
      BY <1>2, <2>1, <2>2, PersistedIsLive
    <2>3. CASE stored' = stored
      BY <1>1, <2>1, <2>3 DEF LinkIInv, StoredIsWhatIsLive
    <2> QED BY <1>2, <2>2, <2>3
  <1>4. /\ loop' \in [Secrets -> Stages] /\ body' \in [Secrets -> Bodies \cup {None}]
        /\ did' \in [Calls -> Bodies \cup {None}]
        /\ LoopsHoldTheirCommand' /\ EachCommandHasOneLoop' /\ BodiesAreTruthful'
    <2>1. CASE \E kind \in {"result", "error"} : Over(t, Outcome(kind))
      BY <1>1, <2>1, OutcomeTypes, OverKeeps
    <2>2. CASE /\ loop[t] = "running" /\ loop' = [loop EXCEPT ![t] = "creating"]
               /\ UNCHANGED <<thread, job, inflight, body, tries, failures, stored, did>>
      <3>1. /\ loop' \in [Secrets -> Stages] /\ body' \in [Secrets -> Bodies \cup {None}]
            /\ did' \in [Calls -> Bodies \cup {None}]
            /\ loop'[t] = "creating" /\ \A u \in Secrets \ {t} : loop'[u] = loop[u]
        BY <2>2 DEF LinkIInv, LinkTypeOK, Stages
      <3>2. ASSUME NEW u \in Secrets
            PROVE  /\ Executing(u)' <=> Executing(u)
                   /\ Delivering(u)' <=> Delivering(u)
                   /\ loop'[u] = "got" => loop[u] = "got"
        BY <2>2, <3>1 DEF Executing, Delivering
      <3>3. LoopsHoldTheirCommand'
        BY <2>2, <3>2 DEF LinkIInv, LoopsHoldTheirCommand, Executing, Delivering
      <3>4. EachCommandHasOneLoop'
        BY <1>1, <2>2, <3>2 DEF LinkIInv, EachCommandHasOneLoop, RunsOnce, Executing
      <3>5. BodiesAreTruthful'
        BY <1>1, <2>2, <3>2 DEF LinkIInv, BodiesAreTruthful, Truthful, Delivering
      <3> QED BY <3>1, <3>3, <3>4, <3>5
    <2> QED BY <2>1, <2>2 DEF OpenTab, TabNotCreated, Operate, TabCreated
  <1>5. LinkTypeOK' /\ NothingRunsWhileDown'
    BY <1>1, <1>2, <1>3, <1>4 DEF IInv, LinkIInv, LinkTypeOK, Stages, NothingRunsWhileDown
  <1> QED BY <1>3, <1>4, <1>5 DEF LinkIInv

\* A killed worker forgets everything but what is stored.
LEMMA KillKeeps ==
  ASSUME IInv', LinkIInv, Kill
  PROVE  LinkIInv'
  <1>1. UNCHANGED <<claims, answer, runs, did>>
    BY DEF Kill, vars, history, callers, past
  <1>2. LinkTypeOK'
    BY <1>1 DEF Kill, IInv, LinkIInv, LinkTypeOK, Stages, disk
  <1>3. NothingRunsWhileDown' /\ StoredIsWhatIsLive'
    BY DEF Kill, LinkIInv, LinkTypeOK, NothingRunsWhileDown, StoredIsWhatIsLive
  <1>4. LoopsHoldTheirCommand' /\ EachCommandHasOneLoop' /\ BodiesAreTruthful'
    <2>1. \A t \in Secrets : Quiet(t)
      BY DEF Kill, Quiet
    <2> QED BY <1>1, <2>1, <1>3, QuietLoopsKeep DEF Kill, NothingRunsWhileDown
  <1> QED BY <1>2, <1>3, <1>4 DEF LinkIInv

\* The worker is started again with what was stored: a command that was in
\* flight is only reported, and the report tells of the restart.
LEMMA RestoreKeeps ==
  ASSUME IInv', LinkIInv, Restore
  PROVE  LinkIInv'
  <1>1. /\ worker = "down" /\ restarts > 0 /\ live = None
        /\ \A t \in Secrets : loop[t] = "off"
        /\ UNCHANGED <<claims, answer, runs, did, restarts>>
    BY DisconnectsOnlyDrop
       DEF Restore, RestorePending, RestoreSession, RestoreGivesUp, LinkIInv,
           NothingRunsWhileDown, vars, history, callers, past, bounds
  <1>2. CASE RestorePending \/ RestoreGivesUp
    <2> USE DEF RestorePending, RestoreGivesUp
    <2>1. LinkTypeOK'
      BY <1>1, <1>2 DEF IInv, LinkIInv, LinkTypeOK, looping
    <2>2. NothingRunsWhileDown' /\ StoredIsWhatIsLive'
      BY <1>1, <1>2 DEF NothingRunsWhileDown, StoredIsWhatIsLive
    <2>3. \A t \in Secrets : Quiet(t)
      BY <1>2 DEF looping, Quiet
    <2> QED BY <1>1, <2>1, <2>2, <2>3, QuietLoopsKeep DEF LinkIInv
  <1>3. CASE RestoreSession
    <2>1. PICK t \in Secrets, c \in Calls \cup {None} :
            /\ stored \in Saved /\ stored.token = t /\ stored.inflight = c
            /\ stored.tab \in Tabs \cup {None}
      BY <1>3 DEF RestoreSession, LinkIInv, LinkTypeOK, Saved
    <2>2. /\ live' = t /\ scanTab' \in Tabs \cup {None}
          /\ worker' = IF c = None THEN "up" ELSE "restoring"
          /\ inflight' \in [Secrets -> Calls \cup {None}] /\ inflight'[t] = c
          /\ job' \in [Secrets -> Calls \cup {None}] /\ job'[t] = c
          /\ loop' \in [Secrets -> Stages]
          /\ loop'[t] = IF c = None THEN "poll" ELSE "reporting"
          /\ \A u \in Secrets \ {t} : loop'[u] = "off"
          /\ body' \in [Secrets -> Bodies \cup {None}]
          /\ c # None => body'[t] = [kind |-> "error", value |-> Restarted]
      BY <1>1, <1>3, <2>1, OutcomeTypes
         DEF RestoreSession, ReportOrPoll, LinkIInv, LinkTypeOK, Stages
    <2>3. UNCHANGED <<pending, accepting, stopping, thread, tries, failures, stored, tabs>>
          /\ storedPending' = None
      BY <1>3 DEF RestoreSession
    <2>4. LinkTypeOK'
      BY <1>1, <2>2, <2>3 DEF IInv, LinkIInv, LinkTypeOK, Stages
    <2>5. NothingRunsWhileDown' /\ StoredIsWhatIsLive'
      BY <2>1, <2>2, <2>3, LinkAssumption DEF NothingRunsWhileDown, StoredIsWhatIsLive
    <2>6. LoopsHoldTheirCommand'
      BY <2>2, OutcomeTypes DEF LoopsHoldTheirCommand, Executing, Delivering
    <2>7. EachCommandHasOneLoop'
      BY <1>1, <2>2 DEF LinkIInv, EachCommandHasOneLoop, RunsOnce, Executing
    <2>8. BodiesAreTruthful'
      BY <1>1, <2>2 DEF LinkIInv, BodiesAreTruthful, Truthful, Delivering
    <2> QED BY <2>4, <2>5, <2>6, <2>7, <2>8 DEF LinkIInv
  <1> QED BY <1>2, <1>3 DEF Restore

LEMMA LinkInitIInv == LinkInit => LinkIInv
  <1> SUFFICES ASSUME LinkInit PROVE LinkIInv
    OBVIOUS
  <1>1. LinkTypeOK
    BY InitIInv DEF LinkInit, LinkTypeOK, Stages, IInv
  <1>2. LoopsHoldTheirCommand /\ NothingRunsWhileDown /\ StoredIsWhatIsLive
    BY DEF LinkInit, LoopsHoldTheirCommand, NothingRunsWhileDown, StoredIsWhatIsLive,
           Executing, Delivering
  <1>3. EachCommandHasOneLoop
    BY DEF LinkInit, EachCommandHasOneLoop, RunsOnce, Executing
  <1>4. BodiesAreTruthful
    BY DEF LinkInit, Init, BodiesAreTruthful, Delivering
  <1> QED BY <1>1, <1>2, <1>3, <1>4 DEF LinkIInv

\* Whatever the worker does, the bridge takes a step of its own or none.
LEMMA LinkStepIsBridgeStep ==
  ASSUME LinkIInv, [LinkNext]_linkVars
  PROVE  [Next]_vars
  <1> USE DEF LinkIInv, LinkTypeOK
  <1>1. CASE App \/ UNCHANGED linkVars
    BY <1>1 DEF App, Next, linkVars
  <1>2. CASE \/ ReceivePair \/ ForgetPending \/ Accept
             \/ \E r \in accepting : AcceptFails(r) \/ AcceptDone(r)
             \/ \E t \in Secrets : PollFails(t)
             \/ \E x \in Secrets \cup {None} : StopCloses(x)
             \/ UserStops \/ Kill
             \/ \E tab \in Tabs : ScanTabRemoved(tab)
    BY <1>2 DEF ReceivePair, ForgetPending, Accept, AcceptFails, AcceptDone, PollFails,
                StopCloses, UserStops, Kill, ScanTabRemoved
  <1>3. CASE \E r \in accepting, s \in Secrets : AcceptServed(r, s)
    BY <1>3 DEF AcceptServed, Next
  <1>4. CASE \E q \in Polls : PollServe(q)
    BY <1>4 DEF PollServe, Next
  <1>5. CASE \E t \in Secrets, q \in Polls : PollSend(t, q)
    BY <1>5 DEF PollSend, Next
  <1>6. CASE \E t \in Secrets : Deliver(t) \/ DeliveryExpires(t) \/ DeliveryLost(t) \/ DeliveryRefused(t)
    <2>1. PICK t \in Secrets : Deliver(t) \/ DeliveryExpires(t) \/ DeliveryLost(t) \/ DeliveryRefused(t)
      BY <1>6
    <2>2. CASE Accepted(t) \/ Stale(t) \/ UNCHANGED vars
      BY <2>1, <2>2, CompletionsOnlyAnswer
         DEF Deliver, DeliveryExpires, DeliveryLost, DeliveryRefused, Delivering
    <2>3. CASE RestoreFails
      BY <2>3, DisconnectsOnlyDrop DEF RestoreFails
    <2> QED BY <2>1, <2>2, <2>3 DEF Deliver, DeliveryExpires, DeliveryLost, DeliveryRefused
  <1>7. CASE \E t \in Secrets : StopTells(t)
    BY <1>7 DEF StopTells, Next
  <1>8. CASE Restore
    BY <1>8, DisconnectsOnlyDrop DEF Restore, RestorePending, RestoreSession, RestoreGivesUp
  <1>9. CASE \E t \in Secrets :
               \/ LoopLeaves(t) \/ PollRefused(t) \/ Receive(t) \/ OpenTab(t)
               \/ TabNotCreated(t) \/ Operate(t) \/ \E tab \in Tabs : TabCreated(t, tab)
    BY <1>9 DEF LoopLeaves, PollRefused, Receive, OpenTab, TabNotCreated, Operate, TabCreated
  <1> QED BY <1>1, <1>2, <1>3, <1>4, <1>5, <1>6, <1>7, <1>8, <1>9 DEF LinkNext, LoopStep

\* Every step of the worker and of the bridge preserves what is known of both.
LEMMA LinkStepKeeps ==
  ASSUME IInv, LinkIInv, [LinkNext]_linkVars
  PROVE  IInv' /\ LinkIInv'
  <1>1. IInv'
    BY LinkStepIsBridgeStep, BridgeStepKeeps
  <1>2. CASE App \/ UNCHANGED linkVars
    BY <1>1, <1>2, AppKeeps
  <1>3. CASE \/ ReceivePair \/ ForgetPending \/ Accept
             \/ \E r \in accepting : AcceptFails(r) \/ \E s \in Secrets : AcceptServed(r, s)
    BY <1>1, <1>3, PairingKeeps
  <1>4. CASE \E r \in accepting : AcceptDone(r)
    BY <1>1, <1>4, AcceptDoneKeeps
  <1>5. CASE \E q \in Polls : PollServe(q)
    BY <1>1, <1>5, PollServeKeeps
  <1>6. CASE \E t \in Secrets : LoopLeaves(t)
    BY <1>1, <1>6, LoopLeavesKeeps
  <1>7. CASE \E t \in Secrets : PollRefused(t) \/ PollFails(t)
    BY <1>1, <1>7, PollEndsKeep
  <1>8. CASE \E t \in Secrets, q \in Polls : PollSend(t, q)
    BY <1>1, <1>8, PollSendKeeps
  <1>9. CASE \E t \in Secrets : Receive(t)
    BY <1>1, <1>9, ReceiveKeeps
  <1>10. CASE \E t \in Secrets : \/ OpenTab(t) \/ TabNotCreated(t) \/ Operate(t)
                                \/ \E tab \in Tabs : TabCreated(t, tab)
    BY <1>1, <1>10, OperationKeeps
  <1>11. CASE \E t \in Secrets : Deliver(t) \/ DeliveryExpires(t)
    BY <1>1, <1>11, DeliveredKeeps
  <1>12. CASE \E t \in Secrets : DeliveryRefused(t) \/ DeliveryLost(t)
    BY <1>1, <1>12, FailedDeliveryKeeps
  <1>13. CASE (\E t \in Secrets : StopTells(t)) \/ (\E x \in Secrets \cup {None} : StopCloses(x))
    BY <1>1, <1>13, StopStepsKeep
  <1>14. CASE UserStops \/ \E tab \in Tabs : ScanTabRemoved(tab)
    BY <1>1, <1>14, UserKeeps
  <1>15. CASE Kill
    BY <1>1, <1>15, KillKeeps
  <1>16. CASE Restore
    BY <1>1, <1>16, RestoreKeeps
  <1> QED BY <1>1, <1>2, <1>3, <1>4, <1>5, <1>6, <1>7, <1>8, <1>9, <1>10, <1>11, <1>12,
            <1>13, <1>14, <1>15, <1>16 DEF LinkNext, LoopStep

\* The worker and the bridge together keep both invariants, whatever is
\* lost, and however often the worker is killed.
THEOREM LinkInvariant == LinkSpec => [](IInv /\ LinkIInv)
  <1>1. LinkInit => IInv /\ LinkIInv
    BY InitIInv, LinkInitIInv DEF LinkInit
  <1>2. IInv /\ LinkIInv /\ [LinkNext]_linkVars => IInv' /\ LinkIInv'
    BY LinkStepKeeps
  <1> QED BY <1>1, <1>2, PTL DEF LinkSpec

\* What is proved of the bridge for any client holds with this one: the
\* worker asks nothing of the bridge that is not one of its operations
\* (service_worker.js, bridgeFetch).
THEOREM WorkerIsAClient == LinkSpec => Spec
  <1>1. LinkInit => Init
    BY DEF LinkInit
  <1>2. LinkIInv /\ [LinkNext]_linkVars => [Next]_vars
    BY LinkStepIsBridgeStep
  <1> QED BY <1>1, <1>2, LinkInvariant, PTL DEF LinkSpec, Spec

\* "A restored service worker does not replay a claimed command", for any
\* number of commands, sessions, losses and restarts: a command is
\* dispatched by the one loop that claimed it (service_worker.js, runCommand
\* and restoreSession).
THEOREM CommandsRunOnce == LinkSpec => []RunsOnce
  <1>1. LinkIInv => RunsOnce
    BY DEF LinkIInv, EachCommandHasOneLoop
  <1> QED BY <1>1, LinkInvariant, PTL

\* execute() returns nothing but what the operation of that very command
\* came to, or the report of a restart that happened (service_worker.js,
\* postCompletion; extension_bridge.py, complete and execute).
THEOREM AnswersAreTrue == LinkSpec => []AnswersAreTheOperations
  <1>1. ASSUME IInv, LinkIInv, NEW c \in Calls, outcome[c] \in Bodies
        PROVE  Truthful(c, outcome[c])
    <2>1. outcome[c] = answer[c] /\ answer[c] # None
      BY <1>1 DEF IInv, CommandLife
    <2> QED BY <1>1, <2>1 DEF LinkIInv, BodiesAreTruthful
  <1>2. IInv /\ LinkIInv => AnswersAreTheOperations
    BY <1>1 DEF AnswersAreTheOperations
  <1> QED BY <1>2, LinkInvariant, PTL

\* A kill at any moment finds in the storage the session the worker has,
\* with its command (service_worker.js, persistSession).
THEOREM StorageIsNeverBehind == LinkSpec => []StoredIsWhatIsLive
  <1>1. LinkIInv => StoredIsWhatIsLive
    BY DEF LinkIInv
  <1> QED BY <1>1, LinkInvariant, PTL
=============================================================================

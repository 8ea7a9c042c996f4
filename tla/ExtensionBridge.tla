-------------------------- MODULE ExtensionBridge --------------------------
(***************************************************************************)
(* ExtensionCommandBridge (trade_snapshot/extension_bridge.py): the one-   *)
(* slot command exchange between the local app and the browser extension.  *)
(*                                                                         *)
(* Collector threads call execute(); HTTP handler threads call poll() and  *)
(* complete() for the extension and create_pairing() and public_status()   *)
(* for the page.  Every method runs under one Condition, so a method is    *)
(* one step up to the point where its thread waits.  A waiting thread is   *)
(* "asleep" until a notify_all or its own timer makes it "awake"; it then  *)
(* re-reads the shared state.                                              *)
(*                                                                         *)
(* Secrets are drawn fresh: token_urlsafe(24) never repeats here.  Time is *)
(* abstracted to the facts the code asks of it: an offer or a command is   *)
(* past its deadline or not, a poll has waited long enough or not.         *)
(***************************************************************************)
EXTENDS Sequences

CONSTANTS
  Calls,        \* execute() calls, each with the command it submits
  Cancellable,  \* the calls made with a cancelled() callback
  Polls,        \* handler threads serving /poll
  Secrets,      \* pairing codes and session tokens
  Values,       \* the payload of a completion, as its digest sees it
  None

ASSUME CancellableAssumption == Cancellable \subseteq Calls
\* What complete() is given: a result or an error.  The digest covers the
\* value alone, so the kind is compared apart from it.
Bodies == [kind : {"result", "error"}, value : Values]

\* What execute() raises.
Raised(why) == [kind |-> "raised", value |-> why]

\* Why a pending command is ended by somebody else than an answer.
Reasons == {Raised(why) : why \in {"disconnected", "closed", "cancelled", "timeout"}}

\* Why execute() turns a call away before the command waits in the slot.
Refusals == {Raised(why) : why \in {"closed", "unpaired", "busy", "cancelled"}}

\* _CompletionReceipt
Receipts == [call : Calls, body : Bodies]

ASSUME NoneAssumption ==
  None \notin Calls \cup Secrets \cup Bodies \cup Receipts \cup Reasons \cup Refusals

VARIABLES
  closed,       \* _closed
  pairCode,     \* _pair_code
  pairExpired,  \* the clock has reached _pair_deadline
  token,        \* _session_token
  slot,         \* _command: the call whose command occupies the slot
  receipt,      \* _last_completion
  pc,           \* where each execute() thread stands
  state,        \* _Command.state of each call's command
  terminal,     \* _Command.terminal_error
  answer,       \* _Command.result or .error
  due,          \* the clock has reached _Command.deadline
  cancelled,    \* what the call's cancelled() returns
  outcome,      \* what execute() returned or raised
  pollPc,       \* where each poll() thread stands
  pollToken,    \* the session_token each poll() was given
  minted,       \* history: the secrets drawn so far
  submittedTo,  \* history: the session a command was submitted under
  claims,       \* history: the sessions a command was handed to, in order
  acked         \* history: the bodies complete() acknowledged, per call

session == <<closed, pairCode, pairExpired, token>>
callers == <<pc, state, terminal, answer, due, cancelled, outcome>>
pollers == <<pollPc, pollToken>>
history == <<minted, submittedTo, claims, acked>>
vars == <<session, slot, receipt, callers, pollers, history>>

Waiting == {"awake", "asleep"}

Init ==
  /\ closed = FALSE
  /\ pairCode = None
  /\ pairExpired = FALSE
  /\ token = None
  /\ slot = None
  /\ receipt = None
  /\ pc = [c \in Calls |-> "new"]
  /\ state = [c \in Calls |-> "absent"]
  /\ terminal = [c \in Calls |-> None]
  /\ answer = [c \in Calls |-> None]
  /\ due = [c \in Calls |-> FALSE]
  /\ cancelled = [c \in Calls |-> FALSE]
  /\ outcome = [c \in Calls |-> None]
  /\ pollPc = [q \in Polls |-> "new"]
  /\ pollToken = [q \in Polls |-> None]
  /\ minted = {}
  /\ submittedTo = [c \in Calls |-> None]
  /\ claims = [c \in Calls |-> <<>>]
  /\ acked = [c \in Calls |-> {}]

-----------------------------------------------------------------------------
(* The Condition and the helpers the methods share.                        *)

Roused(was) == [t \in DOMAIN was |-> IF was[t] = "asleep" THEN "awake" ELSE was[t]]

\* Mutant: notify() wakes one of the sleeping threads.
NotifyOne ==
  \/ /\ \A c \in Calls : pc[c] # "asleep"
     /\ \A q \in Polls : pollPc[q] # "asleep"
     /\ UNCHANGED <<pc, pollPc>>
  \/ \E c \in Calls :
       pc[c] = "asleep" /\ pc' = [pc EXCEPT ![c] = "awake"] /\ UNCHANGED pollPc
  \/ \E q \in Polls :
       pollPc[q] = "asleep" /\ pollPc' = [pollPc EXCEPT ![q] = "awake"] /\ UNCHANGED pc

\* notify_all() when no other field of pc or pollPc changes.
NotifyAll ==
  /\ pc' = Roused(pc)
  /\ pollPc' = Roused(pollPc)

\* _require_session
HasSession(t) == ~closed /\ token # None /\ t = token

\* _pair_code = _pair_deadline = None
ForgetOffer ==
  /\ pairCode' = None
  /\ pairExpired' = FALSE

\* Mutant: an answered command that still holds the slot is failed too.
DropAnsweredCommand(why) ==
  /\ terminal' = IF slot # None THEN [terminal EXCEPT ![slot] = Raised(why)] ELSE terminal
  /\ slot' = None
  /\ receipt' = None
  /\ token' = None
  /\ NotifyAll

\* Mutant: a command the extension is working on keeps the slot.
DropIdleCommand(why) ==
  /\ terminal' = IF slot # None /\ state[slot] = "queued"
                 THEN [terminal EXCEPT ![slot] = Raised(why)]
                 ELSE terminal
  /\ slot' = IF slot # None /\ state[slot] = "claimed" THEN slot ELSE None
  /\ receipt' = None
  /\ token' = None
  /\ NotifyAll

\* _drop_session.  The pairing fields are the caller's to set.
DropCommand(why) ==
  /\ terminal' = IF slot # None /\ state[slot] \in {"queued", "claimed"}
                 THEN [terminal EXCEPT ![slot] = Raised(why)]
                 ELSE terminal
  /\ slot' = None
  /\ receipt' = None
  /\ token' = None
  /\ NotifyAll

-----------------------------------------------------------------------------
(* Pairing: the page's and the extension's control calls.                  *)

\* create_pairing: a new offer revokes the session it replaces.
CreatePairing(s) ==
  /\ ~closed
  /\ s \in Secrets \ minted
  /\ pairCode' = s
  /\ pairExpired' = FALSE
  /\ minted' = minted \cup {s}
  /\ IF token # None
     THEN DropCommand("disconnected")
     ELSE NotifyAll /\ UNCHANGED <<terminal, slot, receipt, token>>
  /\ UNCHANGED <<closed, state, answer, due, cancelled, outcome, pollToken,
                 submittedTo, claims, acked>>

\* The clock reaches _pair_deadline.
PairDeadlinePasses ==
  /\ pairCode # None
  /\ ~pairExpired
  /\ pairExpired' = TRUE
  /\ UNCHANGED <<closed, pairCode, token, slot, receipt, callers, pollers, history>>

\* state and public_status forget an offer whose deadline has passed.
ExpirePairing ==
  /\ pairCode # None
  /\ pairExpired
  /\ ForgetOffer
  /\ UNCHANGED <<closed, token, slot, receipt, callers, pollers, history>>

\* connect, with the offered code; s is the session token it mints.
Connect(code, s) ==
  /\ ~closed
  /\ ~pairExpired
  /\ token = None
  /\ pairCode # None
  /\ code = pairCode
  /\ s \in Secrets \ minted
  /\ token' = s
  /\ minted' = minted \cup {s}
  /\ ForgetOffer
  /\ receipt' = None
  /\ NotifyAll
  /\ UNCHANGED <<closed, slot, state, terminal, answer, due,
                 cancelled, outcome, pollToken, submittedTo, claims, acked>>

\* disconnect
Disconnect(t) ==
  /\ HasSession(t)
  /\ DropCommand("disconnected")
  /\ ForgetOffer
  /\ UNCHANGED <<closed, state, answer, due, cancelled, outcome, pollToken, history>>

\* close
Close ==
  /\ ~closed
  /\ closed' = TRUE
  /\ DropCommand("closed")
  /\ ForgetOffer
  /\ UNCHANGED <<state, answer, due, cancelled, outcome, pollToken, history>>

-----------------------------------------------------------------------------
(* poll                                                                    *)

\* The queued command is handed to the session t.
Claim(t) ==
  /\ slot # None
  /\ state[slot] = "queued"
  /\ state' = [state EXCEPT ![slot] = "claimed"]
  /\ claims' = [claims EXCEPT ![slot] = Append(@, t)]

NothingQueued == slot # None => state[slot] # "queued"

PollDone(q) ==
  /\ pollPc' = [pollPc EXCEPT ![q] = "new"]
  /\ pollToken' = [pollToken EXCEPT ![q] = None]

\* A poll that finds a command returns it; one that finds none sleeps, its
\* lock released.  (With wait_seconds = 0 it would return idle at once.)
Poll(q, t) ==
  /\ pollPc[q] = "new"
  /\ HasSession(t)
  /\ \/ Claim(t) /\ UNCHANGED pollers
     \/ /\ NothingQueued
        /\ pollPc' = [pollPc EXCEPT ![q] = "asleep"]
        /\ pollToken' = [pollToken EXCEPT ![q] = t]
        /\ UNCHANGED <<state, claims>>
  /\ UNCHANGED <<session, slot, receipt, pc, terminal, answer, due, cancelled,
                 outcome, minted, submittedTo, acked>>

\* wait_seconds have passed; the thread still has to take the lock.
PollDeadlinePasses(q) ==
  /\ pollPc[q] \in Waiting
  /\ pollPc' = [pollPc EXCEPT ![q] = "expired"]
  /\ UNCHANGED <<session, slot, receipt, callers, pollToken, history>>

\* remaining <= 0
PollOver(q) == pollPc[q] = "expired"

\* The loop of poll() after a wait: the session again, then the command,
\* and only then the poll's own deadline.
PollLook(q) ==
  /\ pollPc[q] \in {"awake", "expired"}
  /\ \/ /\ ~HasSession(pollToken[q])
        /\ PollDone(q)
        /\ UNCHANGED <<state, claims>>
     \/ /\ HasSession(pollToken[q])
        /\ Claim(pollToken[q])
        /\ PollDone(q)
     \/ /\ HasSession(pollToken[q])
        /\ NothingQueued
        /\ PollOver(q)
        /\ PollDone(q)
        /\ UNCHANGED <<state, claims>>
     \/ /\ HasSession(pollToken[q])
        /\ NothingQueued
        /\ ~PollOver(q)
        /\ pollPc' = [pollPc EXCEPT ![q] = "asleep"]
        /\ UNCHANGED <<pollToken, state, claims>>
  /\ UNCHANGED <<session, slot, receipt, pc, terminal, answer, due, cancelled,
                 outcome, minted, submittedTo, acked>>

-----------------------------------------------------------------------------
(* complete, from whoever holds the session token and was once handed c.   *)

MayComplete(t, c) == HasSession(t) /\ claims[c] # <<>>

Current(c) == slot = c /\ state[c] = "claimed"

Late(c) == cancelled[c] \/ due[c]

\* The command is answered and the answer acknowledged.
CompleteAccept(t, c, b) ==
  /\ MayComplete(t, c)
  /\ Current(c)
  /\ ~Late(c)
  /\ state' = [state EXCEPT ![c] = IF b.kind = "error" THEN "failed" ELSE "complete"]
  /\ answer' = [answer EXCEPT ![c] = b]
  /\ receipt' = [call |-> c, body |-> b]
  /\ acked' = [acked EXCEPT ![c] = @ \cup {b}]
  /\ NotifyAll
  /\ UNCHANGED <<session, slot, terminal, due, cancelled, outcome, pollToken,
                 minted, submittedTo, claims>>

\* _reject_late_completion: the extension is told "stale".
CompleteLate(t, c) ==
  /\ MayComplete(t, c)
  /\ Current(c)
  /\ Late(c)
  /\ terminal' = [terminal EXCEPT ![c] = Raised(IF cancelled[c] THEN "cancelled" ELSE "timeout")]
  /\ slot' = None
  /\ NotifyAll
  /\ UNCHANGED <<session, receipt, state, answer, due, cancelled, outcome,
                 pollToken, history>>

\* The completion is the one the receipt was kept for, kind and digest.
Replays(c, b) ==
  /\ receipt # None
  /\ receipt.call = c
  /\ receipt.body.kind = b.kind
  /\ receipt.body.value = b.value

\* _replay_completion
CompleteReplay(t, c, b) ==
  /\ MayComplete(t, c)
  /\ ~Current(c)
  /\ Replays(c, b)
  /\ acked' = [acked EXCEPT ![c] = @ \cup {b}]
  /\ UNCHANGED <<session, slot, receipt, callers, pollers, minted, submittedTo, claims>>

-----------------------------------------------------------------------------
(* execute                                                                 *)

Return(c, what) ==
  /\ pc' = [pc EXCEPT ![c] = "returned"]
  /\ outcome' = [outcome EXCEPT ![c] = what]

\* cancelled() is asked once before the lock is taken.
ExecutePrecheck(c) ==
  /\ pc[c] = "new"
  /\ \/ cancelled[c] /\ Return(c, Raised("cancelled"))
     \/ ~cancelled[c] /\ pc' = [pc EXCEPT ![c] = "checked"] /\ UNCHANGED outcome
  /\ UNCHANGED <<session, slot, receipt, state, terminal, answer, due,
                 cancelled, pollers, history>>

ExecuteRefuse(c) ==
  /\ pc[c] = "checked"
  /\ \/ closed /\ Return(c, Raised("closed"))
     \/ ~closed /\ token = None /\ Return(c, Raised("unpaired"))
     \/ ~closed /\ token # None /\ slot # None /\ Return(c, Raised("busy"))
  /\ UNCHANGED <<session, slot, receipt, state, terminal, answer, due,
                 cancelled, pollers, history>>

\* The command takes the slot and the thread looks once, in the same
\* critical section: it sleeps, unless it was cancelled since the precheck,
\* when the command leaves the slot as it came.
ExecuteSubmit(c) ==
  /\ pc[c] = "checked"
  /\ ~closed
  /\ token # None
  /\ slot = None
  /\ pollPc' = Roused(pollPc)
  /\ \/ /\ ~cancelled[c]
        /\ slot' = c
        /\ state' = [state EXCEPT ![c] = "queued"]
        /\ submittedTo' = [submittedTo EXCEPT ![c] = token]
        /\ pc' = [Roused(pc) EXCEPT ![c] = "asleep"]
        /\ UNCHANGED outcome
     \/ /\ cancelled[c]
        /\ pc' = [Roused(pc) EXCEPT ![c] = "returned"]
        /\ outcome' = [outcome EXCEPT ![c] = Raised("cancelled")]
        /\ UNCHANGED <<slot, state, submittedTo>>
  /\ UNCHANGED <<session, receipt, terminal, answer, due, cancelled, pollToken,
                 minted, claims, acked>>

\* Mutant: only the 50 ms timer is set.
TimerOnlyToAsk(c) == c \in Cancellable

\* The wait's own timer: the deadline, or 50 ms when cancelled() must be asked.
TimerFires(c) == due[c] \/ c \in Cancellable

ExecuteWake(c) ==
  /\ pc[c] = "asleep"
  /\ TimerFires(c)
  /\ pc' = [pc EXCEPT ![c] = "awake"]
  /\ UNCHANGED <<session, slot, receipt, state, terminal, answer, due,
                 cancelled, outcome, pollers, history>>

\* Mutant: cancellation and the deadline are tested before the answer.
VerdictDeadlineFirst(c) ==
  IF terminal[c] # None THEN terminal[c]
  ELSE IF cancelled[c] THEN Raised("cancelled")
  ELSE IF due[c] THEN Raised("timeout")
  ELSE IF state[c] \in {"complete", "failed"} THEN answer[c]
  ELSE None

\* What the loop of execute() makes of the command, in its order of tests.
Verdict(c) ==
  IF terminal[c] # None THEN terminal[c]
  ELSE IF state[c] \in {"complete", "failed"} THEN answer[c]
  ELSE IF cancelled[c] THEN Raised("cancelled")
  ELSE IF due[c] THEN Raised("timeout")
  ELSE None

\* _release: only the command that still holds the slot gives it up.
ExecuteReturn(c) ==
  /\ pc[c] = "awake"
  /\ Verdict(c) # None
  /\ outcome' = [outcome EXCEPT ![c] = Verdict(c)]
  /\ IF slot = c
     THEN /\ slot' = None
          /\ pc' = [Roused(pc) EXCEPT ![c] = "returned"]
          /\ pollPc' = Roused(pollPc)
     ELSE /\ pc' = [pc EXCEPT ![c] = "returned"]
          /\ UNCHANGED <<slot, pollPc>>
  /\ UNCHANGED <<session, receipt, state, terminal, answer, due, cancelled,
                 pollToken, history>>

ExecuteSleep(c) ==
  /\ pc[c] = "awake"
  /\ Verdict(c) = None
  /\ pc' = [pc EXCEPT ![c] = "asleep"]
  /\ UNCHANGED <<session, slot, receipt, state, terminal, answer, due,
                 cancelled, outcome, pollers, history>>

-----------------------------------------------------------------------------
(* What the callers' world does: the clock and the user.                   *)

CommandDeadlinePasses(c) ==
  /\ pc[c] \in Waiting
  /\ ~due[c]
  /\ due' = [due EXCEPT ![c] = TRUE]
  /\ UNCHANGED <<session, slot, receipt, pc, state, terminal, answer,
                 cancelled, outcome, pollers, history>>

Cancel(c) ==
  /\ c \in Cancellable
  /\ pc[c] # "returned"
  /\ ~cancelled[c]
  /\ cancelled' = [cancelled EXCEPT ![c] = TRUE]
  /\ UNCHANGED <<session, slot, receipt, pc, state, terminal, answer, due,
                 outcome, pollers, history>>

-----------------------------------------------------------------------------
Next ==
  \/ \E s \in Secrets : CreatePairing(s)
  \/ PairDeadlinePasses
  \/ ExpirePairing
  \/ \E code, s \in Secrets : Connect(code, s)
  \/ \E t \in Secrets : Disconnect(t)
  \/ Close
  \/ \E q \in Polls, t \in Secrets : Poll(q, t)
  \/ \E q \in Polls : PollDeadlinePasses(q)
  \/ \E q \in Polls : PollLook(q)
  \/ \E t \in Secrets, c \in Calls, b \in Bodies : CompleteAccept(t, c, b)
  \/ \E t \in Secrets, c \in Calls : CompleteLate(t, c)
  \/ \E t \in Secrets, c \in Calls, b \in Bodies : CompleteReplay(t, c, b)
  \/ \E c \in Calls : ExecutePrecheck(c)
  \/ \E c \in Calls : ExecuteRefuse(c)
  \/ \E c \in Calls : ExecuteSubmit(c)
  \/ \E c \in Calls : ExecuteWake(c)
  \/ \E c \in Calls : ExecuteReturn(c)
  \/ \E c \in Calls : ExecuteSleep(c)
  \/ \E c \in Calls : CommandDeadlinePasses(c)
  \/ \E c \in Calls : Cancel(c)

Spec == Init /\ [][Next]_vars

\* A thread that can run runs, timers fire and deadlines pass.  Nothing is
\* assumed of the extension, of the page or of the user.
Fairness ==
  /\ \A c \in Calls :
       /\ WF_vars(CommandDeadlinePasses(c))
       /\ WF_vars(ExecuteWake(c))
       /\ WF_vars(ExecuteReturn(c))
       /\ WF_vars(ExecuteSleep(c))
  /\ \A q \in Polls :
       /\ WF_vars(PollDeadlinePasses(q))
       /\ WF_vars(PollLook(q))

FairSpec == Spec /\ Fairness

-----------------------------------------------------------------------------
(* Properties.                                                             *)

\* The fields hold what the Python annotations say they hold.
TypeOK ==
  /\ closed \in BOOLEAN
  /\ pairCode \in Secrets \cup {None}
  /\ pairExpired \in BOOLEAN
  /\ token \in Secrets \cup {None}
  /\ slot \in Calls \cup {None}
  /\ receipt \in Receipts \cup {None}
  /\ pc \in [Calls -> {"new", "checked", "returned"} \cup Waiting]
  /\ state \in [Calls -> {"absent", "queued", "claimed", "complete", "failed"}]
  /\ terminal \in [Calls -> Reasons \cup {None}]
  /\ answer \in [Calls -> Bodies \cup {None}]
  /\ due \in [Calls -> BOOLEAN]
  /\ cancelled \in [Calls -> BOOLEAN]
  /\ outcome \in [Calls -> Bodies \cup Reasons \cup Refusals \cup {None}]
  /\ pollPc \in [Polls -> {"new", "expired"} \cup Waiting]
  /\ pollToken \in [Polls -> Secrets \cup {None}]
  /\ minted \in SUBSET Secrets
  /\ submittedTo \in [Calls -> Secrets \cup {None}]
  /\ claims \in [Calls -> Seq(Secrets)]
  /\ acked \in [Calls -> SUBSET Bodies]

\* An answer the extension was told was "accepted" is the answer execute()
\* returns, whatever cancellation, deadline, disconnect or close comes
\* between the acknowledgement and the caller's waking; one call never has
\* two different answers acknowledged, replays included; and execute()
\* returns no answer the extension was told was "stale".
AcknowledgedIsReturned ==
  \A c \in Calls :
    /\ \A b \in acked[c] :
         /\ acked[c] = {b}
         /\ IF pc[c] = "returned" THEN outcome[c] = b ELSE Verdict(c) = b
    /\ outcome[c] \in Bodies => outcome[c] \in acked[c]

\* "poll ... claim it at most once": one command is handed out once, and
\* only to the session that was paired when the command was submitted.
HandedOnceToItsSession ==
  \A c \in Calls : claims[c] \in {<<>>, <<submittedTo[c]>>}

\* The command in the slot belongs to the live session and to a caller
\* that has not returned: nothing executes for a revoked session.
SlotBelongsToSession ==
  slot # None =>
    /\ ~closed
    /\ token # None
    /\ submittedTo[slot] = token
    /\ pc[slot] \in Waiting
    /\ terminal[slot] = None

\* No lost wake-up of a caller: an execute() thread that sleeps has its
\* command in the slot and nothing to be told.  A call made without
\* cancelled() would otherwise sleep on until its deadline.
SleepersHaveNothingToReturn ==
  \A c \in Calls : pc[c] = "asleep" =>
    /\ slot = c
    /\ terminal[c] = None
    /\ state[c] \in {"queued", "claimed"}

\* No lost wake-up of a poller: a poll() that sleeps holds the live token
\* and there is no command it could take.
SleepingPollsMissNothing ==
  \A q \in Polls : pollPc[q] = "asleep" => HasSession(pollToken[q]) /\ NothingQueued

\* No wake-up is lost on the one Condition that callers and polls share:
\* whoever sleeps has nothing to find (notify_all in every method).
NoWakeupIsLost == SleepersHaveNothingToReturn /\ SleepingPollsMissNothing

\* A pairing code and a session are never both usable, and after close
\* neither is.
OneWayIn ==
  /\ pairCode = None \/ token = None
  /\ closed => pairCode = None /\ token = None

Answered == {"complete", "failed"}

\* The life of a command: what its state, its error, its answer and what
\* was acknowledged for it say of one another.
CommandLife ==
  \A c \in Calls :
    /\ pc[c] \in {"new", "checked"} => state[c] = "absent"
    /\ pc[c] \in Waiting => state[c] # "absent"
    /\ state[c] = "absent" => terminal[c] = None
    /\ claims[c] = IF state[c] \in {"absent", "queued"} THEN <<>> ELSE <<submittedTo[c]>>
    /\ IF state[c] \in Answered
       THEN answer[c] # None /\ acked[c] = {answer[c]} /\ terminal[c] = None
       ELSE answer[c] = None /\ acked[c] = {}
    /\ pc[c] \in Waiting /\ slot # c => terminal[c] # None \/ state[c] \in Answered
    /\ pc[c] = "returned" /\ state[c] \in Answered => outcome[c] = answer[c]
    /\ outcome[c] \in Bodies => pc[c] = "returned" /\ state[c] \in Answered

\* The receipt replays the answer its command was given.
ReceiptMatches ==
  receipt # None =>
    /\ state[receipt.call] \in Answered
    /\ answer[receipt.call] = receipt.body

\* The inductive invariant: the safety properties above follow from it.
IInv ==
  /\ TypeOK
  /\ CommandLife
  /\ ReceiptMatches
  /\ SlotBelongsToSession
  /\ SleepersHaveNothingToReturn
  /\ SleepingPollsMissNothing
  /\ OneWayIn

\* Every execute() that waits returns, and so does every poll(): with a
\* command, idle, or refused.
EverybodyReturns ==
  /\ \A c \in Calls : pc[c] \in Waiting ~> pc[c] = "returned"
  /\ \A q \in Polls : pollPc[q] \in Waiting ~> pollPc[q] = "new"

-----------------------------------------------------------------------------
(* The bridge implements the abstract exchange.                            *)

PhaseOf(c) ==
  IF pc[c] \in {"new", "checked"} THEN "idle"
  ELSE IF pc[c] = "returned" THEN "returned"
  ELSE IF terminal[c] # None \/ answer[c] # None THEN "settled"
  ELSE IF state[c] = "queued" THEN "pending"
  ELSE "given"

VerdictOf(c) ==
  IF pc[c] = "returned" THEN outcome[c]
  ELSE IF terminal[c] # None THEN terminal[c]
  ELSE answer[c]

Exchange == INSTANCE CommandExchange WITH
  Answers <- Bodies,
  phase <- [c \in Calls |-> PhaseOf(c)],
  verdict <- [c \in Calls |-> VerdictOf(c)]

\* One command at a time is open; it is handed out once and settled once,
\* by the acknowledged answer or by one reason, and that is what returns.
ImplementsExchange == Exchange!Spec
=============================================================================

-------------------------- MODULE CommandExchange --------------------------
(***************************************************************************)
(* What the extension bridge promises each execute() call, without its     *)
(* sessions, tokens, receipts and waiting threads.  A call is either       *)
(* refused, or opened in the exchange's single place, handed to the        *)
(* browser extension at most once, and settled at most once: by the one    *)
(* answer that was acknowledged to the extension, or by one reason for     *)
(* giving up.  What settles a call is what the call returns.               *)
(***************************************************************************)
CONSTANTS
  Calls,     \* the execute() calls
  Answers,   \* what an extension can answer
  Reasons,   \* why an opened call can be given up
  Refusals,  \* why a call can be turned away
  None

VARIABLES
  phase,     \* where each call stands
  verdict    \* what settled each call, None before

vars == <<phase, verdict>>

\* The calls that occupy the exchange.
Open == {c \in Calls : phase[c] \in {"pending", "given"}}

Init ==
  /\ phase = [c \in Calls |-> "idle"]
  /\ verdict = [c \in Calls |-> None]

Refuse(c, why) ==
  /\ phase[c] = "idle"
  /\ phase' = [phase EXCEPT ![c] = "returned"]
  /\ verdict' = [verdict EXCEPT ![c] = why]

Submit(c) ==
  /\ phase[c] = "idle"
  /\ Open = {}
  /\ phase' = [phase EXCEPT ![c] = "pending"]
  /\ UNCHANGED verdict

Hand(c) ==
  /\ phase[c] = "pending"
  /\ phase' = [phase EXCEPT ![c] = "given"]
  /\ UNCHANGED verdict

Answer(c, b) ==
  /\ phase[c] = "given"
  /\ phase' = [phase EXCEPT ![c] = "settled"]
  /\ verdict' = [verdict EXCEPT ![c] = b]

\* Somebody else than the caller ends the call.
Abort(c, why) ==
  /\ c \in Open
  /\ phase' = [phase EXCEPT ![c] = "settled"]
  /\ verdict' = [verdict EXCEPT ![c] = why]

\* The caller itself stops waiting.
GiveUp(c, why) ==
  /\ c \in Open
  /\ phase' = [phase EXCEPT ![c] = "returned"]
  /\ verdict' = [verdict EXCEPT ![c] = why]

Return(c) ==
  /\ phase[c] = "settled"
  /\ phase' = [phase EXCEPT ![c] = "returned"]
  /\ UNCHANGED verdict

Next ==
  \E c \in Calls :
    \/ \E why \in Refusals : Refuse(c, why)
    \/ Submit(c)
    \/ Hand(c)
    \/ \E b \in Answers : Answer(c, b)
    \/ \E why \in Reasons : Abort(c, why) \/ GiveUp(c, why)
    \/ Return(c)

Spec == Init /\ [][Next]_vars
=============================================================================

---------------------------- MODULE ServiceWorker ----------------------------
(***************************************************************************)
(* The extension's service worker (browser_extension/service_worker.js)    *)
(* talking to the bridge of module ExtensionBridge.                        *)
(*                                                                         *)
(* The worker is one JavaScript thread: a handler runs to its next await   *)
(* on a request, a tab or an operation, and every other handler may run    *)
(* before it goes on.  Writes to chrome.storage.session take effect in the *)
(* order they are issued and are not waited for here.  The browser may     *)
(* kill the worker between two steps; storage, tabs and the bridge's own   *)
(* threads survive it.  A session object is named by its token.            *)
(***************************************************************************)
EXTENDS ExtensionBridge, Integers

CONSTANTS
  Opens,        \* the commands that make sure of a scan tab (session.open, session.navigate)
  Closes,       \* the session.close commands
  Tabs,         \* scan tabs the browser can create
  Work,         \* the value of an operation's own result or error
  Restarted,    \* "worker_restarted_during_command"
  MaxFaults,    \* bound on lost requests and replies
  MaxRestarts   \* bound on the times the browser kills the worker

\* What persistSession stores.
Saved == [token : Secrets, inflight : Calls \cup {None}, tab : Tabs \cup {None}]

ASSUME LinkAssumption ==
  /\ Opens \cup Closes \subseteq Calls
  /\ Opens \cap Closes = {}
  /\ Work \in Values /\ Restarted \in Values /\ Work # Restarted
  /\ None \notin Tabs \cup Saved
  /\ MaxFaults \in Nat /\ MaxRestarts \in Nat

VARIABLES
  worker,         \* "up", "restoring" (startup is not settled) or "down"
  pending,        \* pendingPair: its code
  live,           \* session: the token of the session object
  scanTab,        \* scanTabId
  accepting,      \* the /pair requests of acceptPendingPair, with their reply
  stopping,       \* stopSession calls under way, by the session they close
  loop,           \* where the poll loop of each session stands
  thread,         \* the bridge thread that serves the loop's poll
  job,            \* the command the loop runs
  inflight,       \* session.inflightCommandId
  body,           \* what the loop delivers
  tries,          \* the attempt of postCompletion
  failures,       \* failures of pollLoop in a row
  stored,         \* disk: fte_bridge_session_v1
  storedPending,  \* disk: fte_pending_pair_v1
  tabs,           \* the browser: scan tabs that are open
  faults,         \* requests and replies lost
  restarts,       \* times the worker was killed
  runs,           \* history: how often each command was dispatched
  did             \* history: what its operation came to

memory == <<worker, pending, live, scanTab, accepting, stopping>>
looping == <<loop, thread, job, inflight, body, tries, failures>>
disk == <<stored, storedPending>>
bounds == <<faults, restarts>>
past == <<runs, did>>
workerVars == <<memory, looping, disk, tabs, bounds, past>>
linkVars == <<vars, workerVars>>

LinkInit ==
  /\ Init
  /\ worker = "up"
  /\ pending = None /\ live = None /\ scanTab = None
  /\ accepting = {}
  /\ stopping = [x \in Secrets \cup {None} |-> "off"]
  /\ loop = [t \in Secrets |-> "off"]
  /\ thread = [t \in Secrets |-> None]
  /\ job = [t \in Secrets |-> None]
  /\ inflight = [t \in Secrets |-> None]
  /\ body = [t \in Secrets |-> None]
  /\ tries = [t \in Secrets |-> 0]
  /\ failures = [t \in Secrets |-> 0]
  /\ stored = None /\ storedPending = None
  /\ tabs = {}
  /\ faults = 0 /\ restarts = 0
  /\ runs = [c \in Calls |-> 0]
  /\ did = [c \in Calls |-> None]

-----------------------------------------------------------------------------
(* Helpers.                                                                *)

\* Mutant: the session is stored before its command is noted.
PersistFirst ==
  stored' = IF live' = None THEN None
            ELSE [token |-> live', inflight |-> inflight[live'], tab |-> scanTab']

\* persistSession: whatever session there is now is what is stored.
PersistSession ==
  stored' = IF live' = None THEN None
            ELSE [token |-> live', inflight |-> inflight'[live'], tab |-> scanTab']

\* What the loop of t keeps of a command is forgotten.
Forgetting(t) ==
  /\ thread' = [thread EXCEPT ![t] = None]
  /\ job' = [job EXCEPT ![t] = None]
  /\ body' = [body EXCEPT ![t] = None]
  /\ tries' = [tries EXCEPT ![t] = 0]
  /\ failures' = [failures EXCEPT ![t] = 0]

\* stopSession up to its await: the session is forgotten at once and every
\* request under way is aborted, those of other stopSession calls included
\* (a stop that still waits for the storage has sent none).  loops is what
\* the loops are when the caller is one of them.
StopSession(loops) ==
  /\ live' = None
  /\ pending' = None
  /\ accepting' = {}
  /\ stored' = None
  /\ storedPending' = None
  /\ loop' = [t \in Secrets |-> IF loops[t] \in {"waiting", "got"} THEN "off" ELSE loops[t]]
  /\ \E aborted \in SUBSET {x \in Secrets : stopping[x] = "disconnecting"} :
       stopping' = [x \in Secrets \cup {None} |->
                      CASE x = live -> IF x = None THEN "closing" ELSE "disconnecting"
                        [] x # live /\ x \in aborted -> "closing"
                        [] OTHER -> stopping[x]]

\* The loop of t ends; if its session is still the worker's, so does that.
EndSession(t) ==
  IF live = t
  THEN StopSession([loop EXCEPT ![t] = "off"]) /\ UNCHANGED <<worker, scanTab>>
  ELSE /\ loop' = [loop EXCEPT ![t] = "off"]
       /\ UNCHANGED <<memory, disk>>

Lose == faults < MaxFaults /\ faults' = faults + 1 /\ UNCHANGED restarts

-----------------------------------------------------------------------------
(* Pairing.                                                                *)

\* receivePair: the page posts the code it was offered.
ReceivePair ==
  /\ worker = "up"
  /\ live = None
  /\ pending = None
  /\ pairCode # None
  /\ pending' = pairCode
  /\ storedPending' = pairCode
  /\ UNCHANGED <<vars, worker, live, scanTab, accepting, stopping, looping, stored, tabs, bounds, past>>

\* The request expires, is rejected in the popup, or its page is closed.
ForgetPending ==
  /\ worker = "up"
  /\ pending # None
  /\ pending' = None
  /\ storedPending' = None
  /\ UNCHANGED <<vars, worker, live, scanTab, accepting, stopping, looping, stored, tabs, bounds, past>>

\* acceptPendingPair: the pending pair is cleared before the bridge answers.
Accept ==
  /\ worker = "up"
  /\ pending # None
  /\ pending' = None
  /\ storedPending' = None
  /\ accepting' = accepting \cup {[code |-> pending, token |-> None]}
  /\ UNCHANGED <<vars, worker, live, scanTab, stopping, looping, stored, tabs, bounds, past>>

AcceptServed(r, s) ==
  /\ r \in accepting
  /\ r.token = None
  /\ Connect(r.code, s)
  /\ accepting' = (accepting \ {r}) \cup {[r EXCEPT !.token = s]}
  /\ UNCHANGED <<worker, pending, live, scanTab, stopping, looping, disk, tabs, bounds, past>>

\* The bridge refuses the code, or the request or its reply is lost.
AcceptFails(r) ==
  /\ r \in accepting
  /\ \/ /\ r.token = None
        /\ closed \/ pairExpired \/ token # None \/ pairCode # r.code
        /\ UNCHANGED bounds
     \/ Lose
  /\ accepting' = accepting \ {r}
  /\ UNCHANGED <<vars, worker, pending, live, scanTab, stopping, looping, disk, tabs, past>>

\* The reply makes the session, whatever session there is by now.
AcceptDone(r) ==
  /\ r \in accepting
  /\ r.token # None
  /\ accepting' = accepting \ {r}
  /\ live' = r.token
  /\ loop' = [loop EXCEPT ![r.token] = "poll"]
  /\ UNCHANGED <<worker, pending, scanTab, stopping, thread, job, inflight, body, tries, failures>>
  /\ PersistSession
  /\ UNCHANGED <<vars, storedPending, tabs, bounds, past>>

-----------------------------------------------------------------------------
(* pollLoop.                                                               *)

\* session !== owner
LoopLeaves(t) ==
  /\ loop[t] = "poll"
  /\ live # t
  /\ loop' = [loop EXCEPT ![t] = "off"]
  /\ UNCHANGED <<vars, memory, thread, job, inflight, body, tries, failures, disk, tabs, bounds, past>>

PollSend(t, q) ==
  /\ loop[t] = "poll"
  /\ live = t
  /\ worker = "up"
  /\ Poll(q, t)
  /\ IF claims' # claims
     THEN /\ loop' = [loop EXCEPT ![t] = "got"]
          /\ job' = [job EXCEPT ![t] = slot]
          /\ UNCHANGED thread
     ELSE /\ loop' = [loop EXCEPT ![t] = "waiting"]
          /\ thread' = [thread EXCEPT ![t] = q]
          /\ UNCHANGED job
  /\ UNCHANGED <<memory, inflight, body, tries, failures, disk, tabs, bounds, past>>

\* Mutant: a refused poll is tried again.
PollAgain(t) ==
  /\ loop' = [loop EXCEPT ![t] = "poll"]
  /\ UNCHANGED <<memory, disk>>

\* bridge_request_rejected is not retryable.
Rejected(t) == EndSession(t)

\* The bridge no longer knows the session.
PollRefused(t) ==
  /\ loop[t] = "poll"
  /\ live = t
  /\ ~HasSession(t)
  /\ Rejected(t)
  /\ Forgetting(t)
  /\ UNCHANGED <<vars, inflight, tabs, bounds, past>>

\* A bridge thread that has been waiting looks again.  Its reply goes to
\* the loop that waits for it; a thread whose client is gone, and which
\* does not know, has nobody to reply to.
PollServe(q) ==
  /\ PollLook(q)
  /\ \/ /\ \/ \A t \in Secrets : loop[t] = "waiting" => thread[t] # q
           \/ pollPc'[q] = "asleep"
        /\ UNCHANGED workerVars
     \/ \E t \in Secrets :
          /\ loop[t] = "waiting"
          /\ thread[t] = q
          /\ pollPc'[q] # "asleep"
          /\ IF HasSession(t)
             THEN /\ loop' = [loop EXCEPT ![t] = IF claims' # claims THEN "got" ELSE "poll"]
                  /\ thread' = [thread EXCEPT ![t] = None]
                  /\ job' = [job EXCEPT ![t] = IF claims' # claims THEN slot ELSE None]
                  /\ failures' = [failures EXCEPT ![t] = 0]
                  /\ UNCHANGED <<memory, disk, body, tries>>
             ELSE Rejected(t) /\ Forgetting(t)
          /\ UNCHANGED <<inflight, tabs, bounds, past>>

\* failures >= 3, counting this one
TooManyFailures(t) == failures[t] = 2

\* The poll, or its reply, is lost.  The bridge thread goes on waiting.
PollFails(t) ==
  /\ loop[t] \in {"waiting", "got"}
  /\ Lose
  /\ IF live # t \/ TooManyFailures(t)
     THEN /\ EndSession(t)
          /\ Forgetting(t)
     ELSE /\ loop' = [loop EXCEPT ![t] = "poll"]
          /\ thread' = [thread EXCEPT ![t] = None]
          /\ job' = [job EXCEPT ![t] = None]
          /\ failures' = [failures EXCEPT ![t] = @ + 1]
          /\ UNCHANGED <<memory, disk, body, tries>>
  /\ UNCHANGED <<vars, inflight, tabs, runs, did>>

-----------------------------------------------------------------------------
(* runCommand and dispatchOperation.                                       *)

\* The command is noted as in flight, then dispatched.
Receive(t) ==
  /\ loop[t] = "got"
  /\ loop' = [loop EXCEPT ![t] = "running"]
  /\ failures' = [failures EXCEPT ![t] = 0]
  /\ inflight' = [inflight EXCEPT ![t] = job[t]]
  /\ runs' = [runs EXCEPT ![job[t]] = @ + 1]
  /\ UNCHANGED <<memory, thread, job, body, tries>>
  /\ PersistSession
  /\ UNCHANGED <<vars, storedPending, tabs, bounds, did>>

Outcome(kind) == [kind |-> kind, value |-> Work]

\* Mutant: the error is caught and forgotten.
OverWithoutError(t, b) ==
  /\ loop' = [loop EXCEPT ![t] = "posting"]
  /\ body' = [body EXCEPT ![t] = Outcome("result")]
  /\ did' = [did EXCEPT ![job[t]] = b]
  /\ UNCHANGED <<thread, job, inflight, tries, failures>>

\* The operation of t's command is over.
Over(t, b) ==
  /\ loop' = [loop EXCEPT ![t] = "posting"]
  /\ body' = [body EXCEPT ![t] = b]
  /\ did' = [did EXCEPT ![job[t]] = b]
  /\ UNCHANGED <<thread, job, inflight, tries, failures>>

\* ensureScanTab: the tab that is open is used, or one is being created.
OpenTab(t) ==
  /\ loop[t] = "running"
  /\ job[t] \in Opens
  /\ IF scanTab \in tabs
     THEN Over(t, Outcome("result")) /\ UNCHANGED <<scanTab, stored>>
     ELSE /\ loop' = [loop EXCEPT ![t] = "creating"]
          /\ scanTab' = None
          /\ UNCHANGED <<thread, job, inflight, body, tries, failures, stored, did>>
  /\ UNCHANGED <<vars, worker, pending, live, accepting, stopping, storedPending, tabs, bounds, runs>>

\* The browser has created it, and nobody asks what became of the session.
TabCreated(t, tab) ==
  /\ loop[t] = "creating"
  /\ tab \in Tabs \ tabs
  /\ tabs' = tabs \cup {tab}
  /\ scanTab' = tab
  /\ Over(t, Outcome("result"))
  /\ UNCHANGED <<worker, pending, live, accepting, stopping>>
  /\ PersistSession
  /\ UNCHANGED <<vars, storedPending, bounds, runs>>

\* scan_tab_create_failed
TabNotCreated(t) ==
  /\ loop[t] = "creating"
  /\ Over(t, Outcome("error"))
  /\ UNCHANGED <<vars, memory, disk, tabs, bounds, runs>>

\* Any other operation ends with its result or an error.  analyzer.begin,
\* analyzer.abort, session.wait and session.close succeed without a scan tab, the
\* others fail; which of them a command is, is left open.
Operate(t) ==
  /\ loop[t] = "running"
  /\ \/ job[t] \notin Opens /\ Over(t, Outcome("result"))
     \/ Over(t, Outcome("error"))
  /\ UNCHANGED <<vars, memory, disk, tabs, bounds, runs>>

-----------------------------------------------------------------------------
(* postCompletion, by runCommand ("posting") or restoreSession ("reporting").*)

Delivering(t) == loop[t] \in {"posting", "reporting"}

\* What the bridge does with a completion it is sent, and may do with one
\* whose reply is lost.
Accepted(t) == CompleteAccept(t, job[t], body[t]) \/ CompleteReplay(t, job[t], body[t])
Stale(t) ==
  \/ CompleteLate(t, job[t])
  \/ HasSession(t) /\ ~Current(job[t]) /\ ~Replays(job[t], body[t]) /\ UNCHANGED vars

\* inflightCommandId = null
ClearNote(t) == inflight' = [inflight EXCEPT ![t] = None]

\* Accepted, stale or expired: the command is done with, and the loop goes
\* on; a session.close that succeeded ends the session.
Delivered(t) ==
  /\ ClearNote(t)
  /\ Forgetting(t)
  /\ IF loop[t] = "posting" /\ job[t] \in Closes /\ body[t].kind = "result"
     THEN StopSession([loop EXCEPT ![t] = "off"]) /\ UNCHANGED <<worker, scanTab>>
     ELSE /\ loop' = [loop EXCEPT ![t] = "poll"]
          /\ worker' = "up"
          /\ UNCHANGED <<pending, live, scanTab, accepting, stopping, storedPending>>
          /\ PersistSession

Deliver(t) ==
  /\ Delivering(t)
  /\ Accepted(t) \/ Stale(t)
  /\ Delivered(t)
  /\ UNCHANGED <<tabs, bounds, past>>

\* The deadline is past before an attempt (ten seconds after a restart).
DeliveryExpires(t) ==
  /\ \/ loop[t] = "posting" /\ due[job[t]]
     \/ loop[t] = "reporting" /\ tries[t] > 0
  /\ Delivered(t)
  /\ UNCHANGED <<vars, tabs, bounds, past>>

\* restoreSession gives the session up: it is disconnected if it can be,
\* and its scan tab closed.
RestoreFails ==
  /\ worker' = "up"
  /\ live' = None
  /\ scanTab' = None
  /\ tabs' = tabs \ {scanTab}
  /\ stored' = None
  /\ storedPending' = None
  /\ loop' = [t \in Secrets |-> "off"]
  /\ Disconnect(live) \/ UNCHANGED vars
  /\ UNCHANGED <<pending, accepting, stopping>>

\* Refused by the bridge, which does not know the session any more.
DeliveryRefused(t) ==
  /\ Delivering(t)
  /\ ~HasSession(t)
  /\ IF loop[t] = "posting"
     THEN EndSession(t) /\ UNCHANGED <<vars, tabs>>
     ELSE RestoreFails
  /\ Forgetting(t)
  /\ inflight' = [inflight EXCEPT ![t] = None]
  /\ UNCHANGED <<bounds, past>>

\* The completion or its acknowledgement is lost; the third time for good.
DeliveryLost(t) ==
  /\ Delivering(t)
  /\ Lose
  /\ IF tries[t] < 2
     THEN /\ UNCHANGED vars \/ Accepted(t) \/ Stale(t)
          /\ tries' = [tries EXCEPT ![t] = @ + 1]
          /\ UNCHANGED <<memory, loop, thread, job, inflight, body, failures, disk, tabs>>
     ELSE /\ IF loop[t] = "posting"
             THEN EndSession(t) /\ UNCHANGED tabs /\ (UNCHANGED vars \/ Accepted(t) \/ Stale(t))
             ELSE RestoreFails
          /\ Forgetting(t)
          /\ inflight' = [inflight EXCEPT ![t] = None]
  /\ UNCHANGED <<runs, did>>

-----------------------------------------------------------------------------
(* stopSession after its first await.                                      *)

\* The bridge is told, or the request is lost.
StopTells(t) ==
  /\ stopping[t] = "disconnecting"
  /\ \/ HasSession(t) /\ Disconnect(t) /\ UNCHANGED bounds
     \/ ~HasSession(t) /\ UNCHANGED <<vars, bounds>>
     \/ Lose /\ UNCHANGED vars
  /\ stopping' = [stopping EXCEPT ![t] = "closing"]
  /\ UNCHANGED <<worker, pending, live, scanTab, accepting, looping, disk, tabs, past>>

\* Only now is the scan tab looked up, and closed.
StopCloses(x) ==
  /\ stopping[x] = "closing"
  /\ stopping' = [stopping EXCEPT ![x] = "off"]
  /\ tabs' = tabs \ {scanTab}
  /\ scanTab' = None
  /\ UNCHANGED <<vars, worker, pending, live, accepting, looping, disk, bounds, past>>

\* The popup, the page, or the page's going away.
UserStops ==
  /\ worker = "up"
  /\ StopSession(loop)
  /\ UNCHANGED <<worker, scanTab>>
  /\ UNCHANGED <<vars, thread, job, inflight, body, tries, failures, tabs, bounds, past>>

\* handleRemovedTab, for a scan tab the user closes: one that the worker
\* manages takes the session with it.
ScanTabRemoved(tab) ==
  /\ worker \in {"up", "down"}
  /\ tab \in tabs
  /\ tabs' = tabs \ {tab}
  /\ scanTab' = IF scanTab = tab THEN None ELSE scanTab
  /\ IF scanTab = tab /\ live # None
     THEN StopSession(loop)
     ELSE UNCHANGED <<pending, live, accepting, stopping, loop, disk>>
  /\ UNCHANGED <<vars, worker, thread, job, inflight, body, tries, failures, bounds, past>>

-----------------------------------------------------------------------------
(* The browser kills the worker, and an event starts it again.             *)

Kill ==
  /\ worker # "down"
  /\ restarts < MaxRestarts
  /\ restarts' = restarts + 1
  /\ worker' = "down"
  /\ pending' = None /\ live' = None /\ scanTab' = None
  /\ accepting' = {}
  /\ stopping' = [x \in Secrets \cup {None} |-> "off"]
  /\ loop' = [t \in Secrets |-> "off"]
  /\ thread' = [t \in Secrets |-> None]
  /\ job' = [t \in Secrets |-> None]
  /\ inflight' = [t \in Secrets |-> None]
  /\ body' = [t \in Secrets |-> None]
  /\ tries' = [t \in Secrets |-> 0]
  /\ failures' = [t \in Secrets |-> 0]
  /\ UNCHANGED <<vars, disk, tabs, faults, past>>

\* Mutant: the command that was in flight is dispatched again.
RunAgain(t) == IF stored.inflight = None THEN "poll" ELSE "got"

\* A command that was in flight is reported, never run again.
ReportOrPoll(t) == IF stored.inflight = None THEN "poll" ELSE "reporting"

\* restoreSession, with nothing but a pending pair stored.
RestorePending ==
  /\ worker = "down"
  /\ stored = None
  /\ worker' = "up"
  /\ pending' \in {storedPending, None}
  /\ storedPending' = pending'
  /\ UNCHANGED <<vars, live, scanTab, accepting, stopping, looping, stored, tabs, bounds, past>>

\* restoreSession, with a session stored whose tabs are still there.
RestoreSession ==
  /\ worker = "down"
  /\ stored # None
  /\ stored.tab \in tabs \cup {None}
  /\ LET t == stored.token IN
       /\ live' = t
       /\ scanTab' = stored.tab
       /\ inflight' = [inflight EXCEPT ![t] = stored.inflight]
       /\ job' = [job EXCEPT ![t] = stored.inflight]
       /\ loop' = [loop EXCEPT ![t] = ReportOrPoll(t)]
       /\ body' = [body EXCEPT ![t] = IF stored.inflight = None THEN None
                                      ELSE [kind |-> "error", value |-> Restarted]]
       /\ worker' = IF stored.inflight = None THEN "up" ELSE "restoring"
  /\ storedPending' = None
  /\ UNCHANGED <<vars, pending, accepting, stopping, thread, tries, failures, stored, tabs, bounds, past>>

\* restoreSession, when the app's tab or the scan tab is gone.
RestoreGivesUp ==
  /\ worker = "down"
  /\ stored # None
  /\ worker' = "up"
  /\ stored' = None
  /\ storedPending' = None
  /\ tabs' = tabs \ {stored.tab}
  /\ Disconnect(stored.token) \/ UNCHANGED vars
  /\ UNCHANGED <<pending, live, scanTab, accepting, stopping, looping, bounds, past>>

-----------------------------------------------------------------------------
\* The app: its page, its callers, its clock and its end.
App ==
  /\ \/ \E s \in Secrets : CreatePairing(s)
     \/ PairDeadlinePasses
     \/ ExpirePairing
     \/ Close
     \/ \E q \in Polls : PollDeadlinePasses(q)
     \/ \E c \in Calls :
          \/ ExecutePrecheck(c) \/ ExecuteRefuse(c) \/ ExecuteSubmit(c) \/ ExecuteWake(c)
          \/ ExecuteReturn(c) \/ ExecuteSleep(c) \/ CommandDeadlinePasses(c) \/ Cancel(c)
  /\ UNCHANGED workerVars

\* A step of the loop of t that depends on nobody's goodwill.
LoopStep(t) ==
  \/ LoopLeaves(t) \/ PollRefused(t) \/ \E q \in Polls : PollSend(t, q)
  \/ Receive(t) \/ OpenTab(t) \/ \E tab \in Tabs : TabCreated(t, tab)
  \/ TabNotCreated(t) \/ Operate(t)
  \/ Deliver(t) \/ DeliveryExpires(t) \/ DeliveryRefused(t)

Restore == RestorePending \/ RestoreSession \/ RestoreGivesUp

LinkNext ==
  \/ App
  \/ ReceivePair \/ ForgetPending \/ Accept
  \/ \E r \in accepting : AcceptFails(r) \/ AcceptDone(r) \/ \E s \in Secrets : AcceptServed(r, s)
  \/ \E q \in Polls : PollServe(q)
  \/ \E t \in Secrets : LoopStep(t) \/ PollFails(t) \/ DeliveryLost(t) \/ StopTells(t)
  \/ \E x \in Secrets \cup {None} : StopCloses(x)
  \/ UserStops
  \/ \E tab \in Tabs : ScanTabRemoved(tab)
  \/ Kill \/ Restore

LinkSpec == LinkInit /\ [][LinkNext]_linkVars

\* The worker's thread and the bridge's run, and operations end.
FairLinkSpec ==
  /\ LinkSpec
  /\ \A t \in Secrets : WF_linkVars(LoopStep(t))
  /\ \A q \in Polls : WF_linkVars(PollServe(q))

-----------------------------------------------------------------------------
(* Properties.                                                             *)

Stages == {"off", "poll", "waiting", "got", "running", "creating", "posting", "reporting"}

LinkTypeOK ==
  /\ TypeOK
  /\ worker \in {"up", "restoring", "down"}
  /\ {pending, live, storedPending} \subseteq Secrets \cup {None}
  /\ scanTab \in Tabs \cup {None}
  /\ accepting \subseteq [code : Secrets, token : Secrets \cup {None}]
  /\ stopping \in [Secrets \cup {None} -> {"off", "disconnecting", "closing"}]
  /\ loop \in [Secrets -> Stages]
  /\ thread \in [Secrets -> Polls \cup {None}]
  /\ job \in [Secrets -> Calls \cup {None}]
  /\ inflight \in [Secrets -> Calls \cup {None}]
  /\ body \in [Secrets -> Bodies \cup {None}]
  /\ tries \in [Secrets -> 0 .. 2]
  /\ failures \in [Secrets -> 0 .. 2]
  /\ stored \in Saved \cup {None}
  /\ tabs \subseteq Tabs
  /\ restarts \in Nat
  /\ runs \in [Calls -> Nat]
  /\ did \in [Calls -> Bodies \cup {None}]

\* "A restored service worker does not replay a claimed command": whatever
\* is lost, retried or killed, a command is dispatched at most once.
RunsOnce == \A c \in Calls : runs[c] <= 1

\* A body that tells the truth about the command c.
Truthful(c, b) ==
  IF b.value = Restarted
  THEN b.kind = "error" /\ restarts > 0
  ELSE b = did[c]

\* What execute() returns as an answer is what the operation of that very
\* command came to, or the report of a restart, and then the worker was
\* restarted: retries and replays never mix up commands or outcomes.
AnswersAreTheOperations ==
  \A c \in Calls : outcome[c] \in Bodies => Truthful(c, outcome[c])

\* A kill at any moment finds the session in the storage that the worker
\* has in memory, with the command it has in flight.
StoredIsWhatIsLive ==
  worker = "up" =>
    IF live = None THEN stored = None
    ELSE /\ stored # None
         /\ stored.token = live
         /\ stored.inflight = inflight[live]

\* What the loop of t works with is there.
Executing(t) == loop[t] \in {"got", "running", "creating"}

LoopsHoldTheirCommand ==
  \A t \in Secrets :
    /\ Executing(t) \/ Delivering(t) => job[t] # None
    /\ Delivering(t) => body[t] # None

\* A killed worker leaves nothing running.
NothingRunsWhileDown ==
  worker = "down" =>
    /\ restarts > 0
    /\ live = None
    /\ accepting = {}
    /\ \A x \in Secrets \cup {None} : stopping[x] = "off"
    /\ \A t \in Secrets : loop[t] = "off"

\* A command is dispatched after it is claimed, by the one loop that has
\* it, and its outcome is written once.
EachCommandHasOneLoop ==
  /\ RunsOnce
  /\ \A c \in Calls : claims[c] = <<>> => runs[c] = 0 /\ did[c] = None
  /\ \A t \in Secrets : Executing(t) =>
       /\ claims[job[t]] # <<>>
       /\ did[job[t]] = None
       /\ loop[t] = "got" => runs[job[t]] = 0
       /\ \A u \in Secrets : Executing(u) /\ job[u] = job[t] => u = t

\* What is delivered, and what was accepted, is true.
BodiesAreTruthful ==
  /\ \A t \in Secrets : Delivering(t) => Truthful(job[t], body[t])
  /\ \A c \in Calls : answer[c] # None => Truthful(c, answer[c])

\* The inductive invariant, with the bridge's own: the safety properties
\* above follow from it.
LinkIInv ==
  /\ LinkTypeOK
  /\ LoopsHoldTheirCommand
  /\ NothingRunsWhileDown
  /\ StoredIsWhatIsLive
  /\ EachCommandHasOneLoop
  /\ BodiesAreTruthful

\* A session the bridge has revoked under the worker, because the app asked for a
\* new pairing or the bridge was closed, is given up by the worker, whatever its
\* loop is busy with and whatever was lost.  (The worker gives up a session before
\* it disconnects it itself.)
RevokedIsNoticed == \A t \in Secrets : live = t /\ token # t ~> live # t
=============================================================================

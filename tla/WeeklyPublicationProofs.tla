------------------------ MODULE WeeklyPublicationProofs ------------------------
(***************************************************************************)
(* For any jobs, bundles, leagues, limits and crashes: a staged week is    *)
(* never lost, a completed collection is whole, one cancelled in time      *)
(* publishes nothing, a result that was not shown is never pruned, and a   *)
(* bundle never moves to another league.                                   *)
(***************************************************************************)
EXTENDS WeeklyPublication, FiniteSetTheorems, TLAPS

Late == {"stage", "ingest", "attempt", "publish", "associate", "finish"}

(* What the thread of j has done when it comes to its next step.           *)
ThreadOK(j) ==
  /\ status[j] = "new" => at[j] = "none"
  /\ at[j] \in {"check"} \cup Late => result[j] \in Bundles /\ kind[j] \in Kinds
  /\ at[j] \in {"stage", "ingest"} => kind[j] # "bare"
  /\ at[j] = "stage" => attempt[j] = kind[j]
  /\ at[j] \in {"attempt", "publish", "associate", "finish"} /\ attempt[j] = "captured"
       => owner[j] \in history[result[j]]
  /\ at[j] \in {"associate", "finish"} => result[j] \in final
  /\ at[j] = "attempt" /\ kind[j] = "bare" => result[j] \in final
  /\ at[j] = "finish" /\ owner[j] # Root => owns[result[j]] = owner[j]

(* CompleteIsWhole for one job, whose thread has ended.                    *)
WholeOK(j) ==
  status[j] = "complete" =>
    /\ at[j] = "done"
    /\ result[j] \in final
    /\ owner[j] # Root => owns[result[j]] = owner[j]
    /\ attempt[j] = "captured" => owner[j] \in history[result[j]]

(* Who is cancelled early stays so, and only a late thread publishes.      *)
EarlyOK(j) ==
  /\ j \in early =>
       /\ at[j] \notin Late
       /\ status[j] \notin {"new", "complete"}
       /\ at[j] \in {"begin", "collect", "check"} => cancel[j]
       /\ \A b \in Bundles : publishedBy[b] # j
  /\ \A b \in Bundles : publishedBy[b] = j =>
       at[j] \notin {"begin", "collect", "check"} /\ status[j] # "new"

JobOK(j) == ThreadOK(j) /\ WholeOK(j) /\ EarlyOK(j)

IInv ==
  /\ TypeOK
  /\ StagedIsNeverLost
  /\ \A j \in Jobs : JobOK(j)

-----------------------------------------------------------------------------
(* What every step does to the disk, and to the jobs that do not take it.  *)

Grows ==
  /\ final \subseteq final'
  /\ \A b \in Bundles : history[b] \subseteq history'[b]
  /\ OwnershipStays

Same(k) ==
  /\ status'[k] \in {status[k], "gone"}
  /\ at'[k] = at[k] /\ owner'[k] = owner[k] /\ cancel'[k] = cancel[k]
  /\ result'[k] = result[k] /\ kind'[k] = kind[k] /\ attempt'[k] = attempt[k]
  /\ k \in early' => k \in early
  /\ \A b \in Bundles : publishedBy'[b] = k => publishedBy[b] = k

LEMMA Untouched ==
  ASSUME TypeOK, NEW k \in Jobs, JobOK(k), Grows, Same(k)
  PROVE  JobOK(k)'
<1> USE RootAssumption
<1>0. owner[k] # Root => owner[k] # None
  BY ZenonT(30) DEF TypeOK, Directories
<1>1. ThreadOK(k)'
  BY ZenonT(30), <1>0 DEF TypeOK, JobOK, ThreadOK, Grows, OwnershipStays, Same, Late
<1>2. WholeOK(k)'
  <2> SUFFICES ASSUME status'[k] = "complete" PROVE WholeOK(k)'
    BY DEF WholeOK
  <2>1. status[k] = "complete" /\ result[k] \in Bundles
    BY DEF TypeOK, JobOK, WholeOK, Same
  <2> QED BY <1>0, <2>1 DEF TypeOK, JobOK, WholeOK, Grows, OwnershipStays, Same
<1>3. EarlyOK(k)'
  BY DEF TypeOK, JobOK, EarlyOK, Same, Late
<1> QED BY <1>1, <1>2, <1>3 DEF JobOK

(* A job that ends: only its own record gets a new status.                 *)
Ended(j, hows) ==
  /\ status' \in [Jobs -> {"new", "gone"} \cup Active \cup Terminal]
  /\ status'[j] \in hows \cup {"gone"}
  /\ \A k \in Jobs \ {j} : status'[k] \in {status[k], "gone"}
  /\ at' = [at EXCEPT ![j] = "done"]
  /\ pending' = j
  /\ jobs' = jobs
  /\ owner' = owner
  /\ cancel' = cancel

LEMMA SettleEnds ==
  ASSUME TypeOK, NEW j \in Jobs, NEW how \in Terminal, NEW why, Settle(j, how, why)
  PROVE  Ended(j, {how})
<1> DEFINE ended == [status EXCEPT ![j] = how]
           Gone(k) == k \in Prune(ended)
<1>1. status' = [k \in Jobs |-> IF Gone(k) THEN "gone" ELSE ended[k]]
  BY DEF Settle
<1> HIDE DEF Gone
<1>2. \A k \in Jobs : status'[k] \in {ended[k], "gone"}
  BY <1>1
<1>3. status' \in [Jobs -> {"new", "gone"} \cup Active \cup Terminal]
  BY <1>1 DEF TypeOK
<1>4. ended \in [Jobs -> {"new", "gone"} \cup Active \cup Terminal]
      /\ ended[j] = how /\ \A k \in Jobs \ {j} : ended[k] = status[k]
  BY DEF TypeOK
<1> HIDE DEF ended
<1>5. /\ status'[j] \in {how, "gone"}
      /\ \A k \in Jobs \ {j} : status'[k] \in {status[k], "gone"}
  BY <1>2, <1>4
<1>6. /\ at' = [at EXCEPT ![j] = "done"] /\ pending' = j
      /\ jobs' = jobs /\ owner' = owner /\ cancel' = cancel
  BY DEF Settle
<1> QED BY <1>3, <1>5, <1>6 DEF Ended

LEMMA FinishErrorEnds ==
  ASSUME TypeOK, NEW j \in Jobs, NEW why, FinishError(j, why)
  PROVE  Ended(j, {"cancelled", "failed"})
<1>1. CASE cancel[j]
  BY <1>1, SettleEnds DEF FinishError, Terminal, Ended
<1>2. CASE ~cancel[j]
  BY <1>2, SettleEnds DEF FinishError, Terminal, Ended
<1> QED BY <1>1, <1>2

-----------------------------------------------------------------------------
LEMMA InitInv == Init => IInv
<1> SUFFICES ASSUME Init PROVE IInv
  OBVIOUS
<1>1. TypeOK
  BY RetainedAssumption DEF Init, TypeOK, Directories
<1>2. StagedIsNeverLost
  BY DEF Init, StagedIsNeverLost
<1>3. \A j \in Jobs : JobOK(j)
  BY RootAssumption DEF Init, JobOK, ThreadOK, WholeOK, EarlyOK, Late
<1> QED BY <1>1, <1>2, <1>3 DEF IInv

(* The invariant is kept by a step that one job's thread takes, if the     *)
(* disk only grows and the job itself is left as it has to be.             *)
LEMMA JobStep ==
  ASSUME IInv, NEW j \in Jobs, TypeOK', StagedIsNeverLost', JobOK(j)', Grows,
         \A k \in Jobs \ {j} : Same(k)
  PROVE  IInv'
<1>1. \A k \in Jobs \ {j} : JobOK(k)'
  BY Untouched DEF IInv
<1>2. \A k \in Jobs : JobOK(k)'
  BY <1>1
<1> QED BY <1>2 DEF IInv

(* A thread that ends its job leaves nothing that is called whole, and     *)
(* one that goes on has to leave what its next step relies on.             *)
LEMMA EndedOK ==
  ASSUME IInv, NEW j \in Jobs, Ended(j, {"cancelled", "failed"}), early' = early,
         \A b \in Bundles : publishedBy'[b] = j => publishedBy[b] = j \/ at[j] \in Late
  PROVE  JobOK(j)'
<1>1. at'[j] = "done" /\ status'[j] \in {"cancelled", "failed", "gone"}
  BY DEF Ended, IInv, TypeOK
<1>2. ThreadOK(j)' /\ WholeOK(j)'
  BY <1>1 DEF ThreadOK, WholeOK, Late
<1>3. EarlyOK(j)'
  BY <1>1 DEF EarlyOK, IInv, JobOK, Late
<1> QED BY <1>2, <1>3 DEF JobOK

LEMMA RunsOnOK ==
  ASSUME IInv, NEW j \in Jobs, NEW next, at' = [at EXCEPT ![j] = next],
         UNCHANGED <<status, cancel, early>>, ThreadOK(j)',
         \/ at[j] \in Late /\ next \in Late
         \/ at[j] = "check" /\ ~cancel[j] /\ next \in Late
         \/ at[j] = "collect" /\ next = "check",
         \A b \in Bundles : publishedBy'[b] = j => publishedBy[b] = j \/ at[j] \in Late
  PROVE  JobOK(j)'
<1>1. at'[j] = next /\ status'[j] \notin {"new", "complete"}
  BY DEF IInv, TypeOK, JobOK, ThreadOK, WholeOK, Late
<1>2. WholeOK(j)'
  BY <1>1 DEF WholeOK
<1>3. EarlyOK(j)'
  BY <1>1 DEF EarlyOK, IInv, JobOK, Late
<1> QED BY <1>2, <1>3 DEF JobOK

(* What the thread may rely on at each of its steps.                       *)
LEMMA Relies == IInv => TypeOK /\ StagedIsNeverLost /\ \A j \in Jobs : ThreadOK(j)
BY DEF IInv, JobOK

-----------------------------------------------------------------------------
(* One lemma per action.                                                   *)

LEMMA StartKeeps ==
  ASSUME IInv, NEW j \in Jobs, NEW d \in Directories, Start(j, d)
  PROVE  IInv'
<1> USE Relies DEF Start, process, disk, past
<1>0. jobs' \in Seq(Jobs)
  <2>1. jobs \in Seq(Jobs) /\ jobs' = Append(jobs, j)
    BY DEF TypeOK
  <2> QED BY <2>1
<1>1. TypeOK' /\ StagedIsNeverLost'
  BY <1>0 DEF TypeOK, Active, StagedIsNeverLost
<1>2. at'[j] = "begin" /\ status'[j] = "queued"
  BY DEF TypeOK
<1>3. j \notin early /\ \A b \in Bundles : publishedBy[b] # j
  BY DEF IInv, JobOK, EarlyOK
<1>4. JobOK(j)'
  BY <1>2, <1>3 DEF JobOK, ThreadOK, WholeOK, EarlyOK, Late
<1>5. \A k \in Jobs \ {j} : Same(k)
  BY DEF TypeOK, Same
<1> QED BY <1>1, <1>4, <1>5, JobStep DEF Grows, OwnershipStays

LEMMA CancelKeeps ==
  ASSUME IInv, NEW j \in Jobs, Cancel(j)
  PROVE  IInv'
<1> USE Relies DEF Cancel, process, disk, thread
<1>1. TypeOK' /\ StagedIsNeverLost'
  BY DEF TypeOK, StagedIsNeverLost
<1>2. cancel'[j] = TRUE
  BY DEF TypeOK
<1>3. ThreadOK(j) /\ WholeOK(j) /\ EarlyOK(j)
  BY DEF IInv, JobOK
<1>4. ThreadOK(j)' /\ WholeOK(j)'
  BY <1>3 DEF ThreadOK, WholeOK
<1>5. EarlyOK(j)'
  BY <1>2, <1>3 DEF EarlyOK, Late, Active
<1>6. \A k \in Jobs \ {j} : Same(k)
  BY DEF TypeOK, Same
<1> QED BY <1>1, <1>4, <1>5, <1>6, JobStep DEF JobOK, Grows, OwnershipStays

LEMMA AcknowledgeKeeps ==
  ASSUME IInv, NEW j \in Jobs, Acknowledge(j)
  PROVE  IInv'
<1> USE Relies DEF Acknowledge, process, disk, thread, past
<1>1. TypeOK' /\ StagedIsNeverLost'
  BY DEF TypeOK, StagedIsNeverLost
<1>2. \A k \in Jobs : Same(k)
  BY DEF Same
<1> QED BY <1>1, <1>2, Untouched DEF Grows, OwnershipStays, IInv

(* A thread that ends its job without touching the catalog.                *)
Leaves(j) ==
  /\ UNCHANGED <<process, result, kind, attempt, history, attempts, owns, early>>
  /\ stage' \subseteq Bundles
  /\ final \subseteq final'
  /\ final' \subseteq Bundles
  /\ staged' \subseteq Bundles
  /\ StagedIsNeverLost'
  /\ publishedBy' \in [Bundles -> Jobs \cup {None, "start"}]
  /\ \A b \in Bundles : publishedBy'[b] \in {publishedBy[b], j}
  /\ publishedBy' = publishedBy \/ at[j] \in Late

LEMMA EndKeeps ==
  ASSUME IInv, NEW j \in Jobs, Ended(j, {"cancelled", "failed"}), Leaves(j)
  PROVE  IInv'
<1> USE Relies DEF process, Leaves
<1>1. TypeOK'
  BY DEF Ended, TypeOK
<1>2. JobOK(j)'
  BY EndedOK
<1>3. \A k \in Jobs \ {j} : Same(k)
  BY DEF Ended, TypeOK, Same
<1> QED BY <1>1, <1>2, <1>3, JobStep DEF Grows, OwnershipStays

LEMMA BeginKeeps ==
  ASSUME IInv, NEW j \in Jobs, Begin(j)
  PROVE  IInv'
<1> USE Relies DEF Begin, disk, past
<1>1. CASE cancel[j]
  <2>1. Ended(j, {"cancelled", "failed"})
    BY <1>1, SettleEnds DEF Ended, Terminal
  <2>2. Leaves(j)
    BY <2>1 DEF Leaves, TypeOK, StagedIsNeverLost, process
  <2> QED BY <2>1, <2>2, EndKeeps
<1>2. CASE ~cancel[j]
  <2> USE <1>2 DEF process
  <2>1. TypeOK' /\ StagedIsNeverLost'
    BY DEF TypeOK, StagedIsNeverLost, Active
  <2>2. at'[j] = "collect" /\ status'[j] = "running"
    BY DEF TypeOK
  <2>3. j \notin early /\ \A b \in Bundles : publishedBy[b] # j
    BY DEF IInv, JobOK, EarlyOK
  <2>4. JobOK(j)'
    BY <2>2, <2>3 DEF JobOK, ThreadOK, WholeOK, EarlyOK, Late
  <2>5. \A k \in Jobs \ {j} : Same(k)
    BY DEF TypeOK, Same
  <2> QED BY <2>1, <2>4, <2>5, JobStep DEF Grows, OwnershipStays
<1> QED BY <1>1, <1>2

LEMMA CollectKeeps ==
  ASSUME IInv, NEW j \in Jobs, Collect(j)
  PROVE  IInv'
<1> USE Relies DEF Collect, disk, past
<1>1. CASE FinishError(j, "collection failed") /\ UNCHANGED <<result, kind>>
  <2>1. Ended(j, {"cancelled", "failed"})
    BY <1>1, FinishErrorEnds
  <2>2. Leaves(j)
    BY <1>1, <2>1 DEF Leaves, TypeOK, StagedIsNeverLost, process
  <2> QED BY <2>1, <2>2, EndKeeps
<1>2. ASSUME NEW b \in Bundles, NEW k \in Kinds, result' = [result EXCEPT ![j] = b],
             kind' = [kind EXCEPT ![j] = k], at' = [at EXCEPT ![j] = "check"],
             UNCHANGED records
      PROVE  IInv'
  <2> USE <1>2 DEF records, process
  <2>1. TypeOK' /\ StagedIsNeverLost'
    BY DEF TypeOK, StagedIsNeverLost
  <2>2. ThreadOK(j)'
    BY DEF TypeOK, ThreadOK, Late
  <2>3. JobOK(j)'
    BY <2>2, RunsOnOK
  <2>4. \A i \in Jobs \ {j} : Same(i)
    BY DEF TypeOK, Same
  <2> QED BY <2>1, <2>3, <2>4, JobStep DEF Grows, OwnershipStays
<1> QED BY <1>1, <1>2

LEMMA CheckKeeps ==
  ASSUME IInv, NEW j \in Jobs, Check(j)
  PROVE  IInv'
<1> USE Relies DEF Check, disk, past
<1>1. CASE Stop(j)
  <2>1. Ended(j, {"cancelled", "failed"}) /\ attempt' = attempt
    BY <1>1, SettleEnds DEF Ended, Terminal
  <2>2. Leaves(j)
    BY <2>1 DEF Leaves, TypeOK, StagedIsNeverLost, process
  <2> QED BY <2>1, <2>2, EndKeeps
<1>2. CASE ~Stop(j)
  <2> DEFINE next == IF kind[j] = "bare" THEN "publish" ELSE "stage"
  <2> USE <1>2 DEF records, process
  <2>1. kind[j] \in Kinds
    BY DEF ThreadOK
  <2>2. at' = [at EXCEPT ![j] = next] /\ attempt' = [attempt EXCEPT ![j] = kind[j]]
        /\ UNCHANGED records
    OBVIOUS
  <2>3. TypeOK' /\ StagedIsNeverLost'
    BY <2>1, <2>2 DEF TypeOK, StagedIsNeverLost
  <2>4. ThreadOK(j)'
    BY <2>1, <2>2 DEF TypeOK, ThreadOK, Late, Kinds
  <2>5. next \in Late /\ ~cancel[j]
    BY DEF Late, Stop
  <2>6. JobOK(j)'
    BY <2>2, <2>4, <2>5, RunsOnOK
  <2>7. \A k \in Jobs \ {j} : Same(k)
    BY <2>2 DEF TypeOK, Same
  <2> QED BY <2>2, <2>3, <2>6, <2>7, JobStep DEF Grows, OwnershipStays
<1> QED BY <1>1, <1>2

LEMMA StageKeeps ==
  ASSUME IInv, NEW j \in Jobs, Stage(j)
  PROVE  IInv'
<1> USE Relies DEF Stage
<1>0. result[j] \in Bundles /\ kind[j] \in Kinds \ {"bare"} /\ attempt[j] = kind[j]
  BY DEF ThreadOK, Late
<1>1. StagedIsNeverLost' /\ stage' \subseteq Bundles /\ staged' \subseteq Bundles
  BY <1>0 DEF StagedIsNeverLost, TypeOK
<1>2. CASE FinishError(j, "no new bundle was published")
  <2>1. Ended(j, {"cancelled", "failed"})
    BY <1>2, FinishErrorEnds
  <2>2. Leaves(j)
    BY <1>1 DEF Leaves, TypeOK, process
  <2> QED BY <2>1, <2>2, EndKeeps
<1>3. CASE UNCHANGED records
           /\ at' = [at EXCEPT ![j] = IF kind[j] = "captured" THEN "ingest" ELSE "attempt"]
  <2> DEFINE next == IF kind[j] = "captured" THEN "ingest" ELSE "attempt"
  <2> USE <1>3 DEF records, process
  <2>1. TypeOK'
    BY <1>1 DEF TypeOK
  <2>2. ThreadOK(j)'
    BY <1>0 DEF TypeOK, ThreadOK, Late
  <2>3. JobOK(j)'
    BY <2>2, RunsOnOK DEF Late
  <2>4. \A k \in Jobs \ {j} : Same(k)
    BY DEF TypeOK, Same
  <2> QED BY <1>1, <2>1, <2>3, <2>4, JobStep DEF Grows, OwnershipStays
<1> QED BY <1>2, <1>3

(* Binding a history to one more directory, and recording an attempt, keep *)
(* their types.                                                            *)
LEMMA OneHistory ==
  ASSUME NEW f \in [Bundles -> SUBSET Directories], NEW b \in Bundles, NEW d \in Directories
  PROVE  /\ [f EXCEPT ![b] = @ \cup {d}] \in [Bundles -> SUBSET Directories]
         /\ \A c \in Bundles : f[c] \subseteq [f EXCEPT ![b] = @ \cup {d}][c]
         /\ d \in [f EXCEPT ![b] = @ \cup {d}][b]
OBVIOUS

LEMMA OneAttempt ==
  ASSUME NEW b \in Bundles, NEW d \in Directories, NEW a \in Kinds \cup {None, "store unavailable"},
         attempts \in [Bundles -> [Directories -> Kinds \cup {None, "store unavailable"}]]
  PROVE  [attempts EXCEPT ![b][d] = a]
           \in [Bundles -> [Directories -> Kinds \cup {None, "store unavailable"}]]
<1> DEFINE A == Kinds \cup {None, "store unavailable"}
<1>0. attempts \in [Bundles -> [Directories -> A]] /\ a \in A
  OBVIOUS
<1> HIDE DEF A
<1>1. [attempts[b] EXCEPT ![d] = a] \in [Directories -> A]
  BY <1>0
<1>2. [attempts EXCEPT ![b][d] = a] \in [Bundles -> [Directories -> A]]
  BY <1>0, <1>1
<1> QED BY <1>2 DEF A

LEMMA IngestKeeps ==
  ASSUME IInv, NEW j \in Jobs, Ingest(j)
  PROVE  IInv'
<1> USE Relies
<1>0. result[j] \in Bundles /\ kind[j] \in Kinds /\ owner[j] \in Directories /\ kind[j] # "bare"
  BY DEF Ingest, ThreadOK, Late, TypeOK
<1>1. history \in [Bundles -> SUBSET Directories] /\ history' \in [Bundles -> SUBSET Directories]
      /\ \A b \in Bundles : history[b] \subseteq history'[b]
  <2>1. history \in [Bundles -> SUBSET Directories]
    BY DEF TypeOK
  <2>2. history' \in {history, [history EXCEPT ![result[j]] = @ \cup {owner[j]}]}
    BY DEF Ingest
  <2> QED BY <1>0, <2>1, <2>2, OneHistory
<1>2. attempt'[j] = "captured" => owner[j] \in history'[result[j]]
  <2>1. CASE history' = [history EXCEPT ![result[j]] = @ \cup {owner[j]}]
    BY <1>0, <1>1, <2>1, OneHistory
  <2>2. CASE AttemptUnavailable(j)
    BY <2>2 DEF AttemptUnavailable, TypeOK
  <2> QED BY <2>1, <2>2 DEF Ingest
<1> USE DEF Ingest, process, records, past, AttemptUnavailable
<1>3. TypeOK' /\ StagedIsNeverLost'
  BY <1>1 DEF TypeOK, StagedIsNeverLost
<1>4. ThreadOK(j)'
  BY <1>0, <1>2 DEF TypeOK, ThreadOK, Late
<1>5. JobOK(j)'
  BY <1>4, RunsOnOK DEF Late
<1>6. \A k \in Jobs \ {j} : Same(k)
  BY DEF TypeOK, Same
<1> QED BY <1>1, <1>3, <1>5, <1>6, JobStep DEF Grows, OwnershipStays

LEMMA SaveAttemptKeeps ==
  ASSUME IInv, NEW j \in Jobs, SaveAttempt(j)
  PROVE  IInv'
<1> DEFINE next == IF kind[j] = "bare" THEN "associate" ELSE "publish"
<1> USE Relies
<1>0. result[j] \in Bundles /\ kind[j] \in Kinds /\ owner[j] \in Directories
  BY DEF SaveAttempt, ThreadOK, Late, TypeOK
<1>1. attempts' \in [Bundles -> [Directories -> Kinds \cup {None, "store unavailable"}]]
  <2>1. attempts' \in {attempts, [attempts EXCEPT ![result[j]][owner[j]] = attempt[j]]}
    BY DEF SaveAttempt
  <2>2. attempts \in [Bundles -> [Directories -> Kinds \cup {None, "store unavailable"}]]
        /\ attempt[j] \in Kinds \cup {None, "store unavailable"}
    BY DEF TypeOK
  <2>3. [attempts EXCEPT ![result[j]][owner[j]] = attempt[j]]
          \in [Bundles -> [Directories -> Kinds \cup {None, "store unavailable"}]]
    BY <1>0, <2>2, OneAttempt
  <2> QED BY <2>1, <2>2, <2>3
<1> USE DEF SaveAttempt, process, records, past
<1>2. TypeOK' /\ StagedIsNeverLost'
  BY <1>1 DEF TypeOK, StagedIsNeverLost
<1>3. ThreadOK(j)'
  BY <1>0 DEF TypeOK, ThreadOK, Late
<1>4. JobOK(j)'
  BY <1>3, RunsOnOK DEF Late
<1>5. \A k \in Jobs \ {j} : Same(k)
  BY DEF TypeOK, Same
<1> QED BY <1>2, <1>4, <1>5, JobStep DEF Grows, OwnershipStays

LEMMA PublishKeeps ==
  ASSUME IInv, NEW j \in Jobs, Publish(j)
  PROVE  IInv'
<1> USE Relies DEF Publish
<1>0. result[j] \in Bundles /\ kind[j] \in Kinds /\ at[j] \in Late
  BY DEF ThreadOK, Late, TypeOK
<1>1. /\ final \subseteq final' /\ final' \subseteq Bundles /\ stage' \subseteq Bundles
      /\ StagedIsNeverLost'
  <2>1. /\ final' \in {final, final \cup {result[j]}}
        /\ stage' \in {stage, stage \ {result[j]}}
        /\ staged' = staged
        /\ stage' # stage => result[j] \in final'
    BY DEF PublishBundle
  <2>2. final \subseteq final' /\ final' \subseteq Bundles /\ stage' \subseteq Bundles
    BY <1>0, <2>1 DEF TypeOK
  <2> QED
    BY <2>1, <2>2 DEF StagedIsNeverLost
<1>2. /\ publishedBy' \in [Bundles -> Jobs \cup {None, "start"}]
      /\ \A b \in Bundles : publishedBy'[b] \in {publishedBy[b], j}
  BY DEF TypeOK
<1>3. CASE FinishError(j, "no new bundle was published")
  <2>1. Ended(j, {"cancelled", "failed"})
    BY <1>3, FinishErrorEnds
  <2>2. Leaves(j)
    BY <1>0, <1>1, <1>2 DEF Leaves, TypeOK, process
  <2> QED BY <2>1, <2>2, EndKeeps
<1>4. CASE /\ UNCHANGED records
           /\ final' = final \cup {result[j]}
           /\ at' = [at EXCEPT ![j] = IF kind[j] = "bare" THEN "attempt" ELSE "associate"]
  <2> USE <1>4 DEF records, process
  <2>1. TypeOK'
    BY <1>1, <1>2 DEF TypeOK
  <2>2. ThreadOK(j)'
    BY <1>0 DEF TypeOK, ThreadOK, Late
  <2>3. JobOK(j)'
    BY <1>0, <1>2, <2>2, RunsOnOK DEF Late
  <2>4. \A k \in Jobs \ {j} : Same(k)
    BY <1>2 DEF TypeOK, Same
  <2> QED BY <1>1, <2>1, <2>3, <2>4, JobStep DEF Grows, OwnershipStays
<1> QED BY <1>3, <1>4 DEF PublishBundle

LEMMA AssociateKeeps ==
  ASSUME IInv, NEW j \in Jobs, Associate(j)
  PROVE  IInv'
<1> USE Relies DEF Associate, past
<1>0. result[j] \in Bundles /\ kind[j] \in Kinds /\ owner[j] \in Directories
  BY DEF ThreadOK, Late, TypeOK
<1>1. CASE Settle(j, "failed", "saved under unassigned imports") /\ UNCHANGED owns
  <2>1. Ended(j, {"cancelled", "failed"})
    BY <1>1, SettleEnds DEF Ended, Terminal
  <2>2. Leaves(j)
    BY <1>1 DEF Leaves, TypeOK, StagedIsNeverLost, process
  <2> QED BY <2>1, <2>2, EndKeeps
<1>2. CASE /\ at' = [at EXCEPT ![j] = "finish"]
           /\ UNCHANGED records
           /\ \/ Leagueless(j) /\ UNCHANGED owns
              \/ /\ ~Leagueless(j)
                 /\ MayOwn(owner[j], result[j])
                 /\ owns' = [owns EXCEPT ![result[j]] = owner[j]]
  <2> USE <1>0, <1>2 DEF records, process
  <2>1. owns' \in [Bundles -> Profiles \cup {None}] /\ OwnershipStays
    BY DEF TypeOK, OwnershipStays, MayOwn, Leagueless, Directories
  <2>2. TypeOK' /\ StagedIsNeverLost'
    BY <2>1 DEF TypeOK, StagedIsNeverLost
  <2>3. owner[j] # Root => owns'[result[j]] = owner[j]
    BY DEF TypeOK, Leagueless
  <2>4. ThreadOK(j)'
    BY <2>3 DEF TypeOK, ThreadOK, Late
  <2>5. JobOK(j)'
    BY <2>4, RunsOnOK DEF Late
  <2>6. \A k \in Jobs \ {j} : Same(k)
    BY DEF TypeOK, Same
  <2> QED BY <2>1, <2>2, <2>5, <2>6, JobStep DEF Grows
<1> QED BY <1>1, <1>2

LEMMA FinishKeeps ==
  ASSUME IInv, NEW j \in Jobs, Finish(j)
  PROVE  IInv'
<1> USE Relies DEF Finish, disk, past
<1>1. Ended(j, {"complete"})
  BY SettleEnds DEF Terminal
<1>2. TypeOK' /\ StagedIsNeverLost'
  BY <1>1 DEF Ended, TypeOK, StagedIsNeverLost, process
<1>3. at'[j] = "done" /\ status'[j] \in {"complete", "gone"}
  BY <1>1 DEF Ended, TypeOK
<1>4. ThreadOK(j)'
  BY <1>3 DEF ThreadOK, Late
<1>5. WholeOK(j)'
  BY <1>1, <1>3 DEF Ended, ThreadOK, WholeOK
<1>6. EarlyOK(j)'
  BY <1>3 DEF IInv, JobOK, EarlyOK, Late
<1>7. \A k \in Jobs \ {j} : Same(k)
  BY <1>1 DEF Ended, TypeOK, Same
<1> QED BY <1>2, <1>4, <1>5, <1>6, <1>7, JobStep DEF JobOK, Grows, OwnershipStays

(* The user and the start of the process leave every thread as it is.      *)
LEMMA DiskStep ==
  ASSUME IInv, TypeOK', StagedIsNeverLost', Grows, UNCHANGED <<records, thread, early>>,
         \A b \in Bundles : publishedBy'[b] \in {publishedBy[b], "start"}
  PROVE  IInv'
<1>1. \A k \in Jobs : Same(k)
  BY JobAssumption DEF Same, records, thread
<1> QED BY <1>1, Untouched DEF IInv

LEMMA ImportKeeps ==
  ASSUME IInv, NEW b \in Bundles, NEW d \in Directories, Import(b, d)
  PROVE  IInv'
<1> USE Relies DEF Import, process, past
<1>1. owns' \in [Bundles -> Profiles \cup {None}]
  BY ZenonT(30) DEF TypeOK, Directories
<1>2. TypeOK' /\ StagedIsNeverLost'
  BY <1>1 DEF TypeOK, StagedIsNeverLost, records, thread
<1>3. OwnershipStays
  BY DEF TypeOK, OwnershipStays, MayOwn
<1> QED BY <1>2, <1>3, DiskStep DEF Grows

LEMMA AssignKeeps ==
  ASSUME IInv, NEW p \in Profiles, NEW b \in Bundles, Assign(p, b)
  PROVE  IInv'
<1> USE Relies
<1>0. p \in Directories /\ Root \in Directories
  BY DEF Directories
<1>1. history' \in [Bundles -> SUBSET Directories] /\ \A c \in Bundles : history[c] \subseteq history'[c]
  <2>1. history \in [Bundles -> SUBSET Directories]
    BY DEF TypeOK
  <2>2. history' \in {history, [history EXCEPT ![b] = IF Root \in @ THEN @ \cup {p} ELSE @]}
    BY DEF Assign
  <2> QED BY <1>0, <2>1, <2>2
<1>2. attempts' \in [Bundles -> [Directories -> Kinds \cup {None, "store unavailable"}]]
  <2>1. attempts' \in {attempts, [attempts EXCEPT ![b][p] = attempts[b][Root]]}
    BY DEF Assign
  <2>2. attempts \in [Bundles -> [Directories -> Kinds \cup {None, "store unavailable"}]]
    BY DEF TypeOK
  <2>3. attempts[b][Root] \in Kinds \cup {None, "store unavailable"}
    BY <1>0, <2>2
  <2>4. [attempts EXCEPT ![b][p] = attempts[b][Root]]
          \in [Bundles -> [Directories -> Kinds \cup {None, "store unavailable"}]]
    BY <1>0, <2>2, <2>3, OneAttempt
  <2> QED BY <2>1, <2>2, <2>4
<1> USE DEF Assign, process, past
<1>3. owns' \in [Bundles -> Profiles \cup {None}] /\ OwnershipStays
  <2>1. owns' \in {owns, [owns EXCEPT ![b] = p]} /\ owns[b] \in {None, p}
    BY DEF MayOwn
  <2>2. owns \in [Bundles -> Profiles \cup {None}]
    BY DEF TypeOK
  <2> HIDE DEF Assign
  <2> QED BY <2>1, <2>2 DEF OwnershipStays
<1>4. TypeOK' /\ StagedIsNeverLost'
  BY <1>1, <1>2, <1>3 DEF TypeOK, StagedIsNeverLost, records, thread
<1> QED BY <1>1, <1>3, <1>4, DiskStep DEF Grows

LEMMA CrashKeeps ==
  ASSUME IInv, Crash
  PROVE  IInv'
<1> USE Relies
<1>0. crashes' \in 0 .. MaxCrashes
  <2>1. crashes \in 0 .. MaxCrashes /\ crashes < MaxCrashes /\ crashes' = crashes + 1
    BY DEF TypeOK, Crash
  <2> QED BY <2>1, RetainedAssumption
<1> USE DEF Crash, disk, past
<1>4. jobs' \in Seq(Jobs)
  OBVIOUS
<1>1. TypeOK' /\ StagedIsNeverLost'
  BY <1>0, <1>4 DEF TypeOK, StagedIsNeverLost, Directories
<1>2. \A j \in Jobs : ThreadOK(j)' /\ WholeOK(j)'
  BY DEF TypeOK, ThreadOK, WholeOK, Late
<1>3. \A j \in Jobs : EarlyOK(j)'
  BY DEF TypeOK, IInv, JobOK, EarlyOK, Late
<1> QED BY <1>1, <1>2, <1>3 DEF IInv, JobOK

LEMMA RecoverKeeps ==
  ASSUME IInv, NEW b \in Bundles, Recover(b)
  PROVE  IInv'
<1> USE Relies DEF Recover
<1>1. TypeOK' /\ StagedIsNeverLost'
  BY DEF TypeOK, StagedIsNeverLost, records, thread
<1>2. \A c \in Bundles : publishedBy'[c] \in {publishedBy[c], "start"}
  BY DEF TypeOK
<1> QED BY <1>1, <1>2, DiskStep DEF Grows, OwnershipStays

LEMMA StepInv == IInv /\ [Next]_vars => IInv'
<1> SUFFICES ASSUME IInv, [Next]_vars PROVE IInv'
  OBVIOUS
<1> USE Relies
<1>1. ASSUME NEW j \in Jobs, NEW d \in Directories, Start(j, d) PROVE IInv'
  BY <1>1, StartKeeps
<1>2. ASSUME NEW j \in Jobs, Cancel(j) \/ Acknowledge(j) \/ Run(j) PROVE IInv'
  BY <1>2, CancelKeeps, AcknowledgeKeeps, BeginKeeps, CollectKeeps, CheckKeeps, StageKeeps,
     IngestKeeps, SaveAttemptKeeps, PublishKeeps, AssociateKeeps, FinishKeeps DEF Run
<1>3. ASSUME NEW b \in Bundles, NEW d \in Directories, Import(b, d) PROVE IInv'
  BY <1>3, ImportKeeps
<1>4. ASSUME NEW p \in Profiles, NEW b \in Bundles, Assign(p, b) PROVE IInv'
  BY <1>4, AssignKeeps
<1>5. CASE Crash
  BY <1>5, CrashKeeps
<1>6. ASSUME NEW b \in Bundles, Recover(b) PROVE IInv'
  BY <1>6, RecoverKeeps
<1>7. CASE Recovered \/ UNCHANGED vars
  <2>1. UNCHANGED <<records, thread, disk, past, unrecovered, crashes>> /\ up' \in BOOLEAN
    BY <1>7 DEF Recovered, vars, process, TypeOK
  <2>2. TypeOK' /\ StagedIsNeverLost'
    BY <2>1 DEF TypeOK, StagedIsNeverLost, records, thread, disk, past
  <2> QED BY <2>1, <2>2, DiskStep DEF Grows, OwnershipStays, disk, past
<1> QED BY <1>1, <1>2, <1>3, <1>4, <1>5, <1>6, <1>7 DEF Next

-----------------------------------------------------------------------------
(* The records of the jobs.                                                *)

Working(j) == at[j] \notin {"none", "done"}

(* One collection at a time, and it is the newest; what is pending ended   *)
(* after every other.                                                      *)
RecordsOK ==
  /\ \A i, k \in 1 .. Len(jobs) : jobs[i] = jobs[k] => i = k
  /\ \A i \in 1 .. Len(jobs) : status[jobs[i]] # "new"
  /\ \A j \in Jobs : status[j] \in Active => Len(jobs) > 0 /\ jobs[Len(jobs)] = j
  /\ \A j \in Jobs : Working(j) => status[j] \in Active
  /\ pending # None => pending \in Jobs /\ status[pending] \in Terminal
                         /\ \A j \in Jobs : status[j] \notin Active

(* Pruning does not take the record of the newest job.                     *)
LEMMA NewestStays ==
  ASSUME TypeOK, RecordsOK, NEW j \in Jobs, status[j] \in Active, NEW st
  PROVE  j \notin Prune(st)
<1> SUFFICES ASSUME j \in Prune(st) PROVE FALSE
  OBVIOUS
<1> DEFINE Newer(i) == {k \in i + 1 .. Len(jobs) : st[jobs[k]] \in Terminal}
<1>0. jobs \in Seq(Jobs)
  BY DEF TypeOK
<1>1. PICK i \in DOMAIN jobs : jobs[i] = j /\ Cardinality(Newer(i)) >= MaxRetained
  BY DEF Prune
<1>2. Len(jobs) \in Nat /\ Len(jobs) > 0 /\ jobs[Len(jobs)] = j /\ i \in 1 .. Len(jobs)
  BY <1>0 DEF RecordsOK
<1>3. i = Len(jobs)
  BY <1>1, <1>2 DEF RecordsOK
<1>4. Newer(i) = {}
  BY <1>2, <1>3
<1> HIDE DEF Newer
<1>5. Cardinality(Newer(i)) = 0
  BY <1>4, FS_EmptySet
<1> QED BY <1>1, <1>5, RetainedAssumption

LEMMA SettleRecords ==
  ASSUME TypeOK, RecordsOK, NEW j \in Jobs, Working(j), NEW how \in Terminal, NEW why,
         Settle(j, how, why)
  PROVE  RecordsOK'
<1> DEFINE ended == [status EXCEPT ![j] = how]
<1>1. status[j] \in Active
  BY DEF RecordsOK
<1>2. \A k \in Jobs \ {j} : status[k] \notin Active
  BY <1>1 DEF RecordsOK
<1>3. /\ status' = [k \in Jobs |-> IF k \in Prune(ended) THEN "gone" ELSE ended[k]]
      /\ pending' = j /\ at' = [at EXCEPT ![j] = "done"] /\ jobs' = jobs
  BY DEF Settle
<1>4. ended[j] = how /\ \A k \in Jobs \ {j} : ended[k] = status[k]
  BY DEF TypeOK
<1>5. j \notin Prune(ended)
  BY <1>1, NewestStays
<1> HIDE DEF ended
<1>6. status'[j] = how /\ \A k \in Jobs \ {j} : status'[k] \in {status[k], "gone"}
  BY <1>3, <1>4, <1>5
<1>7. \A k \in Jobs : status'[k] \notin Active /\ (status[k] # "new" => status'[k] # "new")
  BY <1>2, <1>6 DEF Active, Terminal
<1>8. \A k \in Jobs : ~Working(k)'
  <2>1. \A k \in Jobs \ {j} : ~Working(k)
    BY <1>2 DEF RecordsOK
  <2> QED BY <1>3, <2>1 DEF TypeOK, Working
<1>9. \A i \in 1 .. Len(jobs) : jobs[i] \in Jobs
  <2>1. jobs \in Seq(Jobs)
    BY DEF TypeOK
  <2> QED BY <2>1
<1> QED BY <1>3, <1>6, <1>7, <1>8, <1>9 DEF RecordsOK

LEMMA FinishErrorRecords ==
  ASSUME TypeOK, RecordsOK, NEW j \in Jobs, Working(j), NEW why, FinishError(j, why)
  PROVE  RecordsOK'
BY SettleRecords DEF FinishError, Terminal

(* The thread goes on.                                                     *)
LEMMA GoOnRecords ==
  ASSUME TypeOK, RecordsOK, NEW j \in Jobs, Working(j), NEW next, at' = [at EXCEPT ![j] = next],
         status' = status \/ status' = [status EXCEPT ![j] = "running"],
         UNCHANGED <<jobs, pending>>
  PROVE  RecordsOK'
<1>1. status[j] \in Active
  BY DEF RecordsOK
<1>2. /\ \A k \in Jobs : Working(k)' => Working(k)
      /\ \A k \in Jobs : status'[k] \in Active <=> status[k] \in Active
      /\ \A k \in Jobs : status[k] # "new" => status'[k] # "new"
  BY <1>1 DEF TypeOK, Working, Active
<1>3. pending' = None
  BY <1>1 DEF RecordsOK
<1>4. \A i \in 1 .. Len(jobs) : jobs[i] \in Jobs
  <2>1. jobs \in Seq(Jobs)
    BY DEF TypeOK
  <2> QED BY <2>1
<1> QED BY <1>2, <1>3, <1>4 DEF RecordsOK

LEMMA RunRecords ==
  ASSUME TypeOK, RecordsOK, NEW j \in Jobs, Run(j)
  PROVE  RecordsOK'
<1>1. Working(j)
  BY DEF Run, Begin, Collect, Check, Stage, Ingest, SaveAttempt, Publish, Associate, Finish, Working
<1>2. CASE (\E why : \E how \in Terminal : Settle(j, how, why)) \/ \E why : FinishError(j, why)
  BY <1>1, <1>2, SettleRecords, FinishErrorRecords
<1>3. CASE /\ \E next : at' = [at EXCEPT ![j] = next]
           /\ status' = status \/ status' = [status EXCEPT ![j] = "running"]
           /\ UNCHANGED <<jobs, pending>>
  BY <1>1, <1>3, GoOnRecords
<1>4. CASE Begin(j) \/ Check(j) \/ Finish(j) \/ Associate(j)
  BY <1>2, <1>3, <1>4 DEF Begin, Check, Finish, Associate, records, Terminal
<1>5. CASE Collect(j) \/ Stage(j) \/ Publish(j)
  BY <1>2, <1>3, <1>5 DEF Collect, Stage, Publish, PublishBundle, records
<1>6. CASE Ingest(j) \/ SaveAttempt(j)
  BY <1>3, <1>6 DEF Ingest, SaveAttempt, records
<1> QED BY <1>4, <1>5, <1>6 DEF Run

LEMMA StartRecords ==
  ASSUME TypeOK, RecordsOK, NEW j \in Jobs, NEW d, Start(j, d)
  PROVE  RecordsOK'
<1>1. /\ status[j] = "new" /\ \A k \in Jobs : status[k] \notin Active
      /\ jobs' = Append(jobs, j) /\ status' = [status EXCEPT ![j] = "queued"]
      /\ pending' = None /\ at' = [at EXCEPT ![j] = "begin"]
  BY DEF Start
<1>2. /\ Len(jobs) \in Nat /\ Len(jobs') = Len(jobs) + 1 /\ jobs'[Len(jobs) + 1] = j
      /\ \A i \in 1 .. Len(jobs) : jobs'[i] = jobs[i] /\ jobs[i] \in Jobs /\ jobs[i] # j
  <2>1. jobs \in Seq(Jobs)
    BY DEF TypeOK
  <2>2. \A i \in 1 .. Len(jobs) : jobs[i] # j
    BY <1>1 DEF RecordsOK
  <2> QED BY <1>1, <2>1, <2>2
<1>3. status'[j] = "queued" /\ \A k \in Jobs \ {j} : status'[k] = status[k] /\ at'[k] = at[k]
  BY <1>1 DEF TypeOK
<1>4. \A k \in Jobs \ {j} : ~Working(k)'
  BY <1>1, <1>3 DEF RecordsOK, Working
<1>5. \A i, k \in 1 .. Len(jobs') : jobs'[i] = jobs'[k] => i = k
  BY <1>2 DEF RecordsOK
<1>6. \A i \in 1 .. Len(jobs') : status'[jobs'[i]] # "new"
  <2> SUFFICES ASSUME NEW i \in 1 .. Len(jobs') PROVE status'[jobs'[i]] # "new"
    OBVIOUS
  <2>1. CASE i = Len(jobs) + 1
    BY <1>2, <1>3, <2>1
  <2>2. CASE i \in 1 .. Len(jobs)
    BY <1>2, <1>3, <2>2 DEF RecordsOK
  <2> QED BY <1>2, <2>1, <2>2
<1> QED BY <1>1, <1>2, <1>3, <1>4, <1>5, <1>6 DEF RecordsOK, Active

LEMMA RecordsStep == IInv /\ RecordsOK /\ [Next]_vars => RecordsOK'
<1> SUFFICES ASSUME IInv, RecordsOK, [Next]_vars PROVE RecordsOK'
  OBVIOUS
<1> USE Relies
<1>1. ASSUME NEW j \in Jobs, NEW d \in Directories, Start(j, d) PROVE RecordsOK'
  BY <1>1, StartRecords
<1>2. ASSUME NEW j \in Jobs, Run(j) PROVE RecordsOK'
  BY <1>2, RunRecords
<1>3. CASE UNCHANGED <<jobs, status, at>> /\ pending' \in {pending, None}
  BY <1>3 DEF RecordsOK, Working
<1>4. ASSUME NEW j \in Jobs, Cancel(j) \/ Acknowledge(j) PROVE RecordsOK'
  BY <1>3, <1>4 DEF Cancel, Acknowledge, thread
<1>5. CASE Crash
  <2>1. /\ jobs' = <<>> /\ pending' = None
        /\ \A j \in Jobs : status'[j] \in {"new", "gone"} /\ at'[j] = "none"
    BY <1>5 DEF Crash
  <2> QED BY <2>1 DEF RecordsOK, Active, Working
<1>6. CASE \/ \E b \in Bundles, d \in Directories : Import(b, d)
           \/ \E p \in Profiles, b \in Bundles : Assign(p, b)
           \/ \E b \in Bundles : Recover(b)
           \/ Recovered \/ UNCHANGED vars
  BY <1>3, <1>6 DEF Import, Assign, Recover, Recovered, vars, records, thread
<1> QED BY <1>1, <1>2, <1>4, <1>5, <1>6 DEF Next

-----------------------------------------------------------------------------
LEMMA Invariant == Spec => []IInv
<1>1. Init => IInv
  BY InitInv
<1>2. IInv /\ [Next]_vars => IInv'
  BY StepInv
<1> QED BY <1>1, <1>2, PTL DEF Spec

(* Every variable keeps its type, through failing writes and crashes.      *)
THEOREM CollectionsAreTyped == Spec => []TypeOK
<1>1. IInv => TypeOK
  BY DEF IInv
<1> QED BY <1>1, Invariant, PTL

(* A staged week is in the staging or in the bundle directory for good.    *)
THEOREM NoWeekIsLost == Spec => []StagedIsNeverLost
<1>1. IInv => StagedIsNeverLost
  BY DEF IInv
<1> QED BY <1>1, Invariant, PTL

(* A job that reports complete left its bundle visible, in its league and  *)
(* with the history it speaks of, whatever else the user did meanwhile.    *)
THEOREM CompleteJobsAreWhole == Spec => []CompleteIsWhole
<1>1. IInv => CompleteIsWhole
  BY DEF IInv, JobOK, WholeOK, CompleteIsWhole
<1> QED BY <1>1, Invariant, PTL

(* A job that was cancelled before it began to publish publishes nothing.  *)
THEOREM EarlyCancelsPublishNothing == Spec => []CancelledInTimePublishesNothing
<1>1. IInv => CancelledInTimePublishesNothing
  BY DEF IInv, TypeOK, JobOK, EarlyOK, CancelledInTimePublishesNothing, Late
<1> QED BY <1>1, Invariant, PTL

(* What the page was not shown is never pruned, and neither is the record  *)
(* of the one collection that is at work.                                  *)
THEOREM ResultsAreRecoverable == Spec => []PendingIsRecoverable
<1>1. Init => RecordsOK
  BY DEF Init, RecordsOK, Active, Working
<1>2. IInv /\ RecordsOK /\ [Next]_vars => RecordsOK'
  BY RecordsStep
<1>3. RecordsOK => PendingIsRecoverable
  <2> SUFFICES ASSUME RecordsOK PROVE PendingIsRecoverable
    OBVIOUS
  <2>1. pending # None => pending \in Recoverable
    BY DEF RecordsOK, Recoverable
  <2>2. ASSUME NEW j \in Jobs, at[j] \notin {"none", "done"} PROVE Recoverable = {j}
    <3>1. status[j] \in Active /\ pending = None
      BY <2>2 DEF RecordsOK, Working
    <3>2. \A k \in Jobs \ {j} : status[k] \notin Active
      BY <3>1 DEF RecordsOK
    <3>3. None \notin Jobs
      BY RootAssumption
    <3> QED BY <3>1, <3>2, <3>3 DEF Recoverable
  <2> QED BY <2>1, <2>2 DEF PendingIsRecoverable
<1> QED BY <1>1, <1>2, <1>3, Invariant, PTL DEF Spec

(* A bundle stays with the league that owns it, through every import,      *)
(* assignment and publication.                                             *)
THEOREM OwnershipIsForGood == Spec => OwnershipIsFinal
<1>1. IInv /\ [Next]_vars => [OwnershipStays]_vars
  <2> SUFFICES ASSUME IInv, Next PROVE OwnershipStays
    BY DEF vars
  <2> USE RootAssumption DEF IInv, TypeOK, OwnershipStays, disk
  <2>1. ASSUME NEW j \in Jobs, NEW d \in Directories, Start(j, d) PROVE OwnershipStays
    BY <2>1 DEF Start
  <2>2. ASSUME NEW j \in Jobs, Cancel(j) \/ Acknowledge(j) \/ Run(j) PROVE OwnershipStays
    <3>1. CASE Associate(j)
      BY <3>1 DEF Associate, MayOwn
    <3>2. CASE ~Associate(j)
      BY <2>2, <3>2 DEF Cancel, Acknowledge, Run, Begin, Collect, Check, Stage, Ingest,
                        SaveAttempt, Publish, Finish
    <3> QED BY <3>1, <3>2
  <2>3. ASSUME NEW b \in Bundles, NEW d \in Directories, Import(b, d) PROVE OwnershipStays
    BY ZenonT(30), <2>3 DEF Import, MayOwn
  <2>4. ASSUME NEW p \in Profiles, NEW b \in Bundles, Assign(p, b) PROVE OwnershipStays
    <3>1. owns' \in {owns, [owns EXCEPT ![b] = p]} /\ owns[b] \in {None, p}
      BY <2>4 DEF Assign, MayOwn
    <3> QED BY <3>1
  <2>5. CASE Crash \/ Recovered
    BY <2>5 DEF Crash, Recovered
  <2>6. ASSUME NEW b \in Bundles, Recover(b) PROVE OwnershipStays
    BY <2>6 DEF Recover
  <2> QED BY <2>1, <2>2, <2>3, <2>4, <2>5, <2>6 DEF Next
<1> QED BY <1>1, Invariant, PTL DEF Spec, OwnershipIsFinal
=============================================================================

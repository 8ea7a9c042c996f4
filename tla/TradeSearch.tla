----------------------------- MODULE TradeSearch -----------------------------
(***************************************************************************)
(* The resumable trade search: one SQLite store per pair of teams          *)
(* (search_store.py) or per three-team request (three_way_search_store.py),*)
(* the loops that fill them (search_runner.py, three_way_search.py), the   *)
(* league search that runs the pairs one after another (league_search.py)  *)
(* and the job of the application around it (app_service.py).              *)
(*                                                                         *)
(* A candidate is its index in the exact candidate order; what evaluating  *)
(* one finds is fixed by the run definition the store is bound to, so it   *)
(* is a constant here: the indexes that qualify, and those of them where   *)
(* every side gains.  A store's file name carries the request, so a store  *)
(* is never opened for another run.  Several processes may search at once; *)
(* each may die at any moment, and any step may raise.  A transaction of   *)
(* SQLite is one step, and so is each statement outside one: Python's      *)
(* sqlite3 opens a transaction for an INSERT or UPDATE, not for CREATE     *)
(* TABLE, ALTER TABLE or PRAGMA.                                           *)
(***************************************************************************)
EXTENDS Integers, Sequences, FiniteSets, Folds, Functions

CONSTANTS
  Processes,           \* application processes, each with one search job at a time
  Pairs,               \* the stores of team pairs
  ThreeWays,           \* the stores of three-team requests
  Requests,            \* what a job may search: its stores, in order
  Total,               \* per store, run_definition.total_candidate_count
  Qualified,           \* per store, the indexes that pass _power_qualifies
  Gains,               \* per store, those of them where every side gains
  CheckpointInterval,  \* settings.checkpoint_interval
  MaxBatch,            \* MAX_QUALIFIED_RESULT_BATCH_SIZE
  MaxStarts,           \* bound on the jobs started
  Nobody

Databases == Pairs \cup ThreeWays

ASSUME CandidateAssumption ==
  /\ Total \in [Databases -> Nat]
  /\ \A d \in Databases : Gains[d] \subseteq Qualified[d] /\ Qualified[d] \subseteq 0 .. Total[d] - 1
ASSUME RequestAssumption ==
  \A q \in Requests : q \in Seq(Databases) /\ Len(q) > 0
ASSUME SettingsAssumption ==
  CheckpointInterval \in Nat \ {0} /\ MaxBatch \in Nat \ {0} /\ MaxStarts \in Nat
ASSUME NobodyAssumption == Nobody \notin Processes

VARIABLES
  pc,          \* where the job's thread is
  plan,        \* the stores of its request
  at,          \* the one it is at
  cancel,      \* job.cancel
  before,      \* examined_before, qualified_before, mutual_before
  reported,    \* the examined count job.timing last observed
  loop,        \* the local variables of run()
  writer,      \* the process that holds the store's ExclusiveWriterLock
  stage,       \* disk: which tables, columns and rows of the schema exist
  checkpoint,  \* disk: search_run.next_candidate_index
  rows,        \* disk: the candidate indexes in qualified_result
  views,       \* the outcomes each process holds, and the rows they showed
  starts       \* how many jobs were started

job == <<plan, at, cancel, before, reported>>
disk == <<stage, checkpoint, rows>>
vars == <<pc, job, loop, writer, disk, views, starts>>

Ended == {"idle", "complete", "cancelled", "failed", "inconsistent"}
Opening == {"create", "alter", "bind", "resume"}
Searching == {"search", "flush", "verify"}
Active == {"prepare", "open"} \cup Opening \cup Searching

Stages == {"empty", "run_table", "both_tables", "versioned", "bound", "v1", "v1_altered"}

Db(p) == plan[p][at[p]]

Below(d, index) == {i \in Qualified[d] : i < index}

NotSearching == [next |-> 0, pending |-> {}, qualified |-> 0, gains |-> 0, cancelled |-> FALSE]
NothingBefore == [examined |-> 0, qualified |-> 0, gains |-> 0]

\* A store is new, or was written by schema version 1 and left at some checkpoint.
Init ==
  /\ pc = [p \in Processes |-> "idle"]
  /\ plan = [p \in Processes |-> <<>>]
  /\ at = [p \in Processes |-> 0]
  /\ cancel = [p \in Processes |-> FALSE]
  /\ before = [p \in Processes |-> NothingBefore]
  /\ reported = [p \in Processes |-> 0]
  /\ loop = [p \in Processes |-> NotSearching]
  /\ writer = [d \in Databases |-> Nobody]
  /\ stage \in [Databases -> {"empty", "v1"}]
  /\ \A d \in ThreeWays : stage[d] = "empty"
  /\ checkpoint \in [Databases -> UNION {0 .. Total[d] : d \in Databases}]
  /\ \A d \in Databases : checkpoint[d] <= IF stage[d] = "v1" THEN Total[d] ELSE 0
  /\ rows = [d \in Databases |-> Below(d, checkpoint[d])]
  /\ views = [p \in Processes |-> {}]
  /\ starts = 0

-----------------------------------------------------------------------------
(* The job.                                                                *)

\* The thread leaves run(): the store, if open, is closed and its lock freed.
Leave(p, outcome) ==
  /\ pc' = [pc EXCEPT ![p] = outcome]
  /\ writer' = [d \in Databases |-> IF writer[d] = p THEN Nobody ELSE writer[d]]
  /\ loop' = [loop EXCEPT ![p] = NotSearching]

Start(p, q) ==
  /\ pc[p] \in Ended
  /\ starts < MaxStarts
  /\ starts' = starts + 1
  /\ pc' = [pc EXCEPT ![p] = "prepare"]
  /\ plan' = [plan EXCEPT ![p] = q]
  /\ at' = [at EXCEPT ![p] = 1]
  /\ cancel' = [cancel EXCEPT ![p] = FALSE]
  /\ before' = [before EXCEPT ![p] = NothingBefore]
  /\ reported' = [reported EXCEPT ![p] = 0]
  /\ UNCHANGED <<loop, writer, disk, views>>

RequestCancel(p) ==
  /\ pc[p] \in Active
  /\ cancel' = [cancel EXCEPT ![p] = TRUE]
  /\ UNCHANGED <<pc, plan, at, before, reported, loop, writer, disk, views, starts>>

\* The season baseline is built; a cancel that came meanwhile is obeyed.
Prepare(p) ==
  /\ pc[p] = "prepare"
  /\ IF cancel[p] THEN Leave(p, "cancelled")
                  ELSE pc' = [pc EXCEPT ![p] = "open"] /\ UNCHANGED <<loop, writer>>
  /\ UNCHANGED <<job, disk, views, starts>>

\* Any exception ends the job; the transaction under way is rolled back.
Fail(p) ==
  /\ pc[p] \in Active
  /\ Leave(p, "failed")
  /\ UNCHANGED <<job, disk, views, starts>>

\* The process dies: the operating system frees its locks, its outcomes are gone.
Crash(p) ==
  /\ pc[p] # "idle"
  /\ Leave(p, "idle")
  /\ cancel' = [cancel EXCEPT ![p] = FALSE]
  /\ before' = [before EXCEPT ![p] = NothingBefore]
  /\ reported' = [reported EXCEPT ![p] = 0]
  /\ views' = [views EXCEPT ![p] = {}]
  /\ UNCHANGED <<plan, at, disk, starts>>

-----------------------------------------------------------------------------
(* Opening the store.                                                      *)

\* What a schema found on disk asks for; "failed" when it can be neither
\* created, migrated nor used.
Entry(d) ==
  CASE stage[d] = "empty" -> "create"
    [] stage[d] = "v1" -> "alter"
    [] stage[d] = "versioned" /\ d \in Pairs -> "bind"
    [] stage[d] = "bound" -> "resume"
    [] OTHER -> "failed"

Open(p) ==
  LET d == Db(p) IN
  /\ pc[p] = "open"
  /\ writer[d] = Nobody
  /\ Entry(d) # "failed"
  /\ writer' = [writer EXCEPT ![d] = p]
  /\ pc' = [pc EXCEPT ![p] = Entry(d)]
  /\ UNCHANGED <<job, loop, disk, views, starts>>

\* The store has another writer, or its schema was left half made.
Refused(p) ==
  /\ pc[p] = "open"
  /\ writer[Db(p)] # Nobody \/ Entry(Db(p)) = "failed"
  /\ Leave(p, "failed")
  /\ UNCHANGED <<job, disk, views, starts>>

NextStage(s) ==
  CASE s = "empty" -> "run_table"
    [] s = "run_table" -> "both_tables"
    [] s = "both_tables" -> "versioned"
    [] s = "v1" -> "v1_altered"
    [] s = "v1_altered" -> "bound"

\* One statement of the schema; the last one sets the version.
Migrate(p) ==
  LET d == Db(p) IN
  /\ pc[p] \in {"create", "alter"}
  /\ stage' = [stage EXCEPT ![d] = NextStage(stage[d])]
  /\ pc' = [pc EXCEPT ![p] = CASE stage'[d] = "versioned" -> "bind"
                               [] stage'[d] = "bound" -> "resume"
                               [] OTHER -> pc[p]]
  /\ UNCHANGED <<job, loop, writer, checkpoint, rows, views, starts>>

Bind(p) ==
  /\ pc[p] = "bind"
  /\ stage' = [stage EXCEPT ![Db(p)] = "bound"]
  /\ checkpoint' = [checkpoint EXCEPT ![Db(p)] = 0]
  /\ pc' = [pc EXCEPT ![p] = "resume"]
  /\ UNCHANGED <<job, loop, writer, rows, views, starts>>

\* Mutant: the search resumes at its checkpoint, its counts start from nothing.
ResumeUncounted(p) ==
  /\ pc[p] = "resume"
  /\ loop' = [loop EXCEPT ![p] = [NotSearching EXCEPT !.next = checkpoint[Db(p)]]]
  /\ pc' = [pc EXCEPT ![p] = "search"]
  /\ UNCHANGED <<job, writer, disk, views, starts>>

\* The counts are taken from the rows, which must lie before the checkpoint.
Resume(p) ==
  LET d == Db(p) IN
  /\ pc[p] = "resume"
  /\ IF \A i \in rows[d] : i < checkpoint[d]
     THEN /\ loop' = [loop EXCEPT ![p] =
               [next |-> checkpoint[d], pending |-> {}, cancelled |-> FALSE,
                qualified |-> Cardinality(rows[d]), gains |-> Cardinality(rows[d] \cap Gains[d])]]
          /\ pc' = [pc EXCEPT ![p] = "search"]
          /\ UNCHANGED writer
     ELSE Leave(p, "inconsistent")
  /\ UNCHANGED <<job, disk, views, starts>>

-----------------------------------------------------------------------------
(* The search loop.                                                        *)

\* A batch and its checkpoint, in one transaction; a checkpoint never goes back.
Commit(d, batch, target) ==
  /\ rows' = [rows EXCEPT ![d] = @ \cup batch]
  /\ checkpoint' = [checkpoint EXCEPT ![d] = IF @ < target THEN target ELSE @]
  /\ UNCHANGED stage

FlushDue(next, pending) ==
  Cardinality(pending) >= MaxBatch \/ next % CheckpointInterval = 0

\* Mutant: the stores already searched are forgotten.
ExaminedHere(p, next) == next

\* The examined count over the whole request.
Examined(p, next) == before[p].examined + next

\* Mutant: a cancelled search keeps its place and drops its batch.
StopEmptyHanded(p) ==
  LET d == Db(p) IN
  /\ pc[p] = "search" /\ loop[p].next < Total[d]
  /\ cancel[p]
  /\ Commit(d, {}, loop[p].next)
  /\ loop' = [loop EXCEPT ![p].pending = {}, ![p].cancelled = TRUE]
  /\ pc' = [pc EXCEPT ![p] = "verify"]
  /\ UNCHANGED <<job, writer, views, starts>>

\* A cancel is seen before the next candidate; what is pending is saved.
Stop(p) ==
  LET d == Db(p) IN
  /\ pc[p] = "search" /\ loop[p].next < Total[d]
  /\ cancel[p]
  /\ Commit(d, loop[p].pending, loop[p].next)
  /\ loop' = [loop EXCEPT ![p].pending = {}, ![p].cancelled = TRUE]
  /\ pc' = [pc EXCEPT ![p] = "verify"]
  /\ UNCHANGED <<job, writer, views, starts>>

Evaluate(p) ==
  LET d == Db(p)
      i == loop[p].next
      found == {i} \cap Qualified[d]
      pending == loop[p].pending \cup found
  IN
  /\ pc[p] = "search" /\ i < Total[d]
  /\ ~cancel[p]
  /\ loop' = [loop EXCEPT ![p].next = i + 1,
                          ![p].pending = pending,
                          ![p].qualified = @ + Cardinality(found),
                          ![p].gains = @ + Cardinality(found \cap Gains[d])]
  /\ IF FlushDue(i + 1, pending)
     THEN pc' = [pc EXCEPT ![p] = "flush"] /\ UNCHANGED reported
     ELSE /\ reported' = IF found # {} THEN [reported EXCEPT ![p] = Examined(p, i + 1)] ELSE reported
          /\ UNCHANGED pc
  /\ UNCHANGED <<plan, at, cancel, before, writer, disk, views, starts>>

Flush(p) ==
  /\ pc[p] = "flush"
  /\ Commit(Db(p), loop[p].pending, loop[p].next)
  /\ loop' = [loop EXCEPT ![p].pending = {}]
  /\ reported' = [reported EXCEPT ![p] = Examined(p, loop[p].next)]
  /\ pc' = [pc EXCEPT ![p] = "search"]
  /\ UNCHANGED <<plan, at, cancel, before, writer, views, starts>>

Exhaust(p) ==
  LET d == Db(p) IN
  /\ pc[p] = "search" /\ loop[p].next = Total[d]
  /\ Commit(d, loop[p].pending, Total[d])
  /\ loop' = [loop EXCEPT ![p].pending = {}]
  /\ pc' = [pc EXCEPT ![p] = "verify"]
  /\ UNCHANGED <<job, writer, views, starts>>

\* The assertions that close run(), and the checks of persisted_summary().
Reconciles(p) ==
  LET d == Db(p) IN
  /\ \A i \in rows[d] : i < checkpoint[d]
  /\ checkpoint[d] = loop[p].next
  /\ Cardinality(rows[d]) = loop[p].qualified
  /\ Cardinality(rows[d] \cap Gains[d]) = loop[p].gains

\* Mutant: the outcome has no watermark.
OutcomeToTheEnd(p) ==
  LET d == Db(p) IN
  [db |-> d, maximum |-> Total[d], count |-> loop[p].qualified, shown |-> rows[d]]

\* An outcome reads the rows of its store below the index it ended at.
Outcome(p) ==
  LET d == Db(p) IN
  [db |-> d, maximum |-> loop[p].next, count |-> loop[p].qualified,
   shown |-> {i \in rows[d] : i < loop[p].next}]

AfterPair(p) ==
  [examined |-> before[p].examined + loop[p].next,
   qualified |-> before[p].qualified + loop[p].qualified,
   gains |-> before[p].gains + loop[p].gains]

More(p) == ~loop[p].cancelled /\ at[p] < Len(plan[p])

\* The store is done with: the request ends, or goes on to its next store.
Verify(p) ==
  LET more == More(p) IN
  /\ pc[p] = "verify"
  /\ IF Reconciles(p)
     THEN /\ Leave(p, IF more THEN "open" ELSE IF loop[p].cancelled THEN "cancelled" ELSE "complete")
          /\ views' = [views EXCEPT ![p] = @ \cup {Outcome(p)}]
          /\ before' = [before EXCEPT ![p] = AfterPair(p)]
          /\ reported' = [reported EXCEPT ![p] = Examined(p, loop[p].next)]
          /\ at' = IF more THEN [at EXCEPT ![p] = @ + 1] ELSE at
     ELSE /\ Leave(p, "inconsistent")
          /\ UNCHANGED <<views, before, reported, at>>
  /\ UNCHANGED <<plan, cancel, disk, starts>>

Work(p) ==
  \/ Prepare(p)
  \/ Open(p)
  \/ Refused(p)
  \/ Migrate(p)
  \/ Bind(p)
  \/ Resume(p)
  \/ Stop(p)
  \/ Evaluate(p)
  \/ Flush(p)
  \/ Exhaust(p)
  \/ Verify(p)

Next ==
  \E p \in Processes :
    \/ \E q \in Requests : Start(p, q)
    \/ RequestCancel(p)
    \/ Work(p)
    \/ Fail(p)
    \/ Crash(p)

Spec == Init /\ [][Next]_vars

-----------------------------------------------------------------------------
(* What it promises.                                                       *)

\* Every part of the state has its type, and an active job is at a store of
\* its request.
TypeOK ==
  /\ pc \in [Processes -> Ended \cup Active]
  /\ plan \in [Processes -> Requests \cup {<<>>}]
  /\ at \in [Processes -> Nat]
  /\ \A p \in Processes : pc[p] \in Active => plan[p] \in Requests /\ at[p] \in 1 .. Len(plan[p])
  /\ cancel \in [Processes -> BOOLEAN]
  /\ before \in [Processes -> [examined : Nat, qualified : Nat, gains : Nat]]
  /\ reported \in [Processes -> Nat]
  /\ loop \in [Processes -> [next : Nat, pending : SUBSET Nat, qualified : Nat,
                             gains : Nat, cancelled : BOOLEAN]]
  /\ writer \in [Databases -> Processes \cup {Nobody}]
  /\ stage \in [Databases -> Stages]
  /\ checkpoint \in [Databases -> Nat]
  /\ rows \in [Databases -> SUBSET Nat]
  /\ views \in [Processes -> SUBSET [db : Databases, maximum : Nat, count : Nat, shown : SUBSET Nat]]
  /\ starts \in Nat

\* Whatever was interrupted, a store holds exactly the qualifying candidates
\* before its checkpoint: none is lost, none is there too early.
\* (upsert_qualified_results: a batch and its checkpoint are one transaction)
StoreHoldsTheQualified ==
  \A d \in Databases : checkpoint[d] <= Total[d] /\ rows[d] = Below(d, checkpoint[d])

\* The counts a resumed search carries along always agree with the store:
\* none of the assertions that close run(), nor the check of resume_summary(),
\* ever fails.
CountsReconcile == \A p \in Processes : pc[p] # "inconsistent"

\* What reading an outcome finds, against its expected count and watermark.
ReadsAs(v, found) ==
  /\ v.maximum <= checkpoint[v.db]
  /\ {i \in rows[v.db] : i < v.maximum} = found
  /\ Cardinality(found) = v.count

\* An outcome, cancelled or complete, is an immutable view: read again later,
\* while the same or another process carries the search on, it shows the rows
\* it showed at first.  (TradeSearchOutcome, ThreeWaySearchOutcome)
OutcomesAreSnapshots ==
  \A p \in Processes : \A v \in views[p] : ReadsAs(v, v.shown)

\* The checkpoint of a store never goes back and no row leaves it.
StoresOnlyGrow ==
  [][\A d \in Databases : checkpoint'[d] >= checkpoint[d] /\ rows[d] \subseteq rows'[d]]_vars

\* Within a job the examined count never moves backwards, across stores and
\* checkpoints; if it did, job.timing.observe would raise and fail the job.
ProgressOnlyAdvances ==
  [][\A p \in Processes :
       pc[p] \in Active /\ pc'[p] \in Active \cup {"complete", "cancelled"}
         => reported'[p] >= reported[p]]_vars

\* README: an interrupted run can be resumed.  A store that nobody has open
\* is one that the next identical run can open.
InterruptedCanResume ==
  \A d \in Databases : writer[d] = Nobody => Entry(d) # "failed"

-----------------------------------------------------------------------------
(* The inductive invariant behind the proofs.                              *)

\* The lock of a store is held by the job that has it open, and by no other.
LockMatchesJob ==
  \A d \in Databases, p \in Processes :
    writer[d] = p <=> pc[p] \in Opening \cup Searching /\ d = Db(p)

\* Where the schema of an open store is, and of one never bound.
SchemaMatchesJob ==
  /\ \A d \in Databases :
       stage[d] \in {"empty", "run_table", "both_tables", "versioned"} => checkpoint[d] = 0
  /\ \A p \in Processes :
       /\ pc[p] = "create" => stage[Db(p)] \in {"empty", "run_table", "both_tables"}
       /\ pc[p] = "alter" => stage[Db(p)] \in {"v1", "v1_altered"}
       /\ pc[p] = "bind" => stage[Db(p)] = "versioned"
       /\ pc[p] \in {"resume"} \cup Searching => stage[Db(p)] = "bound"

\* A running search: what it saved and what it still holds are the qualifying
\* candidates it has passed, and its counts are theirs.
LoopInv(p) ==
  LET d == Db(p) IN
  /\ checkpoint[d] <= loop[p].next /\ loop[p].next <= Total[d]
  /\ rows[d] \cup loop[p].pending = Below(d, loop[p].next)
  /\ loop[p].qualified = Cardinality(Below(d, loop[p].next))
  /\ loop[p].gains = Cardinality(Below(d, loop[p].next) \cap Gains[d])
  /\ pc[p] = "verify" => checkpoint[d] = loop[p].next

\* What a job under way reported lies within what it has passed.
ReportedIsPassed(p) ==
  /\ pc[p] \in Active \ Searching => reported[p] <= before[p].examined
  /\ pc[p] \in Searching => reported[p] <= Examined(p, loop[p].next)

\* An outcome shows the qualifying candidates before its watermark, all saved.
ViewInv(v) ==
  /\ v.maximum <= checkpoint[v.db]
  /\ v.shown = Below(v.db, v.maximum)
  /\ v.count = Cardinality(v.shown)

\* The strengthening of the properties above that every step preserves.
IInv ==
  /\ TypeOK
  /\ LockMatchesJob
  /\ SchemaMatchesJob
  /\ StoreHoldsTheQualified
  /\ \A p \in Processes : pc[p] \in Searching => LoopInv(p)
  /\ \A p \in Processes : \A v \in views[p] : ViewInv(v)
  /\ CountsReconcile
=============================================================================

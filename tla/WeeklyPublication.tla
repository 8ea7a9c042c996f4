-------------------------- MODULE WeeklyPublication --------------------------
(***************************************************************************)
(* WeeklyCollectionJobs (trade_snapshot/weekly_collection.py) with the     *)
(* league workspaces it publishes into (league_workspace.py): a collection *)
(* thread stages the bundle its workflow returned, stores its history,     *)
(* publishes it and associates it with a league, while the user cancels,   *)
(* acknowledges, imports and assigns, while every write may fail, and      *)
(* while the process may die between any two of them and start again.      *)
(*                                                                         *)
(* Bundles are named by their content, so two collections may return the   *)
(* same one.  Each file is replaced atomically (os.replace), each SQLite   *)
(* change is one transaction.  The list-view summaries are derived data    *)
(* that the code repairs on the next read, and are left out.               *)
(***************************************************************************)
EXTENDS Integers, Sequences, FiniteSets

CONSTANTS
  Jobs,         \* collection jobs, each started at most once
  Bundles,      \* the engine bundles a workflow can return
  Profiles,     \* league profiles, and the workspace directory of each
  Root,         \* the application's own data directory
  MaxRetained,  \* _MAX_RETAINED_COLLECTION_JOBS
  MaxCrashes,   \* bound on the crashes
  None

ASSUME RetainedAssumption == MaxRetained \in Nat \ {0} /\ MaxCrashes \in Nat
ASSUME RootAssumption == Root \notin Profiles /\ None \notin Profiles \cup Bundles \cup Jobs \cup {Root}
ASSUME JobAssumption == "start" \notin Jobs

Directories == Profiles \cup {Root}
Active == {"queued", "running"}
Terminal == {"complete", "cancelled", "failed"}

\* What a workflow returns: a bare EngineBundle, or a publication that comes
\* with captured league history or with a diagnostic of why it has none.
Kinds == {"bare", "captured", "uncaptured"}

VARIABLES
  up,           \* the process runs and has recovered its stages
  unrecovered,  \* stages the starting process has still to look at
  crashes,      \* how often it died
  jobs,         \* the jobs that were put into _jobs, oldest first
  status,       \* job.status; "new" before start, "gone" when forgotten
  at,           \* the next step of the job's thread
  owner,        \* job.data_directory; a profile's has on_published
  cancel,       \* job.cancel
  result,       \* the bundle the workflow returned
  kind,         \* and how it came
  attempt,      \* the history attempt the thread will report
  error,        \* the job's error: which message
  pending,      \* _pending_terminal_job_id
  stage,        \* disk: bundles in the staging directory
  final,        \* disk: bundles in the bundle directory
  history,      \* disk: per bundle, the directories whose store is bound to it
  attempts,     \* disk: per bundle and directory, the recorded attempt
  owns,         \* disk: the profile each bundle is associated with
  staged,       \* history: the bundles ever staged by a collection
  early,        \* history: jobs cancelled before they began to publish
  publishedBy   \* history: the job, or the start, that made a bundle visible

process == <<up, unrecovered, crashes>>
disk == <<stage, final, history, attempts, owns>>
records == <<jobs, status, owner, cancel, error, pending>>
thread == <<at, result, kind, attempt>>
past == <<staged, early, publishedBy>>
vars == <<process, records, thread, disk, past>>

Init ==
  /\ up = TRUE
  /\ unrecovered = {}
  /\ crashes = 0
  /\ jobs = <<>>
  /\ status = [j \in Jobs |-> "new"]
  /\ at = [j \in Jobs |-> "none"]
  /\ owner = [j \in Jobs |-> Root]
  /\ cancel = [j \in Jobs |-> FALSE]
  /\ result = [j \in Jobs |-> None]
  /\ kind = [j \in Jobs |-> None]
  /\ attempt = [j \in Jobs |-> None]
  /\ error = [j \in Jobs |-> None]
  /\ pending = None
  /\ stage = {}
  /\ final = {}
  /\ history = [b \in Bundles |-> {}]
  /\ attempts = [b \in Bundles |-> [d \in Directories |-> None]]
  /\ owns = [b \in Bundles |-> None]
  /\ staged = {}
  /\ early = {}
  /\ publishedBy = [b \in Bundles |-> None]

-----------------------------------------------------------------------------
(* The job records.                                                        *)

\* Mutant: the newest terminal records go first.
PruneNewest(st) ==
  {jobs[i] : i \in {i \in DOMAIN jobs :
     /\ st[jobs[i]] \in Terminal
     /\ Cardinality({k \in 1 .. i - 1 : st[jobs[k]] \in Terminal}) >= MaxRetained}}

\* prune_terminal_jobs: the terminal records that go are those with MaxRetained
\* newer ones.
Prune(st) ==
  {jobs[i] : i \in {i \in DOMAIN jobs :
     /\ st[jobs[i]] \in Terminal
     /\ Cardinality({k \in i + 1 .. Len(jobs) : st[jobs[k]] \in Terminal}) >= MaxRetained}}

\* recoverable_job: what is active, or the last result that was not shown.
Recoverable ==
  {j \in Jobs : status[j] \in Active \/ (j = pending /\ status[j] \in Terminal)}

\* _update with a terminal status, the last thing a thread does.
Settle(j, how, why) ==
  LET ended == [status EXCEPT ![j] = how]
  IN /\ status' = [k \in Jobs |-> IF k \in Prune(ended) THEN "gone" ELSE ended[k]]
     /\ error' = [error EXCEPT ![j] = why]
     /\ pending' = j
     /\ at' = [at EXCEPT ![j] = "done"]
     /\ UNCHANGED <<jobs, owner, cancel>>

\* _finish_error: a failure after a cancellation is the cancellation.
FinishError(j, why) ==
  IF cancel[j] THEN Settle(j, "cancelled", None) ELSE Settle(j, "failed", why)

\* start: one collection at a time; the last result is no longer pending.
Start(j, d) ==
  /\ up
  /\ status[j] = "new"
  /\ \A k \in Jobs : status[k] \notin Active
  /\ jobs' = Append(jobs, j)
  /\ status' = [status EXCEPT ![j] = "queued"]
  /\ owner' = [owner EXCEPT ![j] = d]
  /\ pending' = None
  /\ at' = [at EXCEPT ![j] = "begin"]
  /\ UNCHANGED <<process, disk, past, cancel, error, result, kind, attempt>>

\* cancel
Cancel(j) ==
  /\ status[j] \in Active
  /\ ~cancel[j]
  /\ cancel' = [cancel EXCEPT ![j] = TRUE]
  /\ early' = IF at[j] \in {"begin", "collect", "check"} THEN early \cup {j} ELSE early
  /\ UNCHANGED <<process, disk, thread, jobs, status, owner, error, pending, staged, publishedBy>>

\* acknowledge_activity
Acknowledge(j) ==
  /\ up
  /\ status[j] \in Terminal
  /\ pending' = IF pending = j THEN None ELSE pending
  /\ UNCHANGED <<process, disk, thread, past, jobs, status, owner, cancel, error>>

-----------------------------------------------------------------------------
(* _run: the collection thread, one action per write.                      *)

\* The thread starts; a job cancelled in the queue ends here.
Begin(j) ==
  /\ at[j] = "begin"
  /\ IF cancel[j]
     THEN Settle(j, "cancelled", None)
     ELSE /\ status' = [status EXCEPT ![j] = "running"]
          /\ at' = [at EXCEPT ![j] = "collect"]
          /\ UNCHANGED <<jobs, owner, cancel, error, pending>>
  /\ UNCHANGED <<process, disk, past, result, kind, attempt>>

\* The workflow returns, or raises: cancelled, refused or broken.
Collect(j) ==
  /\ at[j] = "collect"
  /\ \/ /\ \E b \in Bundles, k \in Kinds :
             /\ result' = [result EXCEPT ![j] = b]
             /\ kind' = [kind EXCEPT ![j] = k]
        /\ at' = [at EXCEPT ![j] = "check"]
        /\ UNCHANGED records
     \/ FinishError(j, "collection failed") /\ UNCHANGED <<result, kind>>
  /\ UNCHANGED <<process, disk, past, attempt>>

\* Mutant: the result is published whether or not the job was cancelled.
NoStop(j) == FALSE

\* cancel is read for the last time before the publication begins.
Stop(j) == cancel[j]

Check(j) ==
  /\ at[j] = "check"
  /\ IF Stop(j)
     THEN Settle(j, "cancelled", None) /\ UNCHANGED attempt
     ELSE /\ at' = [at EXCEPT ![j] = IF kind[j] = "bare" THEN "publish" ELSE "stage"]
          /\ attempt' = [attempt EXCEPT ![j] = kind[j]]
          /\ UNCHANGED records
  /\ UNCHANGED <<process, disk, past, result, kind>>

\* _stage_exact_bundle: saved and read back; either may fail.
Stage(j) ==
  /\ at[j] = "stage"
  /\ \/ /\ stage' = stage \cup {result[j]}
        /\ staged' = staged \cup {result[j]}
        /\ \/ /\ at' = [at EXCEPT ![j] = IF kind[j] = "captured" THEN "ingest" ELSE "attempt"]
              /\ UNCHANGED records
           \/ FinishError(j, "no new bundle was published")
     \/ FinishError(j, "no new bundle was published") /\ UNCHANGED <<stage, staged>>
  /\ UNCHANGED <<process, result, kind, attempt, final, history, attempts, owns, early, publishedBy>>

\* Mutant: the exception is swallowed and the attempt reported as it came.
AttemptAsProvided(j) == attempt' = attempt

\* The capture could not be stored, and the attempt says so.
AttemptUnavailable(j) == attempt' = [attempt EXCEPT ![j] = "store unavailable"]

\* LeagueHistoryStore.ingest: one transaction, whose failure is recorded.
Ingest(j) ==
  /\ at[j] = "ingest"
  /\ \/ history' = [history EXCEPT ![result[j]] = @ \cup {owner[j]}] /\ UNCHANGED attempt
     \/ AttemptUnavailable(j) /\ UNCHANGED history
  /\ at' = [at EXCEPT ![j] = "attempt"]
  /\ UNCHANGED <<process, records, past, result, kind, stage, final, attempts, owns>>

\* _save_history_attempt: an OSError is ignored.
SaveAttempt(j) ==
  /\ at[j] = "attempt"
  /\ \/ attempts' = [attempts EXCEPT ![result[j]][owner[j]] = attempt[j]]
     \/ UNCHANGED attempts
  /\ at' = [at EXCEPT ![j] = IF kind[j] = "bare" THEN "associate" ELSE "publish"]
  /\ UNCHANGED <<process, records, past, result, kind, attempt, stage, final, history, owns>>

\* Mutant: the stage is removed, then the bundle is saved.
PublishUnstagedFirst(j) ==
  /\ stage' = stage \ {result[j]}
  /\ \/ /\ final' = final \cup {result[j]}
        /\ at' = [at EXCEPT ![j] = "associate"]
        /\ UNCHANGED records
     \/ FinishError(j, "no new bundle was published") /\ UNCHANGED final

\* _publish_staged_bundle: saved, read back, the stage removed; each may
\* fail, the removal silently.  A bare bundle is only saved.
PublishBundle(j) ==
  \/ /\ final' = final \cup {result[j]}
     /\ stage' \in IF kind[j] = "bare" THEN {stage} ELSE {stage, stage \ {result[j]}}
     /\ at' = [at EXCEPT ![j] = IF kind[j] = "bare" THEN "attempt" ELSE "associate"]
     /\ UNCHANGED records
  \/ /\ kind[j] # "bare"
     /\ final' = final \cup {result[j]}
     /\ FinishError(j, "no new bundle was published")
     /\ UNCHANGED stage
  \/ FinishError(j, "no new bundle was published") /\ UNCHANGED <<stage, final>>

Publish(j) ==
  /\ at[j] = "publish"
  /\ PublishBundle(j)
  /\ publishedBy' = [b \in Bundles |-> IF b \in final' \ final THEN j ELSE publishedBy[b]]
  /\ UNCHANGED <<process, result, kind, attempt, history, attempts, owns, staged, early>>

\* catalog.associate_bundle: a bundle belongs to one profile for good.
MayOwn(p, b) == owns[b] \in {None, p}

\* job.on_published is None
Leagueless(j) == owner[j] = Root

\* on_published: the profile takes the bundle, or refuses it because it was
\* archived or edited meanwhile or because another profile has it.
Associate(j) ==
  /\ at[j] = "associate"
  /\ IF Leagueless(j)
     THEN at' = [at EXCEPT ![j] = "finish"] /\ UNCHANGED <<records, owns>>
     ELSE \/ /\ MayOwn(owner[j], result[j])
             /\ owns' = [owns EXCEPT ![result[j]] = owner[j]]
             /\ at' = [at EXCEPT ![j] = "finish"]
             /\ UNCHANGED records
          \/ Settle(j, "failed", "saved under unassigned imports") /\ UNCHANGED owns
  /\ UNCHANGED <<process, past, result, kind, attempt, stage, final, history, attempts>>

Finish(j) ==
  /\ at[j] = "finish"
  /\ Settle(j, "complete", None)
  /\ UNCHANGED <<process, disk, past, result, kind, attempt>>

-----------------------------------------------------------------------------
(* The user's own changes to the catalog.                                  *)

\* import_bundle: saved, then associated if a profile was named.
Import(b, d) ==
  /\ up
  /\ d # Root => MayOwn(d, b)
  /\ final' = final \cup {b}
  /\ owns' \in {owns, [owns EXCEPT ![b] = IF d = Root THEN @ ELSE d]}
  /\ UNCHANGED <<process, records, thread, past, stage, history, attempts>>

\* assign_bundle: the evidence kept at the root is copied to the workspace,
\* the history first, and then the bundle is associated.  Each write may be
\* the last; a conflicting attempt in the workspace stops it.  What is not there,
\* cannot be read or does not match the bundle is left behind.
Assign(p, b) ==
  LET known == [history EXCEPT ![b] = IF Root \in @ THEN @ \cup {p} ELSE @]
      conflict == attempts[b][p] # None /\ attempts[b][p] # attempts[b][Root]
  IN /\ up
     /\ b \in final
     /\ MayOwn(p, b)
     /\ history' \in {history, known}
     /\ \/ UNCHANGED attempts
        \/ /\ attempts[b][Root] # None /\ ~conflict
           /\ attempts' = [attempts EXCEPT ![b][p] = attempts[b][Root]]
     /\ owns' \in {owns, [owns EXCEPT ![b] = p]}
     /\ UNCHANGED <<process, records, thread, past, stage, final>>

-----------------------------------------------------------------------------
(* Crash and restart.                                                      *)

Crash ==
  /\ crashes < MaxCrashes
  /\ crashes' = crashes + 1
  /\ up' = FALSE
  /\ unrecovered' = stage
  /\ jobs' = <<>>
  /\ status' = [j \in Jobs |-> IF status[j] = "new" THEN "new" ELSE "gone"]
  /\ at' = [j \in Jobs |-> "none"]
  /\ owner' = [j \in Jobs |-> Root]
  /\ cancel' = [j \in Jobs |-> FALSE]
  /\ result' = [j \in Jobs |-> None]
  /\ kind' = [j \in Jobs |-> None]
  /\ attempt' = [j \in Jobs |-> None]
  /\ error' = [j \in Jobs |-> None]
  /\ pending' = None
  /\ UNCHANGED <<disk, past>>

\* _recover_staged_publications, one stage: it is published and removed;
\* a stage that cannot be read or published is skipped.
Recover(b) ==
  /\ ~up
  /\ b \in unrecovered
  /\ unrecovered' = unrecovered \ {b}
  /\ \/ final' = final \cup {b} /\ stage' \in {stage, stage \ {b}}
     \/ UNCHANGED <<final, stage>>
  /\ publishedBy' = [publishedBy EXCEPT ![b] = IF b \in final' \ final THEN "start" ELSE @]
  /\ UNCHANGED <<up, crashes, records, thread, staged, early, history, attempts, owns>>

Recovered ==
  /\ ~up
  /\ unrecovered = {}
  /\ up' = TRUE
  /\ UNCHANGED <<unrecovered, crashes, records, thread, disk, past>>

-----------------------------------------------------------------------------
Run(j) ==
  \/ Begin(j) \/ Collect(j) \/ Check(j) \/ Stage(j) \/ Ingest(j)
  \/ SaveAttempt(j) \/ Publish(j) \/ Associate(j) \/ Finish(j)

Next ==
  \/ \E j \in Jobs, d \in Directories : Start(j, d)
  \/ \E j \in Jobs : Cancel(j) \/ Acknowledge(j) \/ Run(j)
  \/ \E b \in Bundles, d \in Directories : Import(b, d)
  \/ \E p \in Profiles, b \in Bundles : Assign(p, b)
  \/ Crash
  \/ \E b \in Bundles : Recover(b)
  \/ Recovered

Spec == Init /\ [][Next]_vars

-----------------------------------------------------------------------------
(* Properties.                                                             *)

\* The types of what a thread, a crash and the user write.
TypeOK ==
  /\ up \in BOOLEAN
  /\ unrecovered \subseteq Bundles
  /\ crashes \in 0 .. MaxCrashes
  /\ jobs \in Seq(Jobs)
  /\ status \in [Jobs -> {"new", "gone"} \cup Active \cup Terminal]
  /\ at \in [Jobs -> {"none", "begin", "collect", "check", "stage", "ingest", "attempt",
                      "publish", "associate", "finish", "done"}]
  /\ owner \in [Jobs -> Directories]
  /\ cancel \in [Jobs -> BOOLEAN]
  /\ result \in [Jobs -> Bundles \cup {None}]
  /\ kind \in [Jobs -> Kinds \cup {None}]
  /\ attempt \in [Jobs -> Kinds \cup {None, "store unavailable"}]
  /\ pending \in Jobs \cup {None}
  /\ stage \subseteq Bundles
  /\ final \subseteq Bundles
  /\ history \in [Bundles -> SUBSET Directories]
  /\ attempts \in [Bundles -> [Directories -> Kinds \cup {None, "store unavailable"}]]
  /\ owns \in [Bundles -> Profiles \cup {None}]
  /\ staged \subseteq Bundles
  /\ early \subseteq Jobs
  /\ publishedBy \in [Bundles -> Jobs \cup {None, "start"}]

\* A week that was once staged is never lost again: through every failure
\* and every crash it is in the staging directory, where the next start
\* finds it, or in the bundle directory.
StagedIsNeverLost == staged \subseteq stage \cup final

\* A job reports "complete" only when its bundle is visible, belongs to the
\* league it was collected for, and the history it says was captured is
\* bound to it in that league's store.
CompleteIsWhole ==
  \A j \in Jobs : status[j] = "complete" =>
    /\ result[j] \in final
    /\ owner[j] # Root => owns[result[j]] = owner[j]
    /\ attempt[j] = "captured" => owner[j] \in history[result[j]]

\* A job cancelled before it began to publish publishes nothing.
CancelledInTimePublishesNothing ==
  \A j \in early :
    /\ at[j] \notin {"stage", "ingest", "attempt", "publish", "associate", "finish"}
    /\ status[j] # "complete"
    /\ \A b \in Bundles : publishedBy[b] # j

\* The page can always recover the one collection that is at work, and until it
\* is acknowledged or another one starts the last result; the pruning of old
\* records takes neither.
PendingIsRecoverable ==
  /\ pending # None => pending \in Recoverable
  /\ \A j \in Jobs : at[j] \notin {"none", "done"} => Recoverable = {j}

\* A bundle, once it belongs to a league, never moves to another.
OwnershipStays == \A b \in Bundles : owns[b] # None => owns'[b] = owns[b]

OwnershipIsFinal == [][OwnershipStays]_vars
=============================================================================

----------------------------- MODULE DraftTraining -----------------------------
(***************************************************************************)
(* Training in the Draft Lab: the background jobs of draft_service.py, the *)
(* generations of draft_training.py, the autosaves and models that         *)
(* draft_persistence.py writes (each as an asset, then its catalog row),   *)
(* and promote_checkpoint, which turns an autosave into a model while a    *)
(* training job may be saving its own.                                     *)
(*                                                                         *)
(* A population is what the generations have made of it: the numbers of    *)
(* the generations it went through, in order, under given settings (every  *)
(* random draw is seeded by the settings and the generation's number).     *)
(***************************************************************************)
EXTENDS Naturals, Sequences, FiniteSets

CONSTANTS
    Settings,     \* corpus, league and evolution settings but the generations
    Targets,      \* EvolutionConfig.generations
    Arenas,       \* arenas of one generation
    Retained,     \* _MAX_RETAINED_TERMINAL_JOBS
    Promoters,    \* requests that promote an autosave
    None,         \* no job, no file, no checkpoint
    MaxJobs,      \* bound: jobs ever started
    MaxFaults     \* bound: failing writes and restarts

ASSUME TrainingAssumption ==
    /\ Targets \subseteq Nat \ {0}
    /\ Arenas \in Nat \ {0}
    /\ Retained \in Nat \ {0}
    /\ MaxJobs \in Nat
    /\ None \notin Settings \cup Promoters \cup 1..MaxJobs

VARIABLES
    jobs,      \* _jobs: [job -> its record, or None: not started, or pruned]
    launched,  \* jobs started so far; the number is the job's id
    pending,   \* _pending_terminal_job_id
    seen,      \* history: a page acknowledged the end of the last job started
    autosaves, \* disk: [job -> its checkpoint file, or None]
    listed,    \* disk: [job -> the checkpoint its summary describes, or None]
    models,    \* disk: the model files
    catalog,   \* disk: the models that have a summary
    stamps,    \* timestamps given to models so far
    promoting, \* [Promoters -> what promote_checkpoint is about to do, or None]
    lock,      \* who holds _lock beyond one step: a promoter, or None
    faults

disk == <<autosaves, listed, models, catalog, stamps>>
memory == <<jobs, launched, pending, seen>>
vars == <<memory, disk, promoting, lock, faults>>

JobIds == 1..MaxJobs
Active == {"queued", "running"}
Terminal == {"complete", "cancelled", "failed"}

Checkpoint == [settings : Settings, target : Nat, gen : Nat, past : Nat, steps : Seq(Nat)]
Champion == [settings : Settings, gen : Nat, steps : Seq(Nat)]
Model == [champion : Champion, by : {"training", "promotion"}, stamp : Nat]
Job == [kind : {"training", "other"}, status : Active \cup Terminal,
        stage : {"validate", "arena", "save", "list", "model", "row", "finish"},
        cancel : BOOLEAN, settings : Settings \cup {None}, target : Nat,
        resume : Checkpoint \cup {None}, latest : Checkpoint \cup {None}, arena : Nat,
        model : Model \cup {None}]
Promotion == [stage : {"look", "save", "list"}, champion : Champion, model : Model \cup {None}]

ASSUME NoneAssumption == None \notin Checkpoint \cup Model \cup Job \cup Promotion

Started(j) == jobs[j] # None
IsActive(j) == Started(j) /\ jobs[j].status \in Active
Ended(j) == Started(j) /\ jobs[j].status \in Terminal
Busy == \E j \in JobIds : IsActive(j)
LockIsFree == lock = None

Init ==
    /\ jobs = [j \in JobIds |-> None] /\ launched = 0 /\ pending = None /\ seen = FALSE
    /\ autosaves = [j \in JobIds |-> None] /\ listed = [j \in JobIds |-> None]
    /\ models = {} /\ catalog = {} /\ stamps = 0
    /\ promoting = [q \in Promoters |-> None] /\ lock = None /\ faults = 0

(***************************************************************************)
(* Starting jobs: one at a time, and each takes the place of the result    *)
(* that was still to be shown.                                             *)
(***************************************************************************)
Launch(kind, settings, target, resume) ==
    /\ LockIsFree /\ ~Busy /\ launched < MaxJobs
    /\ launched' = launched + 1
    /\ jobs' = [jobs EXCEPT ![launched + 1] =
                  [kind |-> kind, status |-> "queued", stage |-> "validate",
                   cancel |-> FALSE, settings |-> settings, target |-> target,
                   resume |-> resume, latest |-> resume, arena |-> 0,
                   model |-> None]]
    /\ pending' = None /\ seen' = FALSE
    /\ UNCHANGED <<disk, promoting, lock, faults>>

(* The catalog shows the autosaves that have both files. *)
Offered(j) == autosaves[j] # None /\ listed[j] # None

StartTraining ==
    \E settings \in Settings, target \in Targets :
        \/ Launch("training", settings, target, None)
        \/ \E j \in JobIds : /\ Offered(j)
                             /\ Launch("training", settings, target, autosaves[j])

(* resume_training takes the settings of the checkpoint, and its target    *)
(* unless the request names one that does not precede what is done.        *)
ResumeTraining ==
    \E j \in JobIds :
        /\ Offered(j)
        /\ \E target \in {autosaves[j].target} \cup {n \in Targets : n >= autosaves[j].gen} :
             Launch("training", autosaves[j].settings, target, autosaves[j])

(* start_benchmark and start_corpus_install *)
StartOther == Launch("other", None, 0, None)

CancelJob(j) ==
    /\ LockIsFree /\ IsActive(j)
    /\ jobs' = [jobs EXCEPT ![j].cancel = TRUE]
    /\ UNCHANGED <<launched, pending, seen, disk, promoting, lock, faults>>

AcknowledgeAny(j) ==  \* Mutant of Acknowledge: a newer result is cleared too.
    /\ LockIsFree /\ Ended(j)
    /\ pending' = None
    /\ seen' = (seen \/ j = launched)
    /\ UNCHANGED <<jobs, launched, disk, promoting, lock, faults>>

(* A page that saw the job end says so, early or late. *)
Acknowledge(j) ==
    /\ LockIsFree /\ Ended(j)
    /\ pending' = IF pending = j THEN None ELSE pending
    /\ seen' = (seen \/ j = launched)
    /\ UNCHANGED <<jobs, launched, disk, promoting, lock, faults>>

(***************************************************************************)
(* _run_training.  _set_job takes the lock: a step that reports waits for  *)
(* it.                                                                     *)
(***************************************************************************)

(* prune_terminal_jobs: only the latest Retained ended jobs are kept. *)
Pruned(records) ==
    LET ended == {j \in JobIds : records[j] # None /\ records[j].status \in Terminal}
    IN  [j \in JobIds |->
           IF j \in ended /\ Cardinality({k \in ended : k > j}) >= Retained
           THEN None ELSE records[j]]

End(j, status) ==
    /\ LockIsFree
    /\ jobs' = Pruned([jobs EXCEPT ![j].status = status])
    /\ pending' = j
    /\ UNCHANGED <<launched, seen, promoting, lock>>

At(j, kind, stage) ==
    /\ Started(j) /\ jobs[j].status = "running"
    /\ jobs[j].kind = kind /\ jobs[j].stage = stage

Goto(j, stage) ==
    /\ jobs' = [jobs EXCEPT ![j].stage = stage]
    /\ UNCHANGED <<launched, pending, seen>>

Begin(j) ==
    /\ LockIsFree /\ Started(j) /\ jobs[j].status = "queued"
    /\ jobs' = [jobs EXCEPT ![j].status = "running"]
    /\ UNCHANGED <<launched, pending, seen, disk, promoting, lock, faults>>

Fail(j) == End(j, "failed") /\ UNCHANGED <<disk, faults>>

(* A write that fails fails the job; what was written before it stays. *)
FailWrite(j) ==
    /\ faults < MaxFaults /\ faults' = faults + 1
    /\ End(j, "failed") /\ UNCHANGED disk

(* InterruptedError: the generation under way is dropped. *)
Stop(j) ==
    /\ jobs[j].cancel
    /\ End(j, "cancelled") /\ UNCHANGED <<disk, faults>>

Mismatched(job) ==
    job.resume # None /\ (job.resume.settings # job.settings \/ job.target < job.resume.gen)

Finished(job) == job.resume # None /\ job.resume.gen + 1 > job.target

(* _validate_resume; a checkpoint that needs no generation more is the     *)
(* result itself.  should_cancel is read for every season prepared.        *)
Validate(j) ==
    /\ At(j, "training", "validate")
    /\ \/ Mismatched(jobs[j]) /\ Fail(j)
       \/ /\ ~Mismatched(jobs[j])
          /\ \/ /\ Finished(jobs[j]) /\ Goto(j, "model")
                /\ UNCHANGED <<disk, promoting, lock, faults>>
             \/ /\ ~Finished(jobs[j])
                /\ \/ Stop(j)
                   \/ /\ ~jobs[j].cancel /\ Goto(j, "arena")
                      /\ UNCHANGED <<disk, promoting, lock, faults>>

FreshPopulation(job) ==  \* Mutant of Origin: the population is not restored.
    IF job.latest = None \/ job.latest = job.resume
    THEN [settings |-> job.settings, target |-> job.target, steps |-> <<>>,
          gen |-> IF job.latest = None THEN 0 ELSE job.latest.gen,
          past |-> IF job.latest = None THEN 0 ELSE job.latest.past]
    ELSE [job.latest EXCEPT !.target = job.target]

(* What a batch starts from: the checkpoint's population and history, or   *)
(* the initial population.                                                 *)
Origin(job) ==
    IF job.latest = None
    THEN [settings |-> job.settings, target |-> job.target,
          gen |-> 0, past |-> 0, steps |-> <<>>]
    ELSE [job.latest EXCEPT !.target = job.target]

(* _evaluate_population and _reproduce, once every arena has been played. *)
Trained(job) ==
    LET from == Origin(job)
    IN  [from EXCEPT !.gen = from.gen + 1, !.past = from.past + 1,
                     !.steps = Append(from.steps, from.gen + 1)]

(* on_arena reports, and so waits for the lock. *)
PlayArena(j) ==
    /\ At(j, "training", "arena")
    /\ \/ Stop(j)
       \/ /\ ~jobs[j].cancel /\ LockIsFree
          /\ \/ /\ jobs[j].arena + 1 < Arenas
                /\ jobs' = [jobs EXCEPT ![j].arena = @ + 1]
                /\ UNCHANGED <<launched, pending, seen, disk, promoting, lock, faults>>
             \/ /\ jobs[j].arena + 1 = Arenas
                /\ jobs' = [jobs EXCEPT ![j].latest = Trained(jobs[j]),
                                        ![j].arena = 0, ![j].stage = "save"]
                /\ UNCHANGED <<launched, pending, seen, disk, promoting, lock, faults>>

(* save_checkpoint: the file, then the summary that lists it. *)
SaveAutosave(j) ==
    /\ At(j, "training", "save")
    /\ \/ FailWrite(j)
       \/ /\ autosaves' = [autosaves EXCEPT ![j] = jobs[j].latest]
          /\ Goto(j, "list")
          /\ UNCHANGED <<listed, models, catalog, stamps, promoting, lock, faults>>

ListsTheLast(j) ==  \* Mutant of ListAutosave: only the last one is listed.
    /\ At(j, "training", "list")
    /\ \/ FailWrite(j)
       \/ /\ LockIsFree
          /\ listed' = IF jobs[j].latest.gen < jobs[j].target THEN listed
                       ELSE [listed EXCEPT ![j] = jobs[j].latest]
          /\ Goto(j, IF jobs[j].latest.gen < jobs[j].target THEN "arena" ELSE "model")
          /\ UNCHANGED <<autosaves, models, catalog, stamps, promoting, lock, faults>>

ListAutosave(j) ==
    /\ At(j, "training", "list")
    /\ \/ FailWrite(j)
       \/ /\ LockIsFree
          /\ listed' = [listed EXCEPT ![j] = jobs[j].latest]
          /\ Goto(j, IF jobs[j].latest.gen < jobs[j].target THEN "arena" ELSE "model")
          /\ UNCHANGED <<autosaves, models, catalog, stamps, promoting, lock, faults>>

ChampionOf(c) == [settings |-> c.settings, gen |-> c.gen, steps |-> c.steps]

ModelOf(champion, by) == [champion |-> champion, by |-> by, stamp |-> stamps + 1]

(* save_model, and its summary; nothing looks for a matching model.  The   *)
(* job is complete once both are there.                                    *)
SaveModel(j) ==
    /\ At(j, "training", "model")
    /\ \/ FailWrite(j)
       \/ LET model == ModelOf(ChampionOf(jobs[j].latest), "training")
          IN  /\ models' = models \cup {model} /\ stamps' = stamps + 1
              /\ jobs' = [jobs EXCEPT ![j].model = model, ![j].stage = "row"]
              /\ UNCHANGED <<launched, pending, seen, autosaves, listed, catalog,
                             promoting, lock, faults>>

ListModel(j) ==
    /\ At(j, "training", "row")
    /\ \/ FailWrite(j)
       \/ /\ catalog' = catalog \cup {jobs[j].model}
          /\ Goto(j, "finish")
          /\ UNCHANGED <<autosaves, listed, models, stamps, promoting, lock, faults>>

Finish(j) ==
    /\ At(j, "training", "finish")
    /\ End(j, "complete") /\ UNCHANGED <<disk, faults>>

(* A benchmark or an installation ends in one of three ways. *)
WorkOther(j) ==
    /\ At(j, "other", "validate")
    /\ \/ Stop(j)
       \/ FailWrite(j)
       \/ End(j, "complete") /\ UNCHANGED <<disk, faults>>

(***************************************************************************)
(* promote_checkpoint, which holds _lock from its first read to its answer *)
(***************************************************************************)
Promote(q, stage) ==
    /\ promoting[q] # None /\ promoting[q].stage = stage

Released(q) ==
    /\ promoting' = [promoting EXCEPT ![q] = None] /\ lock' = None
    /\ UNCHANGED memory

PromoteUnlocked(q) ==  \* Mutant of PromoteLoad: the lock is not taken.
    /\ promoting[q] = None
    /\ \E j \in JobIds :
         /\ Offered(j)
         /\ promoting' = [promoting EXCEPT ![q] =
              [stage |-> "look", champion |-> ChampionOf(autosaves[j]), model |-> None]]
    /\ UNCHANGED <<memory, disk, lock, faults>>

PromoteLoad(q) ==
    /\ LockIsFree /\ promoting[q] = None /\ lock' = q
    /\ \E j \in JobIds :
         /\ Offered(j)
         /\ promoting' = [promoting EXCEPT ![q] =
              [stage |-> "look", champion |-> ChampionOf(autosaves[j]), model |-> None]]
    /\ UNCHANGED <<memory, disk, faults>>

(* A listed model of the champion is the answer; otherwise one is saved. *)
PromoteLook(q) ==
    /\ Promote(q, "look")
    /\ \/ /\ \E m \in catalog : m.champion = promoting[q].champion
          /\ Released(q)
       \/ /\ ~\E m \in catalog : m.champion = promoting[q].champion
          /\ promoting' = [promoting EXCEPT ![q].stage = "save"]
          /\ UNCHANGED <<memory, lock>>
    /\ UNCHANGED <<disk, faults>>

FailHolding(q) ==  \* Mutant of FailPromotion: the lock is not given back.
    /\ faults < MaxFaults /\ faults' = faults + 1
    /\ promoting' = [promoting EXCEPT ![q] = None]
    /\ UNCHANGED <<memory, disk, lock>>

FailPromotion(q) ==
    /\ faults < MaxFaults /\ faults' = faults + 1
    /\ Released(q) /\ UNCHANGED disk

PromoteSave(q) ==
    /\ Promote(q, "save")
    /\ \/ FailPromotion(q)
       \/ LET model == ModelOf(promoting[q].champion, "promotion")
          IN  /\ models' = models \cup {model} /\ stamps' = stamps + 1
              /\ promoting' = [promoting EXCEPT ![q].model = model, ![q].stage = "list"]
              /\ UNCHANGED <<memory, autosaves, listed, catalog, lock, faults>>

PromoteList(q) ==
    /\ Promote(q, "list")
    /\ \/ FailPromotion(q)
       \/ /\ catalog' = catalog \cup {promoting[q].model}
          /\ Released(q)
          /\ UNCHANGED <<autosaves, listed, models, stamps, faults>>

(***************************************************************************)
(* A crash forgets the jobs and keeps the files.                           *)
(***************************************************************************)
Restart ==
    /\ faults < MaxFaults /\ faults' = faults + 1
    /\ jobs' = [j \in JobIds |-> None] /\ pending' = None
    /\ promoting' = [q \in Promoters |-> None] /\ lock' = None
    /\ UNCHANGED <<launched, seen, disk>>

RunTraining(j) ==
    \/ Validate(j) \/ PlayArena(j) \/ SaveAutosave(j) \/ ListAutosave(j)
    \/ SaveModel(j) \/ ListModel(j) \/ Finish(j)

RunJob(j) == Begin(j) \/ RunTraining(j) \/ WorkOther(j)

PromoteOn(q) == PromoteLook(q) \/ PromoteSave(q) \/ PromoteList(q)

Next ==
    \/ StartTraining \/ ResumeTraining \/ StartOther
    \/ \E j \in JobIds : CancelJob(j) \/ Acknowledge(j) \/ RunJob(j)
    \/ \E q \in Promoters : PromoteLoad(q) \/ PromoteOn(q)
    \/ Restart

Spec == Init /\ [][Next]_vars

(* The job's thread and the promoting request go on (there is one of each  *)
(* at most), and a job that waits for the lock again and again gets it.    *)
Fairness ==
    /\ SF_vars(\E j \in JobIds : RunJob(j))
    /\ WF_vars(\E q \in Promoters : PromoteOn(q))

FairSpec == Spec /\ Fairness

-----------------------------------------------------------------------------

TypeOK ==
    /\ jobs \in [JobIds -> Job \cup {None}]
    /\ launched \in 0..MaxJobs
    /\ pending \in JobIds \cup {None} /\ seen \in BOOLEAN
    /\ autosaves \in [JobIds -> Checkpoint \cup {None}]
    /\ listed \in [JobIds -> Checkpoint \cup {None}]
    /\ models \subseteq Model /\ catalog \subseteq models
    /\ stamps \in Nat
    /\ promoting \in [Promoters -> Promotion \cup {None}]
    /\ lock \in Promoters \cup {None}
    /\ faults \in Nat

(* The generations 1, 2, ... n, each once and in order. *)
Uninterrupted(n) == [i \in 1..n |-> i]

Exact(c) == c.gen \in 1..c.target /\ c.past = c.gen /\ c.steps = Uninterrupted(c.gen)

\* However often training was stopped, extended, resumed or cut by a restart,
\* an autosave and a model are those of an uninterrupted run: every generation
\* once, in order, none in part, and as many in the history
\* (docs/draft-lab.md: "Extending a one-generation trial is deterministic and
\* matches an uninterrupted run").
MatchesUninterrupted ==
    /\ \A j \in JobIds : autosaves[j] # None => Exact(autosaves[j])
    /\ \A m \in models : m.champion.steps = Uninterrupted(m.champion.gen)

\* A job that was stopped, or that completed, has its last generation on disk
\* and in the catalog ("the latest completed checkpoint remains usable"); and
\* whatever failed or crashed, a row never shows more than its file holds and
\* never lags more than one generation behind.
StoppedKeepsItsWork ==
    \A j \in JobIds :
        /\ Ended(j) /\ jobs[j].status # "failed" /\ jobs[j].latest # jobs[j].resume
             => autosaves[j] = jobs[j].latest /\ listed[j] = jobs[j].latest
        /\ listed[j] # None => /\ autosaves[j] # None
                               /\ autosaves[j].gen \in {listed[j].gen, listed[j].gen + 1}

\* Requests that promote the same champion agree on one model, whatever the
\* catalog, failed writes and restarts did in between: when two listed models
\* match, a training job saved one of them.
PromotedOnce ==
    \A m, n \in catalog :
        m.champion = n.champion /\ m # n => "training" \in {m.by, n.by}

\* The end of the last job stays recoverable until a page has shown it, and
\* an acknowledgement that comes late for an older job does not take it away.
EndIsRecoverable ==
    \A j \in JobIds : pending = j <=> j = launched /\ Ended(j) /\ ~seen

(* Why the properties above are inductive: what a job has written, by the  *)
(* stage it is in or ended at.                                             *)
OwnWork(j) == jobs[j].latest # jobs[j].resume

WorkOK(j) ==
    LET job == jobs[j] IN
    /\ job.resume # None => Exact(job.resume)
    /\ job.latest # None => Exact(job.latest)
    /\ job.resume # None => job.latest # None /\ job.resume.gen <= job.latest.gen
    /\ job.kind = "other" => job.stage = "validate" /\ job.latest = None /\ job.resume = None
    /\ job.kind = "training" => job.settings \in Settings /\ job.target > 0
    /\ job.stage = "validate" => ~OwnWork(j)
    /\ job.stage = "arena" => job.latest = None \/ job.latest.gen < job.target
    /\ job.stage \in {"save", "list"} => OwnWork(j)
    /\ job.stage \in {"save", "list", "model", "row", "finish"} => job.latest # None
    /\ job.stage = "row" => job.model \in models /\ job.model.by = "training"
    /\ job.status = "cancelled" => job.stage \in {"validate", "arena"}
    /\ job.status = "complete" => job.kind = "other" \/ job.stage = "finish"

FilesOK(j) ==
    LET job == jobs[j] IN
    /\ ~OwnWork(j) => autosaves[j] = None
    /\ OwnWork(j) /\ job.stage = "save" =>
         /\ listed[j] = autosaves[j]
         /\ autosaves[j] # None => autosaves[j].gen + 1 = job.latest.gen
    /\ OwnWork(j) /\ job.stage = "list" =>
         /\ autosaves[j] = job.latest
         /\ listed[j] # None => listed[j].gen + 1 = job.latest.gen
    /\ OwnWork(j) /\ job.stage \in {"arena", "model", "row", "finish"} =>
         autosaves[j] = job.latest /\ listed[j] = job.latest

JobsOK ==
    \A j \in JobIds :
        /\ Started(j) => j <= launched /\ WorkOK(j) /\ FilesOK(j)
        /\ IsActive(j) => j = launched /\ ~seen
        /\ j > launched => autosaves[j] = None
        /\ listed[j] # None => autosaves[j] # None

PromotersOK ==
    \A q \in Promoters :
        /\ promoting[q] # None <=> lock = q
        /\ promoting[q] # None =>
             promoting[q].champion.steps = Uninterrupted(promoting[q].champion.gen)
        /\ promoting[q] # None /\ promoting[q].stage # "look" =>
             \A m \in catalog : m.champion = promoting[q].champion => m.by = "training"
        /\ Promote(q, "list") => /\ promoting[q].model \in models
                                 /\ promoting[q].model.by = "promotion"
                                 /\ promoting[q].model.champion = promoting[q].champion

IInv ==
    /\ TypeOK /\ JobsOK /\ PromotersOK
    /\ MatchesUninterrupted /\ StoppedKeepsItsWork /\ PromotedOnce /\ EndIsRecoverable

\* The laboratory does not stay busy: a failed write, a stop at any moment and
\* a promotion that holds the lock all let the job end, so that another starts.
JobsEnd == Busy ~> ~Busy
=============================================================================

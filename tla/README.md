# Verification of Fantasy Trade Evaluator

TLA+ specifications of the stateful parts of `trade_snapshot` and of its exact
algorithms, the TLC runs that check them on small instances, and TLAPS proofs of
what matters most for instances of any size. Paths below are relative to
`src/trade_snapshot/` unless they start with `src/`.

The program is a local web application: an HTTP server on the loopback interface, a
service object behind it, background threads for long jobs, SQLite stores and JSON
files on disk, pages that poll it, and a browser extension that collects other sites'
pages for it. Most of its 90,000 lines are pure functions over captured data. What is
hard in it is the rest: threads that share locks and futures, an extension that may be
killed at any moment, downloads and jobs that may be cancelled or die between two
writes, pages that act on what they last saw, and a search that promises to examine
every trade, in an order it can resume. That rest is what is modelled.

    tlc -workers 2 -config BridgeExchange.cfg MCExtensionBridge   # a run
    tlapm ExtensionBridgeProofs.tla                               # a proof

## 1. The parts of the system

| Part | State it keeps | Operations | Talks to |
|---|---|---|---|
| Command bridge, `extension_bridge.py` | one pairing code, one session token, one command slot, the receipt of the last completion | `create_pairing`, `connect`, `disconnect`, `poll`, `complete`, `execute`, `close` | collector threads (`execute`), the server's handler threads (the rest) |
| Service worker, `browser_extension/service_worker.js` | session, pending pair, scan tab, command in flight; a copy in `chrome.storage.session` | accept a pair, poll loop, run a command, deliver its result, stop, restore | the bridge over HTTP, tabs, popup |
| Collectors, `browser_extension/collectors/`, dispatcher, popup | none beyond a page | one operation per command | the worker |
| Weekly collection, `weekly_collection.py`, `job_retention.py` | job records, staging directory, bundle directory | `start`, `cancel`, `acknowledge`, the job thread, recovery at start | the workflow, history store, league workspaces |
| Workspaces and catalog, `league_workspace.py`, `league_catalog.py` | profiles, which profile owns which bundle (SQLite) | import, assign, associate | weekly collection, app service |
| Trade search, `search_runner.py`, `search_store.py`, `league_search.py`, `three_way_*.py` | per request and pair a SQLite store with a checkpoint and results, a writer lock file | open/migrate/bind, evaluate, flush, verify, read an outcome | app service (job, cancel, timing), trade space |
| Trade space, `trade_space.py`, `three_way_trade.py`, `trade_package_enumeration.py`, `trade_filter*.py` | none | count, iterate from an index, match a filter | search |
| Rosters, `roster_adjustment.py`, `roster_capacity.py`, `lineup.py` | none | seat reserve players, drop, add; predict all that from counts | search |
| Application service, `app_service.py` | job records, futures and caches of heavy calculations, build locks, the activity lock | every route of the page | everything below it |
| Draft rooms, `draft_assistant.py`, `draft_espn_live.py`, `web_assets/draft_lab.js` | one JSON file per room, a page's copy of it | open, pick, undo, sync with a public draft | Draft Lab service |
| Draft training, `draft_training.py`, `draft_persistence.py`, `draft_service.py` | jobs, checkpoints and models, each an asset and a catalog row | start, stop, resume, promote, acknowledge, prune | the activity lock and guard of the app service |
| Corpus installation, `draft_corpus_install.py` | downloads with `.part` files, `state.json`, receipts | prepare, download, build | Draft Lab service |
| Local server, `local_server.py`, `web_assets/app.js` | the browser clients that ping it | routes, ping, close, lifecycle monitor | app service, bridge |
| Operation timing, `operation_timing.py` | phase, units, pauses | `observe`, `pause`, `resume`, `finish` | every job |
| League history, `_league_history_*.py` | SQLite history bound to bundles | ingest, read | weekly collection |
| Archives, bundle files, caches | content-addressed files | save, load, summarise | collection, service |
| Sources, projections, identity, assembly | none | pure | collection |
| Strength, calibration, seasons, scenarios | none | pure, floating point | service |
| Insights, timing, impact, outlooks, dashboards | none (cached by the service) | pure | service |
| Workbooks, other web pages | none | views | service |

`PROJECT.json` lists every part with its files and whether it is modelled.

What is hard, and where (with lines under `hazards` in `PROJECT.json`):

* **Bridge**: a caller wakes after its answer, its deadline, its cancellation and a
  disconnect have all happened; completions are repeated; sessions are replaced.
* **Worker**: each `await` lets other handlers in; the browser kills the worker;
  requests and replies are lost and retried.
* **Weekly collection**: four writes in sequence, each of which may fail or be the
  last before a crash; cancels; the same bundle imported meanwhile.
* **Search**: several processes, crashes, cancels, a schema that is created by
  statements that commit one by one, outcomes read long after the search went on; and
  candidates that are counted by one algorithm, listed by a second, sought by a third
  and judged by a fourth, which must all agree.
* **Service**: fourteen kinds of work that exclude or share one another, through
  guards that each read many fields, with calculations that ask for calculations.
* **Draft rooms**: a synchronisation reads the public draft before it takes the lock;
  replies cross; pages act on a room that has gone on.
* **Training and installation**: files written one after the other, a crash between any
  two, requests that promote a file while a job writes it, servers that change a file
  under a download that is resumed.
* **Server**: it must stop when nobody is left, though no page can be trusted to say
  goodbye, and must not stop under a page the browser has throttled.

## 2. The modules

    CommandExchange  <==implements==  ExtensionBridge  <--EXTENDS--  ServiceWorker
    DraftLedger      <==implements==  DraftRoom
    RosterAdjustment <-- TradePackages <-- TradeSpace <-- TradeEvaluation
    WeeklyPublication   TradeSearch   HeavyWork   DraftTraining   CorpusInstall
    BrowserLifecycle

`X.tla` is the specification, `MCX.tla` its instance for TLC, `XProofs.tla` its theorems;
`ExtensionBridgeProofs` holds those of the bridge and of its worker, `LocalServerProofs`
those of `HeavyWork` and of `BrowserLifecycle`, `DraftLabProofs` those of `DraftRoom` and
of `DraftTraining`, and `TradeEvaluationProofs` with `TradeSpaceProofs` those of the four
modules of trades.

### CommandExchange, ExtensionBridge
`ExtensionBridge` is `ExtensionCommandBridge`. Every public method runs under one
`Condition`, so a method is one action up to the point where its thread waits;
`execute` is `ExecutePrecheck` (the `cancelled()` before the lock), `ExecuteRefuse`
or `ExecuteSubmit`, then `ExecuteWake`/`ExecuteSleep`/`ExecuteReturn` round the wait
loop; `poll` is `Poll` and `PollLook`; `complete` is `CompleteAccept`,
`CompleteLate` and `CompleteReplay`. A thread in `wait()` is `asleep` until a
`notify_all` or its timer makes it `awake`. Time appears as the facts the code asks
for: a deadline has passed or not. Tokens are drawn fresh from `Secrets`; that
`token_urlsafe` never repeats is assumed. A payload is its kind (`result` or
`error`) and a value, as the digest in the receipt sees it. The last five variables
are history that the properties speak of.

`CommandExchange` is what a caller is promised, in two variables: refused, or opened
in the only place, handed out at most once, settled at most once, and what settles
it is what returns. The refinement maps `pc`, `state`, `terminal`, `answer` to a
phase and a verdict (`PhaseOf`, `VerdictOf`).

### ServiceWorker
Extends the bridge, so both ends of the protocol run together. A JavaScript handler
runs to its next `await`: one action per stretch between awaits on requests, tabs
and operations. `chrome.storage.session` writes take effect in the order they are
issued. A poll is sent (`PollSend`), served by a bridge thread (`PollServe`), and its
reply received (`Receive`) or lost (`PollFails`). A delivery is accepted, stale,
expired, refused or lost, with three attempts. `StopSession` is the part of
`stopSession` before its first await; `StopTells` and `StopCloses` are the rest.
`Kill` drops the worker's memory, `RestoreSession` and its siblings are `restoreSession`.
What a command does in its page is one step that ends in a result or an error. Every step
of the worker is a step of the bridge or leaves the bridge alone (theorem
`WorkerIsAClient`), so that what is proved of the bridge holds with its worker.

### WeeklyPublication
`WeeklyCollectionJobs` with the workspaces it publishes into. The job thread goes
through begin, collect, check, stage, ingest, attempt, publish, associate, finish;
every write of it either happens or raises. `Crash` forgets everything but the disk,
`Recover` publishes the stages one by one. `Import` and `Assign` are the user's.
Bundles are named by their content, so two jobs may return the same one. `Prune` is
`prune_terminal_jobs`, applied by `Settle` in the step that ends a job; `Recoverable` is
what `recoverable_job` may answer. The workflow is one step that returns a bare bundle,
one with captured history, or one with a reason why there is none, or raises.

### TradeSearch
One search job per process over a request: the stores of all pairs in turn, or one
three-team store. A candidate is its index; which indexes qualify is a constant,
because the store is bound to a run definition that fixes it. `stage` is how much
of a store's schema exists, statement by statement, since Python's `sqlite3` opens a
transaction for `INSERT` and `UPDATE` only. `Evaluate`, `Flush`, `Stop`, `Exhaust`,
`Verify` are the loop of `run()`; `views` are the outcomes a process holds, whose
rows are read again later. Any step may raise (`Fail`), any process die (`Crash`).

### RosterAdjustment, TradePackages, TradeSpace, TradeEvaluation
What `TradeSearch` takes for granted: that the indexes of a store mean the same trades
in every run, and that `total` counts them. The modules translate algorithms as
operators, with folds and recursive functions and no `RECURSIVE`.
* `RosterAdjustment`: which reserve players keep a slot after a trade, which drops and
  additions a team must make, and `CapacityPlan`, the arithmetic that predicts it from
  numbers of players alone. Which of the legal choices has the best score is left to a
  `\E`: scores are floating point.
* `TradePackages`: the packages of one side, listed and counted, under a
  `TradePackageFilter` or an expression compiled to evidence masks. Bits are members of
  sets; an expression is a sequence of nodes, operands first.
* `TradeSpace`: two teams by pairs of package sizes, three teams by one decision per
  player with pruning; both counted, iterated, and sought by index. A player's destinations
  are a set, tried in the order `Place` (its own team first); `_iterate` is the recursive
  function `iterate` over what a call of the generator has in hand (`Frames`: the partial
  trade, the place in its player's destinations, what is still to be skipped, the choices
  so far), and `Routed` is `_candidate`, which appends one player after the other.
* `TradeEvaluation`: the walk of a search over its space, stopped and resumed, with the
  adjustment of one team after the other from the same waiver pool. Its reference is
  written from what a trade is: every way to move the players, the filters as their
  documentation defines them, the capacity as the existence of a cut and a seating.
  `SpaceIsExact` (`IteratesTrades` for a space just opened) is what a search needs of its
  iterator; the walk's own properties follow from it by proof.

Left out: the memo of packages (`_ReplayablePackages`), which changes no answer;
`minimum_active`, which no caller sets, with the separate coverage programs for it (a side
without reserve slots is counted by its one signature instead); rosters whose list of players is incomplete.

### HeavyWork
Who may run with whom. A piece of work is a kind, a bundle and a part. A thread has a
stack of calls (`frames`): a player detail asks for its catalog, which asks for the
read model. `FindKept`, `Join`, `Refuse`, `Own` are the first lines of each method
(cache, future, guard, new future); `Hold`/`Load`/`Release` are Draft Lab's work under
the activity lock; `Enter`, `Build`, `Break`, `Keep`, `Settle`, `Drop` are a calculation
with its build lock, its `set_result`/`set_exception`, its `finally`. The activity lock
has a holder only where the code keeps it for long; elsewhere what is done under it is
one step. `Blocks` is one table for the guards, which the code writes out in each
method. Left out: the draft, collection, timing and recommendation locks, whose
holders wait for no other lock except that they hold the activity lock already.

### DraftLedger, DraftRoom
`DraftRoom` is a draft room, its file, the pages open on it and the public draft it may
follow. What `_activity_lock` covers is one action, since the room is read, changed and
saved inside it; a sync is two, the read of the public draft and the reconciliation with
whatever the room is by then. A page has at most one action and one sync under way;
replies arrive in any order or not at all, so that a page may be left with an older room
than it has shown before. `away` stands for the reasons for which a page sends nothing
(`document.hidden`, another surface, `externalWorkBusy`), which come and go at any time.
`league` is the league field: the user types and clears it, a reply with a binding fills
it and makes it read-only, and opening an unbound room empties it. Without a league
`syncEspnDraft` returns at once, and neither the button nor the timer switches the
automatic sync off, so that `AutoCatchesUp` does not ask it of an unbound room without a
league. Recommendations and the parsing of the public page are left out.

`DraftLedger` is the promise: picks in snake order, nobody twice, appended by hand or
from the one public draft the room is bound to, and only the last one ever taken back.

### DraftTraining
The jobs of `draft_service.py` (one at a time; `"other"` stands for the benchmark and
the corpus install, which share the slot), a training job's generations with its
autosaves, its model, and `promote_checkpoint`. Every file is an asset and a catalog row,
written one after the other. A population is the sequence of the generation numbers it
went through under its settings: each generation is deterministic from its seed, so that
this is what may differ. Left out: the cache of loaded models, the simulations.

### CorpusInstall
The downloads of `draft_corpus_install.py` in their fixed order. A file's content is its
sequence of blocks, each named by the version it came from, so that a splice of two
versions is visible; a digest is the content. `.part` file, state file and promotion are
separate writes. The server changes versions, ignores ranges, forgets tags, cuts a reply
short or answers with another version than asked. Left out: a release asset published
without a digest, of which the manifest knows the size alone.

### BrowserLifecycle
The clients of `local_server.py` with the pages that ping. A page is open, awake or
asleep (frozen, or in the back/forward cache), and may be lost without a word. Ages are
counted in units of half a minute, up to the limit they are compared with. Tickets of
model downloads are left out.

## 3. The runs

| Run | Instance | What it asks |
|---|---|---|
| `bridge_exchange` | 2 callers (one with `cancelled`), 1 poll, 3 secrets, 1 value, fair | an acknowledged answer is returned; the slot belongs to its session; no lost wake-up; refinement of `CommandExchange`; every `execute` and `poll` returns |
| `worker_delivery` | 2 commands, 1 lost message, 1 kill | a command runs once; an answer is that of its own operation; storage equals memory whenever a kill may strike |
| `worker_losses` | 1 command, 3 secrets taken in order, 3 lost messages, fair | a session that a new pairing or the end of the bridge revokes is noticed |
| `weekly_safety` | 2 jobs, 1 bundle, 2 leagues, 1 retained record, 1 crash | nothing staged is lost; complete means whole; an early cancel publishes nothing; the unseen result survives pruning |
| `search_safety` | 2 processes, pairs of 4 and 2 candidates, a three-team store of 3, interval 3, batch 2, 3 starts | the store is exactly what was examined; counts reconcile; outcomes are snapshots; progress never moves back |
| `trade_evaluation` | 872 requests, interval 3, 1 stop | the iterator, from any index, yields the trades found by brute force, each once, as many as were counted, and only trades the counting rule admits; an index always means the same trade; an ended search has examined every trade; only the waiver pool refuses one; adjustments are legal and disjoint |
| `heavy_exclusion` | 3 threads, one work per kind and two details, caches of one | exclusion, sharing, nested needs, nothing left behind, no circle of waiting; deadlock is checked |
| `draft_room` | 2 teams, 1 round, 2 players, 1 public draft with 2 orders, 1 page that comes and goes, 2 actions, 2 changes of the public draft, 1 fault, fair | refinement of `DraftLedger`; automatic sync of a page that is there and has a league catches up or ends; deadlock is checked |
| `draft_training` | 1 settings, 1 or 2 generations, 2 jobs, 2 records retained, 2 promoters, 1 fault, fair | checkpoints and models equal an uninterrupted run's; stopped work is kept; promotions agree; the last end is recoverable; jobs end |
| `corpus_install` | a pinned, tagged, ranged file and one with nothing known, versions of 2 and 3 blocks, 2 changes, 2 faults, 1 cancel, 2 crashes, fair | pinned files are exact; a receipt names its sources; splices need a lost tag; retries complete |
| `browser_lifecycle` | 2 page loads, limits 2, 6, 1, 4, fair | never stops under use; stops when unused |
| `search_interrupted_can_resume` | 1 process, 2 starts | the disagreement of section 5 |

A run lists no type invariant and no inductive invariant where these are proved. TLC
found each of them to hold in its run's instance before it was proved.
`OwnershipIsFinal` of `WeeklyPublication` is proved and holds in `weekly_safety`;
`AdmittedNeedOnlyWaivers` and `CountIsExact` of `TradeEvaluation` are proved and hold in
`trade_evaluation`. `PlansAreExact` is proved; it speaks of every transfer, refused ones
included, a set TLC does not enumerate, so that no run lists it.

**Bounds.** Named constants: `MaxFaults`, `MaxLosses`, `MaxRestarts`, `MaxCrashes`, `MaxStarts`,
`MaxStops`, `MaxJobs`, `MaxActs`, `MaxEspn`, `MaxChanges`, `MaxCancels` bound the
environment; `MaxRetained`, `Retained`, `CheckpointInterval`, `MaxBatch`, `Capacity`,
`SaveEvery`, `MaxSize` are the code's own limits, made small enough to be met.
* *Bridge*: two callers are enough for one to find the slot taken, to take it after
  the other, and to be mixed up in a receipt. Three secrets are a session and its
  replacement's code. One value is enough since a result and an error of the same value
  already differ.
* *Worker*: three failed polls, or three failed deliveries, are what ends a session. One
  command in the fair run; two where they could be confused. In `worker_losses` the three
  secrets are the code and the token of one session and the code of the pairing that
  revokes it, while its worker polls, has the command, runs it or delivers; that the
  worker pairs again would take a fourth, and is left to the proofs of the safety
  properties. Secrets are alike, and `FreshInOrder` has them drawn in one order, which
  loses no behaviour but for their names (no fair action draws one). Kills are in
  `worker_delivery`, where two secrets are one session.
* *Weekly*: two jobs that return the same bundle and two leagues that want it are all
  the conflicts there are; one record retained makes every second ending prune; one
  crash and one recovery meet any combination of the writes, and a crash after a
  recovery finds nothing that a first one could not.
* *Search*: pair `d1` meets the batch limit before the interval, the three-team store
  the interval before the limit, `d1` ends off an interval, and stores start new or as
  version 1 at any checkpoint. Three starts are one to be interrupted, one to resume,
  and one to run beside it.
* *Trade evaluation*: three families. The first varies slots, reserve players, room
  under the cap, drops and the waiver pool for two teams of 3 and 2 players; the second
  eleven outgoing and four incoming filters, with every operator and every mode, under
  five sets of limits, with and without reserve slots; the third has three teams of 2,
  2 and 1 players. Resuming is tried from every checkpoint a stop can leave.
* *Heavy work*: three threads are an owner, one who joins it, and one whose other work
  races the guard. General Manager Insights are left out of the instance because their
  guard and steps are Trade Timing's; the proofs include them.
* *Draft room*: the smallest draft that completes. Two orders are a binding and one that
  contradicts it; two changes are a pick and its rollback, two picks, which complete it,
  or a pick and a new order. One round
  never turns the snake, and one page never races another; the proofs cover both.
* *Training*: two jobs are one and the one that resumes its autosave; two promoters race
  each other and the job. With two records retained and two jobs, pruning never drops
  one; the proof covers it.
* *Corpus*: with sizes 2 and 3 under limits 3 and 2 a file is shorter than expected,
  exact, longer, and over its limit; `SaveEvery` lies beyond a file's first save.
  Older installs hold a whole version and a piece of the other. Two crashes reach a
  resumed attempt's own crash.
* *Browser*: 20 s between pings is at most a minute in a throttled background tab
  (2 units), `idle_timeout` is 180 s (6), `close_grace` 30 s (1), `launch_timeout` 120 s
  (4). Two page loads are two tabs, or a page and its reload.

**Symmetry** permutes identical threads, tokens and jobs, only in runs without liveness.

**Deadlock** is checked in `heavy_exclusion` and `draft_room`. In the others the system
may stop: calls and jobs are made once each; secrets, starts and pages run out.

**Fairness** is stated only for what the program or the operating system does; no stop,
fault, kill, change of a server or user action is fair.
* `ExtensionBridge`: a deadline that is waited for passes, a thread that is awake runs
  and sees it. That is what `Condition.wait` with a timeout gives. The extension and the
  user get none, so an extension that never answers is included.
* `ServiceWorker`: the worker's poll loop takes its next step and a bridge thread serves
  a poll it has. An operation in a page that ends is one of those steps: every wait in it
  is bounded by the command's deadline (`operationTimeRemaining`, `boundedDelay`, the
  page timeouts).
* `DraftRoom`: the server handles what was sent, replies or failures arrive, and while
  the automatic sync is checked the page's timer sends the next one if `syncEspnDraft`
  gets as far (the timer is started again when the page returns). Nothing is assumed of
  the user, so that a page may stay away or without a league.
* `DraftTraining`: strong fairness of the job's steps, because a promotion may hold
  `_lock` across its file writes again and again; weak fairness of a promotion's steps.
* `CorpusInstall`: weak fairness of the installing thread, and of starting again (the
  user retries). `RetriesComplete` asks for completion once the sources are settled and
  no tag was forgotten; section 5 says what a forgotten tag does.
* `BrowserLifecycle`: time passes; a page that is awake pings in time; handlers and the
  monitor run.

## 4. What is proved

TLAPS proves, for every value of the constants that meets the assumptions named in each
module, the theorems listed in `PROJECT.json`: every safety property and action property
of the passing runs, and both refinements. In each module the properties alone are not
inductive; `IInv` (or the invariant named below) is the strengthening, and
its proof has one lemma or step per action.

* **`ExtensionBridgeProofs`, the bridge** (any calls, polls, secrets, values): that an
  acknowledged answer is returned needs to know that only a claimed command can be answered,
  that an answered one has left the slot or waits there with no error set, and that the
  receipt's answer is its command's (`CommandLife`, `ReceiptMatches`). From it: acknowledged
  answers are returned, commands are handed out once and to their session, the slot belongs
  to its session, no sleeper misses its wake-up, there is one way in.
  The refinement (`BridgeIsAnExchange`) goes action by action: a step either changes the
  phase or verdict of nobody (`UnseenStep`), or of the one call it is about (`SeenStep`) and
  then is one action of `CommandExchange`. `ExecuteReturn` is two of them: it returns what
  had been settled, or gives the command up in the same step. Assumption: `None` is no call,
  secret or answer, so that it marks absence.
* **`ExtensionBridgeProofs`, the worker** (any number of commands, secrets, faults, kills):
  `LinkIInv` adds to the bridge's `IInv` that a loop that executes or delivers has a command
  of the bridge that was claimed and is not done, that no two loops execute the same one,
  that what is to be delivered is what the operation did, and that nothing runs while the
  worker is down. It carries a command's identity across the awaits, the kill and the
  replay of a completion. From it: a command's operation runs once, an answer is that of
  its own operation, and storage is never behind memory when a kill may strike.
  Assumption, besides the bridge's: `None` is no tab and no saved session.
* **`TradeSearchProofs`** (any processes, stores, candidates, interval, batch): the heart
  is `LoopInv`: what a running search saved and what it still holds are together the
  qualifying candidates it has passed, and its counts are their number; it needs that a
  store's lock belongs to the job that has it open (`LockMatchesJob`) and that an unbound
  store is at checkpoint 0 (`SchemaMatchesJob`). From it: a store holds exactly the
  candidates before its checkpoint, the closing assertions never fail, outcomes stay
  snapshots, no step shrinks a store. That the progress a page is shown never goes back
  needs one fact more: what a job reported of a store is no more than it has passed there
  (`ReportedIsPassed`), so that resuming, flushing and the next store only raise it.
* **`LocalServerProofs`, heavy work** (any threads, works, cache sizes): exclusion
  (`WorkInv`) holds because a registration happens in the step of its guard, or, for Draft
  Lab, while the activity lock is held since the guard (`LoadsHold`); a need is never refused
  because the calculation it serves is registered meanwhile and keeps the same work out
  (`OwnersAreUnderway`, `FittingFrame`); one thread calculates an answer because only an
  absent future is registered (`SingleOwners`). `SharingInv` adds what each place in a call
  says of its future (`FuturesFit`) and of the locks (`LocksInUse`): futures are forgotten by
  their owner after they were settled, waiters wait for somebody, and nothing is left behind.
  Nobody waits in a circle because a call's needs lie strictly lower than the call
  (`Depth`, `NeedsDescend`): in any set of threads the holder of the activity lock, or one
  who is not waiting, or the waiter of the lowest depth, waits for nobody of the set.
  No cache outgrows its bound (`CachesStayInBounds`) because what stays of one without some
  works is a part of it, and a smaller one when a work is dropped (`KeptIsPart`, by counting
  up the recursion of `Kept`), and because only the answer of shared work is ever kept
  (`KeptKind`, from `FuturesFit`): a job's calls never reach `Keep`.
* **`LocalServerProofs`, the monitor** (any pages, any times with `Silence < Idle`): the
  server's memory of a page that is awake and was heard is no older than the page's own
  silence (`HeardIsRemembered`), only a page that is gone says that it closed
  (`CloseIsForGood`), and no page that was heard when the monitor looked, and no work that
  was under way when it asked, is there when it has decided to stop (`DecidedOnUnused`).
  From it: it stops only unused. Assumption: `None` is no number.
* **`WeeklyPublicationProofs`** (any jobs, bundles, leagues, retention, crashes):
  `StagedIsNeverLost` is closed under every step once it is known what a job thread has
  done by its next step (`ThreadOK`: its result is known from the check on, its record of
  the attempt agrees with the history it found, its bundle is visible when it associates
  it, and owned when it finishes). What other threads and the user do only adds to the
  disk and never changes an owner (`Grows`), so that a thread keeps what it has
  (`Untouched`). From it: nothing staged is lost, complete jobs are whole, an early cancel
  publishes nothing, ownership is final. That the last unseen result survives pruning is
  by `RecordsOK`: records are in the order of their starts, only the newest is active, and
  what is pending ended after every other; the newest has nobody after it, hence is never
  pruned (`NewestStays`). Assumptions: `Root` and `None` are distinct from each other and
  from every profile, bundle and job; `"start"` is no job.
* **`CorpusInstallProofs`** (any files, versions, limits, faults): the invariant follows
  one attempt's position through its writes: what `state.json` says of a file is true of
  the disk, a pinned file that was promoted is what was pinned, a receipt names the files
  its build read, and a `.part` file of two versions had its tag lost.
* **`DraftLabProofs`, the room** (any teams, rounds, players, public drafts, orders, pages): every
  status that was ever answered or shown is a legal room with the room's binding, because
  a room is saved before it is answered and a binding never changes. From it: a room
  follows one draft, and every step of `DraftRoom` is a step of `DraftLedger` or leaves
  its variables alone, which is the refinement (`RoomIsALedger`).
* **`DraftLabProofs`, training** (any settings, targets, arenas, retention, promoters, jobs):
  the invariant says what a job has written by its stage and which request holds the lock.
  From it: every checkpoint and model is that of an uninterrupted run, a stopped job's
  generations are kept, promotions of one autosave agree on one model, the last end
  stays recoverable.
* **`TradeEvaluationProofs`, the adjustment** (any requests, rosters, pools, orders of
  teams): adjusted rosters are legal (nobody over the cap, reserve players in slots of their
  own kind) and share no player. The argument: the choice of who keeps a slot takes as many
  as fit (`FirstAtMost`, `FirstAtLeast`, `FirstMonotone`), so cutting a player seats no more
  players than before, and a team that had to cut has no vacancy left to fill; additions
  come from what the earlier teams left in the pool, and the teams are adjusted in turn,
  each once (`TurnsAreTeams`).
* **`TradeEvaluationProofs`, the counting rule**: `CapacityPlan` knows only numbers, and yet
  agrees with the adjustment. A roster of a trade splits by kind (`PlayersByKind`); the cuts
  it requires are its excess over what the slots leave (`RequiredIsExcess`); cutting retained
  reserve players of a kind relieves the roster only up to that kind's overflow
  (`CutsFreeTheOverflow`), which bounds what any cut can free, and `EnoughMayBeCut` builds a
  cut that frees as much. Hence of every transfer, whether or not the space holds it, a team
  is admitted exactly if some cut and seating make room for what it receives
  (`CountingIsExact`), and what is admitted is refused only for the waiver pool
  (`AdmittedIsRefusedForWaiversOnly`).
* **`TradeEvaluationProofs`, three-team spaces** (any rosters, slots, rules, filters): that
  they are exact (`ThreeTeamsIterate`) follows from four facts.
  * *The recursions have a solution.* `Below` (the memoized `_count`) and `iterate` are
    recursive functions over infinite sets, of which TLA+ promises nothing until some
    function is shown to satisfy the equation. Their bodies look only at arguments of a
    smaller rank (decisions left; places left), so that a solution below a rank extends to
    the next, two such agree, and together they are one everywhere (`LooksBelow`,
    `RecursionAgrees`, `RecursionExists`). What is then proved of every argument is proved
    by a least counterexample (`LeastNatural`): the library's induction theorems take an
    operator as a parameter, which the provers cannot instantiate.
  * *Nothing is pruned too early* (`NoTradeIsGivenUp`): a partial trade that `_impossible`
    or `HasRoom` cuts off has no complete trade below it. What the remaining decisions can
    still add bounds every limit, minimum and roster cap.
  * *The iterator lists* (`PathsAreListed`): from index `n` on it yields one list without
    its first `n` members; the list has every complete path once, and as many members as
    were counted. A state's list is the join of its children's, and skipping a child by its
    count is the same as dropping that many from the join (`FromJoin`, `BranchLists`).
  * *Paths are trades* (`GoodMeansTrade`, `RoutedIsTransfer`, `RoutedIsAdmitted`): the
    complete paths are exactly the moves of the reference. The filters are judged player by
    player on the way and by evidence at the end, which together is the documented rule on
    the package (`FilterIsExact`); the sizes and slots of a path are those of its move, and
    by the counting rule its teams have room exactly if a cut and a seating exist.

  Assumptions: what the constructors accept (`RulesAssumption`: minima of at least 1, limits
  that are numbers or absent, operators with operands; `ThreeTeamAssumption`: no excluded
  size pairs, filters that name players of their side, as `ThreeWayTradeSpace` and
  `_compile_rule` refuse the rest) and that no candidate is `None` (`NoneAssumption`).
* **`TradeSpaceProofs`, two-team spaces** (any rosters, slots, rules, filters). A pair of
  package sizes is counted without listing anything and sought by dividing, so that four
  computations must agree; with the theorem on three teams, they make every space exact
  (`SpacesAreExact`, which is `SpaceIsExact`).
  * *Counting is a tally* (`CountedIsTally`): the dynamic program of `Counted` keeps for
    each state the number of choices that lead to it. One player more splits the choices
    into those without and those with that player (`CountsGrow`), and sums of the sizes
    of sets that are apart are the size of their union (`SumOfSizes`). Without reserve
    slots, evidence or uncovered positions the same number is a binomial coefficient.
  * *Listing* (`CombinationsList`, `PackagesList`): `Combinations` lists every choice of
    a size once; the packages a filter leaves are the choices of its optional players,
    completed by the required ones, and what it accepts is what the documented rule does
    (`OneRuleHolds`, `AnyExpression`).
  * *Seeking*: the candidates of a pair of sizes are rows of one length, one per outgoing
    package. Dropping whole rows by `divmod` and the rest within one row drops as many
    candidates as asked (`SimpleSkips`); where some pairs are not admitted, what is dropped
    is dropped from the list of those that are.
  * *The sizes together*: distinct pairs of sizes have no trade in common, every trade has
    its pair, and what `_iterate_from` counts off is the length of what it leaves out.

  Sums, flattened lists and `from` are recursions over sets, sequences and numbers as
  before; each is shown to have a solution and followed by a least counterexample.
* **`TradeSpaceProofs`, the walk**: by `WalkInv` (every index before `next` was examined with
  its own trade, nothing else was, and the open iterator stands at `next` or behind the
  candidate on trial) and `SpacesAreExact`, indexes are stable, an ended search has examined
  exactly the trades, the total is their number, and by `AdmittedIsRefusedForWaiversOnly` only
  the waiver pool refuses one, however often the search is stopped and from whatever
  checkpoint it resumes.

Only model-checked:
* every liveness property (`EverybodyReturns`, `RevokedIsNoticed`, `AutoCatchesUp`,
  `JobsEnd`, `RetriesComplete`, `StopsWhenUnused`) and the fairness behind them: fairness
  and `ENABLED` are out of the prover's reach.

## 5. Where texts and code disagree

One disagreement is a run that TLC must find violated:

* `search_interrupted_can_resume`: the repository's README (line 50) promises that an
  interrupted run can resume; a process that dies while a store's schema is created or
  migrated leaves a store that every later identical run refuses.

Seen while modelling, and open to judgement, without a run:
* *Weekly*: the page says of every failed collection that no bundle was published, though
  a refused association or an unreadable read-back fails the job after the bundle is
  visible; recovery publishes a stage whose sidecars were never recorded, though its
  docstring says it finishes those left "after their sidecars were recorded"
  (`weekly_collection.py:883`); evidence of a bundle without an owner is kept in the
  application's own directory (`league_workspace.py:432`).
* *Worker*: a session stopped while its scan tab is being created leaves the tab open
  (`service_worker.js:489`); a second stop aborts the disconnect request of the first and
  sends none (`:871`); a worker killed between the bridge's claim and its own note of the
  command polls on (`:379`); a pair request is accepted while an accepted one is still
  connecting (`:286`); the end of an old session may close the scan tab of a new one
  (`:878-881`).
* *Draft rooms*: the only conflict check is the number of the drafter on the clock, so a
  pick from a page with an old room may land on another overall pick of the same drafter,
  and an undo from it removes a pick it does not show; an undo whose reply was lost and
  is repeated removes two. A page left at an older "complete" status keeps its automatic
  sync checked, and idle; so does a page without a league, which says so only when the
  box is checked or the button is used (`draft_lab.js:1047-1051`).
* *Training*: the job's own `save_model` neither takes the lock nor looks for a model of
  the same content, so that a finished checkpoint resumed with the same target is saved
  as a second one; a crash between an asset and its row leaves a file no list shows; a
  listed row one generation behind makes a resume be refused; starting a job from another
  page drops the result of the last one that nobody has seen.
* *Corpus*: a reply cut short is promoted for a file that is not pinned
  (`draft_corpus_install.py:567`), and every later build fails on it; a `.part` file that
  is longer than expected, or complete but not yet closed by an empty read, asks for a
  range beyond the end and is refused every time when its tag is lost; a cached manifest
  is never refreshed; a crash after the receipt leaves the state "building".
* *Server*: the monitor decides on a view of its clients that may be stale by the time it
  stops (`local_server.py:208-229`); `launch_timeout` does not ask whether work is under
  way.

## 6. Not modelled

* Everything numerical (seasons, scenarios, strength, calibration, timing, insights, the
  scores of a lineup, the simulations of a training generation): no concurrent state, and
  floating point, which TLC does not have.
* Parsing and normalisation of other sites' pages, and the formats of records, workbooks
  and pages: no behaviour beyond a function of their input.
* Weekly assembly, bundle and history codecs: pure functions from captures to records,
  whose correctness is that of their many field rules.
* Collectors and the browser: one step with its possible ends.
* Operation timing: nothing observes progress while an operation is paused. The sign-in
  gate (`production_calibration.py:73`) has no state to wait in, and weekly collection
  never calls `observe`; the search's rule that completed units never go back is
  `ProgressOnlyAdvances`.
* SQLite and the file system are external: a transaction, an `os.replace` and a statement
  outside a transaction are atomic and durable.

The mapped lines are a small part of the implementation, because most of the
implementation is of the kinds named here.

## 7. Plan

Modelled so far are the parts in which several actors, crashes or an exact enumeration
meet. What is left, most valuable first:

1. `HistoryStore`: merging captured transactions into a history that is bound to bundles.
2. `LeagueCatalog`: profiles and their migration, beside the associations that
   `WeeklyPublication` has.
3. `PublicPlayerCache`: a cached value that outlives its source.
4. The lineup optimiser of `lineup.py` against a reference, with small integer scores.

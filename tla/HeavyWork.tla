------------------------------ MODULE HeavyWork ------------------------------
(***************************************************************************)
(* How the application shares the machine between the heavy things it does *)
(* (app_service.py, draft_service.py): which of them may run together, how *)
(* requests for the same answer share one calculation, and the locks they  *)
(* take on the way.                                                        *)
(*                                                                         *)
(* Threads are the request threads of the local server and the threads of  *)
(* the background jobs.  A piece of work is one thing to do for one key;   *)
(* what it computes is left out, and so is whether the search an export is *)
(* asked for is complete.  The activity lock (LocalAppService._lock,       *)
(* shared with Draft Lab) is held across steps only while Draft Lab loads  *)
(* what a job needs or answers the draft assistant, so only then does it   *)
(* have a holder here; elsewhere what is done under it is one step.  The   *)
(* draft, collection, timing and recommendation locks are left out: who    *)
(* holds one waits for no other, or holds the activity lock already.       *)
(***************************************************************************)
EXTENDS Naturals, Sequences, SequencesExt, FiniteSets

CONSTANTS
  Threads,
  Works,      \* the work there is: [kind, bundle, part]
  Whole,      \* the part of work that is about a whole bundle
  Capacity,   \* per cached kind, how many answers its cache keeps
  Nobody

PlayerLab == {"outlook", "catalog", "detail", "read"}
Joined == PlayerLab \cup {"dashboard", "gm", "timing", "baseline"}
Jobs == {"search", "collect", "export", "draft"}
Assists == {"assist", "glance"}   \* a recommendation is due, or the session is only shown
Heavy == (Joined \ {"baseline"}) \cup Jobs
Kinds == Joined \cup Jobs \cup Assists
Builders == {"player", "season"}

For(w, kind) == [kind |-> kind, bundle |-> w.bundle, part |-> Whole]

\* What a calculation asks for before it builds; Trade Timing prepares no
\* season when no regular week remains.
Needs(w) ==
  CASE w.kind = "detail" -> {<<For(w, "catalog"), For(w, "read")>>}
    [] w.kind = "catalog" -> {<<For(w, "read")>>}
    [] w.kind \in {"dashboard", "search"} -> {<<For(w, "baseline")>>}
    [] w.kind = "timing" -> {<<For(w, "baseline")>>, <<>>}
    [] OTHER -> {<<>>}

ASSUME WorkAssumption == \A w \in Works : w.kind \in Kinds
ASSUME NeedsAssumption == \A w \in Works : Needs(w) \subseteq Seq(Works)
ASSUME CapacityAssumption == Capacity \in [Joined -> Nat \ {0}]
ASSUME NobodyAssumption == Nobody \notin Threads

VARIABLES
  frames,      \* per thread, the calls it is in: the last waits for nothing below it
  future,      \* per work, its entry among the futures, or its job's: "none" if absent
  cache,       \* per kind, the works whose answers are kept, newest last
  activity,    \* the thread that holds the activity lock across steps
  builder      \* the holders of _player_outlook_build_lock and _baseline_build_lock

vars == <<frames, future, cache, activity, builder>>

Init ==
  /\ frames = [t \in Threads |-> <<>>]
  /\ future = [w \in Works |-> "none"]
  /\ cache = [k \in Joined |-> <<>>]
  /\ activity = Nobody
  /\ builder = [b \in Builders |-> Nobody]

-----------------------------------------------------------------------------
(* What excludes what.                                                     *)

Underway == {w \in Works : future[w] # "none"}

Running == {w.kind : w \in Underway}

\* Mutant of Blocks: a search does not look at Trade Timing.
BlocksButTiming(kind) ==
  CASE kind \in {"read", "baseline", "glance"} -> {}
    [] kind = "dashboard" -> Heavy \ {"dashboard"}
    [] kind \in PlayerLab \ {"read"} -> Heavy \ PlayerLab
    [] kind = "search" -> Heavy \ {"timing"}
    [] OTHER -> Heavy

\* Mutant of Blocks: each part of the Player Lab shuts the other parts out.
BlocksOtherParts(kind) ==
  CASE kind \in {"read", "baseline", "glance"} -> {}
    [] kind \in ({"dashboard"} \cup PlayerLab) \ {"read"} -> Heavy \ {kind}
    [] OTHER -> Heavy

\* The futures, jobs and flags the guard of each kind looks at.
Blocks(kind) ==
  CASE kind \in {"read", "baseline", "glance"} -> {}
    [] kind = "dashboard" -> Heavy \ {"dashboard"}
    [] kind \in PlayerLab \ {"read"} -> Heavy \ PlayerLab
    [] OTHER -> Heavy

Admits(w) == Running \cap Blocks(w.kind) = {}

-----------------------------------------------------------------------------
(* Calls.                                                                  *)

BuilderOf(kind) ==
  IF kind \in PlayerLab THEN {"player"} ELSE IF kind = "baseline" THEN {"season"} ELSE {}

Top(t) == Last(frames[t])

IsAt(t, place) == frames[t] # <<>> /\ Top(t).at = place

\* A job has nobody waiting for its result.
Ending(kind) == IF kind \in Jobs THEN "drop" ELSE "settle"

\* The call below got its answer, or the error it passes on.
Returned(calls, good) ==
  IF calls = <<>> THEN <<>>
  ELSE IF good THEN [calls EXCEPT ![Len(calls)].left = Tail(@)]
  ELSE [calls EXCEPT ![Len(calls)].at = Ending(Last(calls).work.kind), ![Len(calls)].good = FALSE]

GoTo(t, place) == frames' = [frames EXCEPT ![t][Len(frames[t])].at = place]

LeaveBuilder(t) == builder' = [b \in Builders |-> IF builder[b] = t THEN Nobody ELSE builder[b]]

Free == activity = Nobody

\* A thread that serves a request, or whose calculation needs an answer.
Asks(t, w) ==
  /\ Free
  /\ IF frames[t] = <<>> THEN w.kind \notin {"read", "baseline"}
     ELSE Top(t).at = "work" /\ Top(t).left # <<>> /\ w = Head(Top(t).left)

IsKept(w) == w.kind \in Joined /\ w \in Range(cache[w.kind])

\* What stays of a cache, in its order, without some works.
Kept(works, dropped) ==
  LET from[i \in 0 .. Len(works)] ==
        IF i = 0 THEN <<>>
        ELSE IF works[i] \in dropped THEN from[i - 1] ELSE Append(from[i - 1], works[i])
  IN from[Len(works)]

Newest(k, w) == Append(Kept(cache[k], {w}), w)

FindKept(t, w) ==
  /\ Asks(t, w)
  /\ IsKept(w)
  /\ cache' = [cache EXCEPT ![w.kind] = Newest(w.kind, w)]
  /\ frames' = [frames EXCEPT ![t] = Returned(@, TRUE)]
  /\ UNCHANGED <<future, activity, builder>>

\* future.result() of a future another thread will resolve, or has.
Join(t, w) ==
  /\ Asks(t, w)
  /\ ~IsKept(w) /\ w.kind \in Joined /\ future[w] # "none"
  /\ frames' = [frames EXCEPT ![t] =
       IF future[w] = "pending"
       THEN Append(@, [work |-> w, at |-> "wait", left |-> <<>>, good |-> TRUE])
       ELSE Returned(@, future[w] = "done")]
  /\ UNCHANGED <<future, cache, activity, builder>>

\* Mutant of MustStart: the futures are not looked at.
MustStartUnkept(t, w) ==
  /\ Asks(t, w)
  /\ ~IsKept(w)

MustStart(t, w) ==
  /\ Asks(t, w)
  /\ ~IsKept(w)
  /\ w.kind \in Joined => future[w] = "none"

Refuse(t, w) ==
  /\ MustStart(t, w)
  /\ ~Admits(w)
  /\ frames' = [frames EXCEPT ![t] = Returned(@, FALSE)]
  /\ UNCHANGED <<future, cache, activity, builder>>

Call(t, w, place, left) ==
  frames' = [frames EXCEPT ![t] =
    Append(@, [work |-> w, at |-> place, left |-> left, good |-> TRUE])]

Register(w) == future' = [future EXCEPT ![w] = "pending"]

Own(t, w) ==
  /\ MustStart(t, w)
  /\ Admits(w)
  /\ w.kind \notin Assists
  /\ \E left \in Needs(w) : Call(t, w, "work", left)
  /\ Register(w)
  /\ UNCHANGED <<cache, activity, builder>>

\* Draft Lab keeps the activity lock while it loads the corpus, the model or the
\* checkpoint of a job, and while it works out what the assistant shows.
Hold(t, w) ==
  /\ MustStart(t, w)
  /\ Admits(w)
  /\ w.kind \in Assists \cup {"draft"}
  /\ Call(t, w, "load", <<>>)
  /\ activity' = t
  /\ UNCHANGED <<future, cache, builder>>

Load(t) ==
  /\ IsAt(t, "load") /\ Top(t).work.kind = "draft"
  /\ Register(Top(t).work)
  /\ GoTo(t, "work")
  /\ activity' = Nobody
  /\ UNCHANGED <<cache, builder>>

\* The assistant has answered, or what was loaded was invalid.
Release(t) ==
  /\ IsAt(t, "load")
  /\ frames' = [frames EXCEPT ![t] = Front(@)]
  /\ activity' = Nobody
  /\ UNCHANGED <<future, cache, builder>>

-----------------------------------------------------------------------------
(* A calculation of one's own.                                             *)

\* Mutant of Enter: the build lock is taken before what is needed is asked for.
EnterFirst(t) ==
  /\ IsAt(t, "work")
  /\ \A b \in BuilderOf(Top(t).work.kind) : builder[b] = Nobody
  /\ Top(t).left = <<>> \/ BuilderOf(Top(t).work.kind) # {}
  /\ builder' = [b \in Builders |-> IF b \in BuilderOf(Top(t).work.kind) THEN t ELSE builder[b]]
  /\ IF Top(t).left = <<>> THEN GoTo(t, "build") ELSE UNCHANGED frames
  /\ UNCHANGED <<future, cache, activity>>

Enter(t) ==
  /\ IsAt(t, "work") /\ Top(t).left = <<>>
  /\ \A b \in BuilderOf(Top(t).work.kind) : builder[b] = Nobody
  /\ builder' = [b \in Builders |-> IF b \in BuilderOf(Top(t).work.kind) THEN t ELSE builder[b]]
  /\ GoTo(t, "build")
  /\ UNCHANGED <<future, cache, activity>>

\* An outlook and a read model load their bundle, under the activity lock, while
\* the build lock is held.  The read model, the catalog and the detail keep that
\* lock until their answer is kept.
Build(t) ==
  /\ IsAt(t, "build")
  /\ Top(t).work.kind \in {"outlook", "read"} => Free
  /\ IF Top(t).work.kind \in Jobs THEN GoTo(t, "drop") ELSE GoTo(t, "keep")
  /\ IF Top(t).work.kind \in {"read", "catalog", "detail"} THEN UNCHANGED builder
     ELSE LeaveBuilder(t)
  /\ UNCHANGED <<future, cache, activity>>

\* What is built raises, or loading the bundle before anything is asked for does;
\* a job's own error ends it.
Break(t) ==
  /\ \/ IsAt(t, "build")
     \/ IsAt(t, "work") /\ Top(t).work.kind \in {"dashboard", "search"}
  /\ Top(t).at = "work" \/ Top(t).work.kind \in {"outlook", "read"} => Free
  /\ frames' = [frames EXCEPT ![t] = Returned(@, FALSE)]
  /\ LeaveBuilder(t)
  /\ UNCHANGED <<future, cache, activity>>

Keep(t) ==
  /\ IsAt(t, "keep")
  /\ Free
  /\ LET k == Top(t).work.kind
         kept == Newest(k, Top(t).work)
     IN cache' = [cache EXCEPT ![k] =
          IF Len(kept) > Capacity[k] THEN Tail(kept) ELSE kept]
  /\ LeaveBuilder(t)
  /\ GoTo(t, "settle")
  /\ UNCHANGED <<future, activity>>

WaitsFor(t, w) == IsAt(t, "wait") /\ Top(t).work = w

\* set_result or set_exception: every thread in future.result() goes on.
Settle(t) ==
  /\ IsAt(t, "settle")
  /\ future' = [future EXCEPT ![Top(t).work] = IF Top(t).good THEN "done" ELSE "failed"]
  /\ frames' = [u \in Threads |->
       IF u = t THEN [frames[t] EXCEPT ![Len(frames[t])].at = "drop"]
       ELSE IF WaitsFor(u, Top(t).work) THEN Returned(Front(frames[u]), Top(t).good)
       ELSE frames[u]]
  /\ UNCHANGED <<cache, activity, builder>>

\* Mutant of Drop: the future of a failure stays in its dictionary.
DropTheGood(t) ==
  /\ IsAt(t, "drop")
  /\ Top(t).work.kind \in {"collect", "draft"} \/ Free
  /\ future' = [future EXCEPT ![Top(t).work] = IF Top(t).good THEN "none" ELSE @]
  /\ frames' = [frames EXCEPT ![t] = Returned(Front(@), Top(t).good)]
  /\ UNCHANGED <<cache, activity, builder>>

\* The finally clause, or the last _set_job.  A collection and a Draft Lab job
\* change their status under locks of their own.
Drop(t) ==
  /\ IsAt(t, "drop")
  /\ Top(t).work.kind \in {"collect", "draft"} \/ Free
  /\ future' = [future EXCEPT ![Top(t).work] = "none"]
  /\ frames' = [frames EXCEPT ![t] = Returned(Front(@), Top(t).good)]
  /\ UNCHANGED <<cache, activity, builder>>

\* A new history or a new association outdates the views of one bundle's history.
Invalidate(bundle) ==
  /\ Free
  /\ cache' = [k \in Joined |->
       IF k \in {"gm", "timing"} THEN Kept(cache[k], {w \in Works : w.bundle = bundle})
       ELSE cache[k]]
  /\ UNCHANGED <<frames, future, activity, builder>>

Proceed(t) ==
  \/ Load(t) \/ Release(t) \/ Enter(t) \/ Build(t) \/ Break(t)
  \/ Keep(t) \/ Settle(t) \/ Drop(t)

Next ==
  \/ \E t \in Threads, w \in Works :
       FindKept(t, w) \/ Join(t, w) \/ Refuse(t, w) \/ Own(t, w) \/ Hold(t, w)
  \/ \E t \in Threads : Proceed(t)
  \/ \E w \in Works : Invalidate(w.bundle)

Spec == Init /\ [][Next]_vars

-----------------------------------------------------------------------------
(* Properties.                                                             *)

Places == {"wait", "load", "work", "build", "keep", "settle", "drop"}

Frame == [work : Works, at : Places, left : Seq(Works), good : BOOLEAN]

Calls(t) == {frames[t][i] : i \in 1 .. Len(frames[t])}

Owns(t, w) == \E c \in Calls(t) : c.work = w /\ c.at \notin {"load", "wait"}

\* The variables have their types; no cache outgrows its bound.
TypeOK ==
  /\ frames \in [Threads -> Seq(Frame)]
  /\ future \in [Works -> {"none", "pending", "done", "failed"}]
  /\ cache \in [Joined -> Seq(Works)]
  /\ \A k \in Joined : Len(cache[k]) <= Capacity[k]
  /\ activity \in Threads \cup {Nobody}
  /\ builder \in [Builders -> Threads \cup {Nobody}]

\* A call that is not the last one needs what the next one gets, before it builds.
CallsNest ==
  \A t \in Threads : \A i \in 1 .. Len(frames[t]) - 1 :
    /\ frames[t][i].at = "work" /\ frames[t][i].left # <<>>
    /\ Head(frames[t][i].left) = frames[t][i + 1].work

\* A future is in its dictionary exactly while some thread is at work on it, and
\* unresolved exactly until that thread settles it.
FuturesAreOwned ==
  /\ \A w \in Underway : \E t \in Threads : Owns(t, w)
  /\ \A t \in Threads : \A c \in Calls(t) : c.at # "load" => future[c.work] # "none"
  /\ \A w \in Underway :
       future[w] # "pending" => \E t \in Threads : IsAt(t, "drop") /\ Top(t).work = w

\* Nobody sleeps on a future that is already resolved or forgotten.
WaitersWillBeWoken ==
  \A t \in Threads : IsAt(t, "wait") => future[Top(t).work] = "pending"

\* A build lock is held by a thread that builds under it, the activity lock by one
\* that loads under it.
LocksAreInUse ==
  /\ \A b \in Builders : builder[b] # Nobody =>
       LET t == builder[b] IN (IsAt(t, "build") \/ IsAt(t, "keep")) /\ b \in BuilderOf(Top(t).work.kind)
  /\ \A t \in Threads : IsAt(t, "load") <=> activity = t

IInv == TypeOK /\ CallsNest /\ FuturesAreOwned /\ WaitersWillBeWoken /\ LocksAreInUse

\* Heavy work of two kinds never runs at the same time, except the four parts of
\* the Player Lab, and of a kind that is not shared at most one runs; while the
\* activity lock is held for Draft Lab's loading or for a recommendation, none does.
Exclusive(kind) == kind \in Heavy \ (PlayerLab \cup {"dashboard"})

Compatible(v, w) ==
  \/ v = w
  \/ v.kind = "baseline" \/ w.kind = "baseline"
  \/ {v.kind, w.kind} \subseteq PlayerLab
  \/ v.kind = w.kind /\ ~Exclusive(v.kind)

ExclusiveWork ==
  /\ \A v, w \in Underway : Compatible(v, w)
  /\ \A t \in Threads :
       IsAt(t, "load") /\ Top(t).work.kind # "glance" => Running \cap Heavy = {}

\* What a calculation needs on the way is never refused to it by the guards: once
\* a request was admitted, it does not fail because others are at work.
NestedIsAdmitted ==
  \A t \in Threads :
    IsAt(t, "work") /\ Top(t).left # <<>> => Admits(Head(Top(t).left))

\* Requests for the same answer share one calculation.
OneCalculationEach ==
  \A t, u \in Threads : \A c \in Calls(t) :
    Owns(t, c.work) /\ Owns(u, c.work) => t = u

\* When every request has returned and every job has ended, nothing says the
\* application is busy: it admits any work, and its server may stop.
NothingIsLeftBehind ==
  (\A t \in Threads : frames[t] = <<>>) =>
    /\ Running = {}
    /\ activity = Nobody
    /\ \A b \in Builders : builder[b] = Nobody

\* The threads whose next step thread t waits for.
NeedsActivity(t) ==
  \/ IsAt(t, "keep")
  \/ IsAt(t, "drop") /\ Top(t).work.kind \notin {"collect", "draft"}
  \/ IsAt(t, "build") /\ Top(t).work.kind \in {"outlook", "read"}
  \/ IsAt(t, "work") /\ Top(t).left # <<>>

WaitsOn(t) ==
  {u \in Threads :
    \/ NeedsActivity(t) /\ activity = u
    \/ /\ IsAt(t, "work") /\ Top(t).left = <<>>
       /\ \E b \in BuilderOf(Top(t).work.kind) : builder[b] = u
    \/ IsAt(t, "wait") /\ Owns(u, Top(t).work)}

\* No deadlock among the futures, the build locks and the activity lock: in every
\* set of threads some thread waits for none of them.
NobodyWaitsInACircle ==
  \A S \in (SUBSET Threads) \ {{}} : \E t \in S : WaitsOn(t) \cap S = {}
=============================================================================

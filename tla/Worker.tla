-------------------------------- MODULE Worker --------------------------------
(***************************************************************************)
(* The life of backtest runs in the API: POST /backtests and DELETE         *)
(* (api/main.py), the background task that drives a run and its progress    *)
(* coroutines (api/worker.py), the engine's threads with Python's global    *)
(* interpreter lock (cpp-engine/src/bindings.cpp), and what they leave in    *)
(* Redis.                                                                  *)
(*                                                                         *)
(* Each API process has one event loop.  A step of a coroutine runs from    *)
(* one await to the next and performs the effect of the one Redis command   *)
(* it awaits.  Commands of different coroutines travel on different pooled  *)
(* connections, so their effects come in any order.  Percentages and        *)
(* message texts are left out.                                             *)
(***************************************************************************)
EXTENDS Integers, Sequences, FiniteSets

CONSTANTS
  Runs,            \* run identifiers
  Processes,       \* API processes (uvicorn workers)
  Clients,         \* WebSocket connections that can subscribe to a channel
  MaxWorkers,      \* max_workers of the ThreadPoolExecutor (4)
  MaxCallbacks,    \* bound: progress callbacks of one engine run
  Fates,           \* how engine runs may end: "succeeds", "fails", "loops"
  RedisMayFail,    \* whether a Redis command can raise
  MayRestart       \* whether an API process can die and restart

ASSUME WorkerAssumption ==
  /\ IsFiniteSet(Runs) /\ Processes # {}
  /\ MaxWorkers \in Nat \ {0} /\ MaxCallbacks \in Nat
  /\ Fates \subseteq {"succeeds", "fails", "loops"}
  /\ {RedisMayFail, MayRestart} \subseteq BOOLEAN

VARIABLES
  hash,            \* run:{id}: the fields present and their values
  expires,         \* the runs whose key has a time to live
  backtest_queue,  \* the list backtest_queue
  channel,         \* the clients subscribed to progress:{id}
  inbox,           \* the messages on their way to each client's handler
  home,            \* the process that took the POST of each run
  task,            \* where the run's handler, then its background task, is
  unpublished,     \* progress coroutines that have not published yet
  unrecorded,      \* progress coroutines that have published, not stored
  work_queue,      \* the executor's queue of each process
  engine,          \* the run's engine thread
  calls,           \* progress callbacks made so far
  fate,            \* how the engine run ends, decided by its data
  announced,       \* history: the terminal messages published for each run
  deleted          \* history: the runs whose key has been removed

redis_vars == <<hash, expires, backtest_queue, inbox, announced>>
progress_vars == <<unpublished, unrecorded>>
thread_vars == <<work_queue, engine, calls>>
vars == <<redis_vars, channel, home, task, progress_vars, thread_vars, fate, deleted>>

-----------------------------------------------------------------------------
(* Redis.                                                                  *)

NoKey == [f \in {} |-> ""]

\* HSET: creates the key if need be and keeps the other fields.
Merge(fields, mapping) ==
  [f \in DOMAIN fields \cup DOMAIN mapping |->
     IF f \in DOMAIN mapping THEN mapping[f] ELSE fields[f]]

HSet(r, mapping) ==
  /\ hash' = [hash EXCEPT ![r] = Merge(@, mapping)]
  /\ UNCHANGED <<expires, backtest_queue, inbox, announced>>

\* PUBLISH reaches whoever is subscribed at that moment, and nobody else.
Publish(r, type) ==
  /\ inbox' = [c \in Clients |->
                 IF c \in channel[r] THEN Append(inbox[c], type) ELSE inbox[c]]
  /\ announced' = IF type \in {"complete", "error"}
                  THEN [announced EXCEPT ![r] = Append(@, type)] ELSE announced
  /\ UNCHANGED <<hash, expires, backtest_queue>>

Expire(r) ==
  /\ expires' = IF hash[r] = NoKey THEN expires ELSE expires \cup {r}
  /\ UNCHANGED <<hash, backtest_queue, inbox, announced>>

RPush(r) ==
  /\ backtest_queue' = Append(backtest_queue, r)
  /\ UNCHANGED <<hash, expires, inbox, announced>>

-----------------------------------------------------------------------------
(* The interpreter lock.  run_backtest never releases it, so an engine      *)
(* thread holds it from its start to its end, but for the progress          *)
(* callbacks, which run Python code.                                       *)

Computing(p) == {r \in Runs : home[r] = p /\ engine[r] = "computing"}

LockFree(p) == Computing(p) = {}

\* The coroutine of r awaits a command and goes on; when the command raises,
\* with or without its effect, control passes to the handler.
Await(r, here, next, handler, Command) ==
  /\ task[r] = here /\ LockFree(home[r])
  /\ \/ Command /\ task' = [task EXCEPT ![r] = next]
     \/ /\ RedisMayFail
        /\ Command \/ UNCHANGED redis_vars
        /\ task' = [task EXCEPT ![r] = handler]
  /\ UNCHANGED <<channel, home, progress_vars, thread_vars, fate, deleted>>

-----------------------------------------------------------------------------
Init ==
  /\ hash = [r \in Runs |-> NoKey]
  /\ expires = {}
  /\ backtest_queue = <<>>
  /\ channel = [r \in Runs |-> {}]
  /\ inbox = [c \in Clients |-> <<>>]
  /\ home \in [Runs -> Processes]
  /\ task = [r \in Runs |-> "none"]
  /\ unpublished = [r \in Runs |-> 0]
  /\ unrecorded = [r \in Runs |-> 0]
  /\ work_queue = [p \in Processes |-> <<>>]
  /\ engine = [r \in Runs |-> "idle"]
  /\ calls = [r \in Runs |-> 0]
  /\ fate \in [Runs -> Fates]
  /\ announced = [r \in Runs |-> <<>>]
  /\ deleted = {}

(* create_backtest, for a request that passed its checks.                   *)

\* Mutant: the time of creation is not stored.
CreateUntimed(r) ==
  Await(r, "none", "created", "refused", HSet(r, [status |-> "pending"]))

CreateBacktest(r) ==
  Await(r, "none", "created", "refused",
        HSet(r, [status |-> "pending", created_at |-> "now"]))

\* The response is sent, and the background task follows it.
Enqueue(r) ==
  Await(r, "created", "accepted", "refused", RPush(r))

-----------------------------------------------------------------------------
(* run_backtest_task.  Before the try block a Redis error kills the task.   *)

MarkRunning(r) ==
  Await(r, "accepted", "marked", "dead", HSet(r, [status |-> "running"]))

PublishStatus(r) ==
  Await(r, "marked", "started", "dead", Publish(r, "status"))

RecordStatus(r) ==
  Await(r, "started", "ready", "dead", HSet(r, [status |-> "running"]))

Submit(r) ==
  /\ task[r] = "ready" /\ LockFree(home[r])
  /\ task' = [task EXCEPT ![r] = "waiting"]
  /\ work_queue' = [work_queue EXCEPT ![home[r]] = Append(@, r)]
  /\ UNCHANGED <<redis_vars, channel, home, progress_vars, engine, calls, fate, deleted>>

\* Mutant: the result is stored before success is looked at.
CollectAnyway(r) ==
  /\ task[r] = "waiting" /\ engine[r] = "returned" /\ LockFree(home[r])
  /\ task' = [task EXCEPT ![r] = "storing"]
  /\ UNCHANGED <<redis_vars, channel, home, progress_vars, thread_vars, fate, deleted>>

\* The engine's answer, or its exception, comes back to the event loop.
Collect(r) ==
  /\ task[r] = "waiting" /\ engine[r] = "returned" /\ LockFree(home[r])
  /\ task' = [task EXCEPT ![r] = IF fate[r] = "succeeds" THEN "storing" ELSE "failing"]
  /\ UNCHANGED <<redis_vars, channel, home, progress_vars, thread_vars, fate, deleted>>

\* Mutant: the status is stored without the result.
StoreStatusOnly(r) ==
  Await(r, "storing", "expiring", "failing", HSet(r, [status |-> "complete"]))

StoreResult(r) ==
  Await(r, "storing", "expiring", "failing",
        HSet(r, [status |-> "complete", result |-> "json"]))

\* Mutant: the time to live is set on failure only.
SkipExpiry(r) ==
  Await(r, "expiring", "announcing", "failing", UNCHANGED redis_vars)

SetExpiry(r) ==
  Await(r, "expiring", "announcing", "failing", Expire(r))

Announce(r) ==
  Await(r, "announcing", "closing", "failing", Publish(r, "complete"))

\* Mutant: an announced run is run through the failure path as well.
CloseAsFailure(r) ==
  Await(r, "closing", "failing", "failing", HSet(r, [status |-> "running"]))

\* publish() stores status RUNNING for every message that has a percentage,
\* and the complete message has one.
CloseRecord(r) ==
  Await(r, "closing", "ended", "failing", HSet(r, [status |-> "running"]))

\* Mutant: a failed run is announced as if it had succeeded.
RetryFailed(r) ==
  Await(r, "failing", "announcing", "dead", HSet(r, [status |-> "failed"]))

\* Mutant: whatever there is of a result is stored with the failure.
MarkFailedWithResult(r) ==
  Await(r, "failing", "reporting", "dead",
        HSet(r, [status |-> "failed", result |-> "json"]))

\* Mutant: the failure is stored and nobody is told.
MarkFailedSilently(r) ==
  Await(r, "failing", "ended", "dead", HSet(r, [status |-> "failed"]))

MarkFailed(r) ==
  Await(r, "failing", "reporting", "dead", HSet(r, [status |-> "failed"]))

\* The error message has no percentage, so the hash is left alone.
Report(r) ==
  Await(r, "reporting", "ended", "dead", Publish(r, "error"))

-----------------------------------------------------------------------------
(* The progress coroutines of a run: interchangeable, and nobody waits for  *)
(* them.  One whose command raises is dropped.                              *)

PublishProgress(r) ==
  /\ unpublished[r] > 0 /\ LockFree(home[r])
  /\ unpublished' = [unpublished EXCEPT ![r] = @ - 1]
  /\ \/ Publish(r, "progress") /\ unrecorded' = [unrecorded EXCEPT ![r] = @ + 1]
     \/ /\ RedisMayFail
        /\ Publish(r, "progress") \/ UNCHANGED redis_vars
        /\ UNCHANGED unrecorded
  /\ UNCHANGED <<channel, home, task, thread_vars, fate, deleted>>

RecordProgress(r) ==
  /\ unrecorded[r] > 0 /\ LockFree(home[r])
  /\ unrecorded' = [unrecorded EXCEPT ![r] = @ - 1]
  /\ HSet(r, [status |-> "running"]) \/ (RedisMayFail /\ UNCHANGED redis_vars)
  /\ UNCHANGED <<channel, home, task, unpublished, thread_vars, fate, deleted>>

-----------------------------------------------------------------------------
(* The engine's threads.                                                    *)

Busy(p) == {r \in Runs : home[r] = p /\ engine[r] \in {"computing", "calling"}}

StartEngine(r) ==
  LET p == home[r]
  IN  /\ work_queue[p] # <<>> /\ Head(work_queue[p]) = r
      /\ Cardinality(Busy(p)) < MaxWorkers /\ LockFree(p)
      /\ work_queue' = [work_queue EXCEPT ![p] = Tail(@)]
      /\ engine' = [engine EXCEPT ![r] = "computing"]
      /\ UNCHANGED <<redis_vars, channel, home, task, progress_vars, calls, fate, deleted>>

\* sync_progress schedules a coroutine on the event loop and does not wait.
Callback(r) ==
  /\ engine[r] = "computing" /\ calls[r] < MaxCallbacks
  /\ engine' = [engine EXCEPT ![r] = "calling"]
  /\ calls' = [calls EXCEPT ![r] = @ + 1]
  /\ unpublished' = [unpublished EXCEPT ![r] = @ + 1]
  /\ UNCHANGED <<redis_vars, channel, home, task, unrecorded, work_queue, fate, deleted>>

Resume(r) ==
  /\ engine[r] = "calling" /\ LockFree(home[r])
  /\ engine' = [engine EXCEPT ![r] = "computing"]
  /\ UNCHANGED <<redis_vars, channel, home, task, progress_vars, work_queue, calls,
                 fate, deleted>>

\* An engine whose queue holds an order never returns (module Backtest).
ReturnEngine(r) ==
  /\ engine[r] = "computing" /\ fate[r] # "loops"
  /\ engine' = [engine EXCEPT ![r] = "returned"]
  /\ UNCHANGED <<redis_vars, channel, home, task, progress_vars, work_queue, calls,
                 fate, deleted>>

-----------------------------------------------------------------------------
(* What the requests that only read answer.                                 *)

GetBacktest(r) ==
  IF hash[r] = NoKey THEN [status |-> "404", result |-> FALSE]
  ELSE [status |-> hash[r]["status"], result |-> "result" \in DOMAIN hash[r]]

\* list_backtests sorts by created_at, and Python compares None, which stands
\* for a missing one, with nothing.
ListRaises ==
  LET present == {r \in Runs : hash[r] # NoKey}
  IN  Cardinality(present) > 1 /\ \E r \in present : "created_at" \notin DOMAIN hash[r]

-----------------------------------------------------------------------------
(* DELETE /backtests/{run_id}, on any process; a time to live that has run   *)
(* out; and an API process that dies takes its tasks, threads and           *)
(* coroutines with it.                                                      *)

Remove(r) ==
  /\ hash[r] # NoKey
  /\ hash' = [hash EXCEPT ![r] = NoKey]
  /\ expires' = expires \ {r}
  /\ deleted' = deleted \cup {r}
  /\ UNCHANGED <<backtest_queue, inbox, announced, channel, home, task, progress_vars,
                 thread_vars, fate>>

DeleteBacktest(r) == (\E p \in Processes : LockFree(p)) /\ Remove(r)

KeyExpires(r) == r \in expires /\ Remove(r)

Lost(p) == {r \in Runs : home[r] = p /\ task[r] \notin {"none", "ended", "refused"}}

\* Its connections go as well: Stream says which leave their channels.
Restart(p) ==
  /\ MayRestart
  /\ task' = [r \in Runs |-> IF r \in Lost(p) THEN "dead" ELSE task[r]]
  /\ engine' = [r \in Runs |-> IF r \in Lost(p) THEN "idle" ELSE engine[r]]
  /\ unpublished' = [r \in Runs |-> IF home[r] = p THEN 0 ELSE unpublished[r]]
  /\ unrecorded' = [r \in Runs |-> IF home[r] = p THEN 0 ELSE unrecorded[r]]
  /\ work_queue' = [work_queue EXCEPT ![p] = <<>>]
  /\ UNCHANGED <<redis_vars, home, calls, fate, deleted>>

HandlerStep(r) == CreateBacktest(r) \/ Enqueue(r)

TaskStep(r) ==
  \/ MarkRunning(r) \/ PublishStatus(r) \/ RecordStatus(r)
  \/ Submit(r) \/ Collect(r)
  \/ StoreResult(r) \/ SetExpiry(r) \/ Announce(r) \/ CloseRecord(r)
  \/ MarkFailed(r) \/ Report(r)

ProgressStep(r) == PublishProgress(r) \/ RecordProgress(r)

EngineStep(r) == StartEngine(r) \/ Callback(r) \/ Resume(r) \/ ReturnEngine(r)

Next ==
  \/ \E r \in Runs : \/ HandlerStep(r) \/ TaskStep(r) \/ ProgressStep(r)
                     \/ EngineStep(r) \/ DeleteBacktest(r) \/ KeyExpires(r)
  \/ \E p \in Processes : Restart(p) /\ UNCHANGED channel

Spec == Init /\ [][Next]_vars

\* Event loops, coroutines and threads all get their turn; users' requests
\* and restarts need not come, but a request once begun is carried through.
Fairness ==
  \A r \in Runs : /\ WF_vars(Enqueue(r)) /\ WF_vars(TaskStep(r))
                  /\ WF_vars(ProgressStep(r)) /\ WF_vars(EngineStep(r))

FairSpec == Spec /\ Fairness

-----------------------------------------------------------------------------
(* Properties.                                                              *)

Terminals(r) == {announced[r][i] : i \in DOMAIN announced[r]}

Places == {"none", "created", "refused", "accepted", "marked", "started", "ready",
           "waiting", "storing", "expiring", "announcing", "closing", "failing",
           "reporting", "ended", "dead"}

Status == {"pending", "running", "complete", "failed"}

\* The fields of a key: a status whenever there is a key at all.
IsHash(h) ==
  \/ h = NoKey
  \/ /\ {"status"} \subseteq DOMAIN h
     /\ DOMAIN h \subseteq {"status", "created_at", "result"}
     /\ h["status"] \in Status

\* Every variable has its type, and only runs that wait for their engine are
\* in an executor's queue.
TypeOK ==
  /\ DOMAIN hash = Runs /\ \A r \in Runs : IsHash(hash[r])
  /\ expires \subseteq Runs /\ deleted \subseteq Runs
  /\ backtest_queue \in Seq(Runs)
  /\ channel \in [Runs -> SUBSET Clients]
  /\ inbox \in [Clients -> Seq({"status", "progress", "complete", "error"})]
  /\ home \in [Runs -> Processes]
  /\ task \in [Runs -> Places]
  /\ {unpublished, unrecorded, calls} \subseteq [Runs -> Nat]
  /\ work_queue \in [Processes -> Seq(Runs)]
  /\ engine \in [Runs -> {"idle", "computing", "calling", "returned"}]
  /\ fate \in [Runs -> Fates]
  /\ announced \in [Runs -> Seq({"complete", "error"})]
  /\ \A p \in Processes : \A i \in DOMAIN work_queue[p] :
       LET r == work_queue[p][i]
       IN  home[r] = p /\ task[r] = "waiting" /\ engine[r] = "idle"

\* Whoever hears that a run is complete finds its result stored, unless the
\* run has been deleted or has expired: the result is stored before it is announced
\* (worker.py:132-144), whatever Redis commands fail or processes die.
ResultBeforeAnnouncement ==
  \A r \in Runs :
    "complete" \in Terminals(r) /\ r \notin deleted =>
      "result" \in DOMAIN hash[r]

\* A failure once announced is never followed by a success, and neither is
\* announced twice, even when commands fail after taking effect.
NoSuccessAfterFailure ==
  \A r \in Runs :
    announced[r] \in {<<>>, <<"complete">>, <<"error">>, <<"complete", "error">>}

\* A run whose engine failed never has a result, nor is it announced complete
\* (worker.py:98-99).
FailuresLeaveNoResult ==
  \A r \in Runs :
    fate[r] # "succeeds" => /\ "result" \notin DOMAIN hash[r]
                            /\ Terminals(r) \subseteq {"error"}

\* While Redis works, a run's end is announced at most once.
AnnouncedOnce == \A r \in Runs : Len(announced[r]) <= 1

\* While Redis works, a stored result always gets its time to live, even if
\* the run is deleted meanwhile and its key comes back (worker.py:138).
ResultExpires ==
  \A r \in Runs :
    "result" \in DOMAIN hash[r] /\ task[r] \in {"announcing", "closing", "ended"} =>
      r \in expires

\* While Redis works and every engine returns, each accepted run is announced
\* unless its process dies, however many runs share the executor and the lock.
EveryRunAnnounced ==
  \A r \in Runs : task[r] = "accepted" ~> announced[r] # <<>> \/ task[r] = "dead"

\* GET /backtests answers as long as no record has been removed: a key that
\* a late write brings back has no created_at, and the sort raises on it
\* (main.py:255-267).
ListingAnswers == deleted = {} => ~ListRaises

\* A run has not started, is at work until its result is stored, or is settled.
Fresh == {"none", "created", "refused"}
AtWork == {"accepted", "marked", "started", "ready", "waiting", "storing"}

StageOf(r) ==
  IF task[r] \in Fresh THEN "new" ELSE IF task[r] \in AtWork THEN "working" ELSE "settled"

Stored(r) == "result" \in DOMAIN hash[r]

Erased(r) == r \in deleted

\* The API keeps what RunLife promises, deletions, expiries, restarts and
\* failing commands included: a result is stored once, announced after that,
\* and once removed it stays away although the key itself may come back.
Life == INSTANCE RunLife WITH
  stage  <- [r \in Runs |-> StageOf(r)],
  result <- [r \in Runs |-> Stored(r)],
  erased <- [r \in Runs |-> Erased(r)],
  told   <- announced

KeepsPromises == Life!Spec

-----------------------------------------------------------------------------
(* Claims of the repository that the code does not keep.                    *)

\* main.py:190: "Poll GET /backtests/{run_id}": once everything about a
\* successful run has settled, a poll finds it complete.
PolledComplete ==
  \A r \in Runs :
    /\ task[r] = "ended" /\ announced[r] = <<"complete">> /\ r \notin deleted
    /\ unpublished[r] = 0 /\ unrecorded[r] = 0
    => GetBacktest(r) = [status |-> "complete", result |-> TRUE]

\* main.py:12-13: the engine runs in a thread pool "to avoid blocking the
\* async event loop": a request under way is answered.
RequestsAnswered == \A r \in Runs : task[r] = "created" ~> task[r] # "created"
=============================================================================

----------------------------- MODULE StreamProofs -----------------------------
(***************************************************************************)
(* More proofs about the API and its audience: the types, with the link      *)
(* between the executors' queues and the tasks that wait and the one between *)
(* a channel and the handlers that live; what GET /backtests can answer; and  *)
(* how a run ends while Redis works.                                        *)
(***************************************************************************)
EXTENDS WorkerProofs

Types == {"status", "progress", "complete", "error"}
HashFields == {"status", "created_at", "result"}

\* What Redis keeps and delivers has its type.
RedisOK ==
  /\ DOMAIN hash = Runs /\ \A r \in Runs : IsHash(hash[r])
  /\ expires \subseteq Runs
  /\ backtest_queue \in Seq(Runs)
  /\ inbox \in [Clients -> Seq({"status", "progress", "complete", "error"})]
  /\ announced \in [Runs -> Seq({"complete", "error"})]

\* What the processes keep has its type.
ProcessOK ==
  /\ deleted \subseteq Runs
  /\ home \in [Runs -> Processes]
  /\ task \in [Runs -> Places]
  /\ {unpublished, unrecorded, calls} \subseteq [Runs -> Nat]
  /\ work_queue \in [Processes -> Seq(Runs)]
  /\ engine \in [Runs -> {"idle", "computing", "calling", "returned"}]
  /\ fate \in [Runs -> Fates]

\* Only runs that wait for their engine are in an executor's queue.
Awaited(r, p) == home[r] = p /\ task[r] = "waiting" /\ engine[r] = "idle"

QueueOK == \A p \in Processes : \A i \in DOMAIN work_queue[p] : Awaited(work_queue[p][i], p)

\* TypeOK is not inductive without these two: a run that were queued twice
\* would be in the queue still when its engine starts, and one whose engine
\* were at work before it waits would be queued with it.
QueuedOnce ==
  \A p \in Processes : \A i, j \in DOMAIN work_queue[p] :
    work_queue[p][i] = work_queue[p][j] => i = j

BeforeEngine == {"none", "created", "refused", "accepted", "marked", "started", "ready"}

\* Where a task at a place may go from there.
MayGo(here, places) ==
  /\ here # "waiting" /\ places \subseteq Places
  /\ here \in BeforeEngine \/ places \cap BeforeEngine = {}

NotBegun == \A r \in Runs : task[r] \in BeforeEngine => engine[r] = "idle"

CoreOK == RedisOK /\ ProcessOK /\ QueueOK /\ QueuedOnce /\ NotBegun

LEMMA TypeParts == CoreOK /\ channel \in [Runs -> SUBSET Clients] => TypeOK
BY DEF TypeOK, CoreOK, RedisOK, ProcessOK, QueueOK, Awaited

-----------------------------------------------------------------------------
(* The commands keep the types.                                             *)

LEMMA HSetTyped ==
  ASSUME RedisOK, NEW r \in Runs, NEW mapping,
         "status" \in DOMAIN mapping, DOMAIN mapping \subseteq HashFields,
         mapping["status"] \in Status, HSet(r, mapping)
  PROVE  RedisOK'
<1>1. /\ hash' = [hash EXCEPT ![r] = Merge(@, mapping)]
      /\ UNCHANGED <<expires, backtest_queue, inbox, announced>>
  BY DEF HSet
<1>2. /\ DOMAIN hash' = Runs /\ hash'[r] = Merge(hash[r], mapping)
      /\ \A q \in Runs \ {r} : hash'[q] = hash[q]
  BY <1>1 DEF RedisOK
<1>3. DOMAIN hash[r] \subseteq HashFields
  BY DEF RedisOK, IsHash, NoKey, HashFields
<1>4. IsHash(hash'[r])
  BY <1>2, <1>3 DEF IsHash, Merge, HashFields
<1> QED
  BY <1>1, <1>2, <1>4 DEF RedisOK

LEMMA PublishTyped ==
  ASSUME RedisOK, NEW r \in Runs, NEW type \in Types, Publish(r, type)
  PROVE  RedisOK'
<1>1. inbox' = [c \in Clients |->
                 IF c \in channel[r] THEN Append(inbox[c], type) ELSE inbox[c]]
  BY DEF Publish
<1>2. inbox' \in [Clients -> Seq({"status", "progress", "complete", "error"})]
  BY <1>1 DEF RedisOK, Types
<1>3. UNCHANGED <<hash, expires, backtest_queue>>
  BY DEF Publish
<1>4. announced' = IF type \in {"complete", "error"}
                   THEN [announced EXCEPT ![r] = Append(@, type)] ELSE announced
  BY DEF Publish
<1>5. announced' \in [Runs -> Seq({"complete", "error"})]
  BY <1>4 DEF RedisOK
<1> QED
  BY <1>2, <1>3, <1>5 DEF RedisOK

LEMMA OtherCommandsTyped ==
  ASSUME RedisOK, NEW r \in Runs, Expire(r) \/ RPush(r) \/ UNCHANGED redis_vars
  PROVE  RedisOK'
<1>1. CASE Expire(r)
  BY <1>1 DEF Expire, RedisOK
<1>2. CASE RPush(r)
  BY <1>2 DEF RPush, RedisOK
<1>3. CASE UNCHANGED redis_vars
  BY <1>3 DEF redis_vars, RedisOK
<1> QED
  BY <1>1, <1>2, <1>3

\* A task that does not wait for its engine moves on.
LEMMA TaskMoves ==
  ASSUME ProcessOK, QueueOK, QueuedOnce, NotBegun, NEW r \in Runs, NEW place,
         MayGo(task[r], {place}), task' = [task EXCEPT ![r] = place],
         UNCHANGED <<home, progress_vars, thread_vars, fate, deleted>>
  PROVE  ProcessOK' /\ QueueOK' /\ QueuedOnce' /\ NotBegun'
<1>1. ProcessOK'
  BY DEF ProcessOK, MayGo, progress_vars, thread_vars
<1>2. ASSUME NEW p \in Processes, NEW i \in DOMAIN work_queue'[p]
      PROVE  Awaited(work_queue[p][i], p)'
  <2>1. work_queue' = work_queue /\ home' = home /\ engine' = engine
    BY DEF thread_vars
  <2>2. work_queue[p] \in Seq(Runs)
    BY DEF ProcessOK
  <2>3. i \in DOMAIN work_queue[p] /\ work_queue[p][i] \in Runs
    BY <1>2, <2>1, <2>2
  <2>4. Awaited(work_queue[p][i], p)
    BY <2>3 DEF QueueOK
  <2>5. task'[work_queue[p][i]] = task[work_queue[p][i]]
    BY <2>3, <2>4 DEF Awaited, ProcessOK, MayGo
  <2> QED
    BY <2>1, <2>4, <2>5 DEF Awaited
<1>3. QueuedOnce'
  BY DEF QueuedOnce, thread_vars
<1>4. NotBegun'
  BY DEF NotBegun, ProcessOK, MayGo, thread_vars
<1> QED
  BY <1>1, <1>2, <1>3, <1>4 DEF QueueOK

\* Any awaited HSET of a status, any awaited PUBLISH.
LEMMA AwaitHSetTyped ==
  ASSUME CoreOK, NEW r \in Runs, NEW here, NEW next, NEW handler,
         MayGo(here, {next, handler}), NEW mapping,
         "status" \in DOMAIN mapping, DOMAIN mapping \subseteq HashFields,
         mapping["status"] \in Status,
         Await(r, here, next, handler, HSet(r, mapping))
  PROVE  CoreOK'
<1>1. /\ task[r] = here /\ \E t \in {next, handler} : task' = [task EXCEPT ![r] = t]
      /\ UNCHANGED <<home, progress_vars, thread_vars, fate, deleted>>
      /\ HSet(r, mapping) \/ UNCHANGED redis_vars
  BY DEF Await
<1>2. RedisOK'
  BY <1>1, HSetTyped, OtherCommandsTyped DEF CoreOK
<1>3. ProcessOK' /\ QueueOK' /\ QueuedOnce' /\ NotBegun'
  BY <1>1, TaskMoves DEF CoreOK, MayGo
<1> QED
  BY <1>2, <1>3 DEF CoreOK

LEMMA AwaitPublishTyped ==
  ASSUME CoreOK, NEW r \in Runs, NEW here, NEW next, NEW handler,
         MayGo(here, {next, handler}), NEW type \in Types,
         Await(r, here, next, handler, Publish(r, type))
  PROVE  CoreOK'
<1>1. /\ task[r] = here /\ \E t \in {next, handler} : task' = [task EXCEPT ![r] = t]
      /\ UNCHANGED <<home, progress_vars, thread_vars, fate, deleted>>
      /\ Publish(r, type) \/ UNCHANGED redis_vars
  BY DEF Await
<1>2. RedisOK'
  BY <1>1, PublishTyped, OtherCommandsTyped DEF CoreOK
<1>3. ProcessOK' /\ QueueOK' /\ QueuedOnce' /\ NotBegun'
  BY <1>1, TaskMoves DEF CoreOK, MayGo
<1> QED
  BY <1>2, <1>3 DEF CoreOK

-----------------------------------------------------------------------------
(* The steps of a run's handler and of its task.                            *)

LEMMA HandlerTyped ==
  ASSUME CoreOK, NEW r \in Runs, HandlerStep(r)
  PROVE  CoreOK'
<1>1. CASE CreateBacktest(r)
  <2> DEFINE m == [status |-> "pending", created_at |-> "now"]
  <2>1. Await(r, "none", "created", "refused", HSet(r, m))
    BY <1>1 DEF CreateBacktest
  <2>2. /\ "status" \in DOMAIN m /\ DOMAIN m \subseteq HashFields /\ m["status"] \in Status
        /\ MayGo("none", {"created", "refused"})
    BY DEF HashFields, Status, MayGo, Places, BeforeEngine
  <2> HIDE DEF m
  <2> QED
    BY <2>1, <2>2, AwaitHSetTyped
<1>2. CASE Enqueue(r)
  <2>1. /\ task[r] = "created"
        /\ \E t \in {"accepted", "refused"} : task' = [task EXCEPT ![r] = t]
        /\ UNCHANGED <<home, progress_vars, thread_vars, fate, deleted>>
        /\ RPush(r) \/ UNCHANGED redis_vars
    BY <1>2 DEF Enqueue, Await
  <2>2. RedisOK'
    BY <2>1, OtherCommandsTyped DEF CoreOK
  <2>3. ProcessOK' /\ QueueOK' /\ QueuedOnce' /\ NotBegun'
    BY <2>1, TaskMoves DEF CoreOK, MayGo, Places, BeforeEngine
  <2> QED
    BY <2>2, <2>3 DEF CoreOK
<1> QED
  BY <1>1, <1>2 DEF HandlerStep

\* A status alone is awaited in several places.
LEMMA AwaitStatusTyped ==
  ASSUME CoreOK, NEW r \in Runs, NEW here, NEW next, NEW handler,
         MayGo(here, {next, handler}), NEW status \in Status,
         Await(r, here, next, handler, HSet(r, [status |-> status]))
  PROVE  CoreOK'
<1> DEFINE m == [status |-> status]
<1>1. "status" \in DOMAIN m /\ DOMAIN m \subseteq HashFields /\ m["status"] \in Status
  BY DEF HashFields
<1>2. Await(r, here, next, handler, HSet(r, m))
  OBVIOUS
<1> HIDE DEF m
<1> QED
  BY <1>1, <1>2, AwaitHSetTyped

\* A task is queued once: what is in the queue waits already.
LEMMA SubmitTyped ==
  ASSUME CoreOK, NEW r \in Runs, Submit(r)
  PROVE  CoreOK'
<1> DEFINE p == home[r]
<1>1. /\ task[r] = "ready" /\ task' = [task EXCEPT ![r] = "waiting"]
      /\ work_queue' = [work_queue EXCEPT ![p] = Append(@, r)]
      /\ UNCHANGED <<redis_vars, home, progress_vars, engine, calls, fate, deleted>>
  BY DEF Submit
<1>2. p \in Processes /\ work_queue[p] \in Seq(Runs) /\ "waiting" \in Places
  BY DEF CoreOK, ProcessOK, Places
<1>3. RedisOK'
  BY <1>1, OtherCommandsTyped DEF CoreOK
<1>4. ProcessOK'
  BY <1>1, <1>2 DEF CoreOK, ProcessOK, progress_vars
<1>5. ASSUME NEW q \in Processes, NEW i \in DOMAIN work_queue'[q]
      PROVE  \/ i \in DOMAIN work_queue[q] /\ work_queue'[q][i] = work_queue[q][i]
             \/ q = p /\ i = Len(work_queue[q]) + 1 /\ work_queue'[q][i] = r
  <2>1. work_queue[q] \in Seq(Runs)
    BY DEF CoreOK, ProcessOK
  <2>2. CASE q # p
    BY <1>1, <1>5, <2>2 DEF CoreOK, ProcessOK
  <2>3. CASE q = p
    <3>1. work_queue'[q] = Append(work_queue[q], r)
      BY <1>1, <2>3 DEF CoreOK, ProcessOK
    <3> QED
      BY <1>5, <2>1, <2>3, <3>1
  <2> QED
    BY <2>2, <2>3
<1>6. \A i \in DOMAIN work_queue[p] : work_queue[p][i] # r
  BY <1>1, <1>2 DEF CoreOK, QueueOK, Awaited
<1>7. QueueOK'
  <2> SUFFICES ASSUME NEW q \in Processes, NEW i \in DOMAIN work_queue'[q]
               PROVE  Awaited(work_queue[q][i], q)'
    BY DEF QueueOK
  <2>1. CASE i \in DOMAIN work_queue[q] /\ work_queue'[q][i] = work_queue[q][i]
    <3>1. Awaited(work_queue[q][i], q)
      BY <2>1 DEF CoreOK, QueueOK
    <3>2. task'[work_queue[q][i]] \in {task[work_queue[q][i]], "waiting"}
      BY <1>1 DEF CoreOK, ProcessOK
    <3> QED
      BY <1>1, <2>1, <3>1, <3>2 DEF Awaited
  <2>2. CASE q = p /\ work_queue'[q][i] = r
    <3>1. home'[r] = q /\ task'[r] = "waiting" /\ engine'[r] = engine[r]
      BY <1>1, <2>2 DEF CoreOK, ProcessOK
    <3>2. engine[r] = "idle"
      BY <1>1 DEF CoreOK, NotBegun, BeforeEngine
    <3> QED
      BY <2>2, <3>1, <3>2 DEF Awaited
  <2> QED
    BY <1>5, <2>1, <2>2
<1>8. QueuedOnce'
  BY <1>5, <1>6 DEF CoreOK, QueuedOnce
<1>9. NotBegun'
  BY <1>1 DEF CoreOK, ProcessOK, NotBegun, BeforeEngine
<1> QED
  BY <1>3, <1>4, <1>7, <1>8, <1>9 DEF CoreOK

\* What the engine has returned has left the queue.
LEMMA CollectTyped ==
  ASSUME CoreOK, NEW r \in Runs, Collect(r)
  PROVE  CoreOK'
<1>1. /\ engine[r] = "returned"
      /\ \E t \in {"storing", "failing"} : task' = [task EXCEPT ![r] = t]
      /\ UNCHANGED <<redis_vars, home, progress_vars, work_queue, engine, calls, fate, deleted>>
  BY DEF Collect, thread_vars
<1>2. RedisOK'
  BY <1>1, OtherCommandsTyped DEF CoreOK
<1>3. ProcessOK'
  BY <1>1 DEF CoreOK, ProcessOK, progress_vars, Places
<1>4. QueueOK'
  <2> SUFFICES ASSUME NEW p \in Processes, NEW i \in DOMAIN work_queue[p]
               PROVE  Awaited(work_queue[p][i], p)'
    BY <1>1 DEF QueueOK
  <2>1. Awaited(work_queue[p][i], p)
    BY DEF CoreOK, QueueOK
  <2>2. task'[work_queue[p][i]] = task[work_queue[p][i]]
    BY <1>1, <2>1 DEF CoreOK, ProcessOK, Awaited
  <2> QED
    BY <1>1, <2>1, <2>2 DEF Awaited
<1>5. QueuedOnce' /\ NotBegun'
  BY <1>1 DEF CoreOK, ProcessOK, QueuedOnce, NotBegun, BeforeEngine
<1> QED
  BY <1>2, <1>3, <1>4, <1>5 DEF CoreOK

LEMMA TaskTyped ==
  ASSUME CoreOK, NEW r \in Runs, TaskStep(r)
  PROVE  CoreOK'
<1>0. /\ "running" \in Status /\ "complete" \in Status /\ "failed" \in Status
      /\ {"status", "complete", "error"} \subseteq Types
  BY DEF Status, Types
<1>1. CASE MarkRunning(r)
  <2>1. MayGo("accepted", {"marked", "dead"})
    BY DEF MayGo, Places, BeforeEngine
  <2> QED
    BY <1>0, <1>1, <2>1, AwaitStatusTyped DEF MarkRunning
<1>2. CASE PublishStatus(r)
  <2>1. MayGo("marked", {"started", "dead"})
    BY DEF MayGo, Places, BeforeEngine
  <2> QED
    BY <1>0, <1>2, <2>1, AwaitPublishTyped DEF PublishStatus
<1>3. CASE RecordStatus(r)
  <2>1. MayGo("started", {"ready", "dead"})
    BY DEF MayGo, Places, BeforeEngine
  <2> QED
    BY <1>0, <1>3, <2>1, AwaitStatusTyped DEF RecordStatus
<1>4. CASE Submit(r)
  BY <1>4, SubmitTyped
<1>5. CASE Collect(r)
  BY <1>5, CollectTyped
<1>6. CASE StoreResult(r)
  <2> DEFINE m == [status |-> "complete", result |-> "json"]
  <2>1. Await(r, "storing", "expiring", "failing", HSet(r, m))
    BY <1>6 DEF StoreResult
  <2>2. /\ "status" \in DOMAIN m /\ DOMAIN m \subseteq HashFields /\ m["status"] \in Status
        /\ MayGo("storing", {"expiring", "failing"})
    BY DEF HashFields, Status, MayGo, Places, BeforeEngine
  <2> HIDE DEF m
  <2> QED
    BY <2>1, <2>2, AwaitHSetTyped
<1>7. CASE SetExpiry(r)
  <2>1. /\ task[r] = "expiring"
        /\ \E t \in {"announcing", "failing"} : task' = [task EXCEPT ![r] = t]
        /\ UNCHANGED <<home, progress_vars, thread_vars, fate, deleted>>
        /\ Expire(r) \/ UNCHANGED redis_vars
    BY <1>7 DEF SetExpiry, Await
  <2>2. RedisOK'
    BY <2>1, OtherCommandsTyped DEF CoreOK
  <2>3. ProcessOK' /\ QueueOK' /\ QueuedOnce' /\ NotBegun'
    BY <2>1, TaskMoves DEF CoreOK, MayGo, Places, BeforeEngine
  <2> QED
    BY <2>2, <2>3 DEF CoreOK
<1>8. CASE Announce(r)
  <2>1. MayGo("announcing", {"closing", "failing"})
    BY DEF MayGo, Places, BeforeEngine
  <2> QED
    BY <1>0, <1>8, <2>1, AwaitPublishTyped DEF Announce
<1>9. CASE CloseRecord(r)
  <2>1. MayGo("closing", {"ended", "failing"})
    BY DEF MayGo, Places, BeforeEngine
  <2> QED
    BY <1>0, <1>9, <2>1, AwaitStatusTyped DEF CloseRecord
<1>10. CASE MarkFailed(r)
  <2>1. MayGo("failing", {"reporting", "dead"})
    BY DEF MayGo, Places, BeforeEngine
  <2> QED
    BY <1>0, <1>10, <2>1, AwaitStatusTyped DEF MarkFailed
<1>11. CASE Report(r)
  <2>1. MayGo("reporting", {"ended", "dead"})
    BY DEF MayGo, Places, BeforeEngine
  <2> QED
    BY <1>0, <1>11, <2>1, AwaitPublishTyped DEF Report
<1> QED
  BY <1>1, <1>2, <1>3, <1>4, <1>5, <1>6, <1>7, <1>8, <1>9, <1>10, <1>11 DEF TaskStep

-----------------------------------------------------------------------------
(* All other steps of the API.                                              *)

LEMMA ProgressTyped ==
  ASSUME CoreOK, NEW r \in Runs, ProgressStep(r)
  PROVE  CoreOK'
<1>1. CASE PublishProgress(r)
  <2>1. /\ unpublished[r] > 0 /\ unpublished' = [unpublished EXCEPT ![r] = @ - 1]
        /\ unrecorded' \in {unrecorded, [unrecorded EXCEPT ![r] = @ + 1]}
        /\ UNCHANGED <<home, task, thread_vars, fate, deleted>>
        /\ Publish(r, "progress") \/ UNCHANGED redis_vars
    BY <1>1 DEF PublishProgress
  <2>2. RedisOK'
    BY <2>1, PublishTyped, OtherCommandsTyped DEF CoreOK, Types
  <2>3. ProcessOK' /\ QueueOK' /\ QueuedOnce' /\ NotBegun'
    BY <2>1 DEF CoreOK, ProcessOK, QueueOK, QueuedOnce, NotBegun, Awaited,
                  thread_vars
  <2> QED
    BY <2>2, <2>3 DEF CoreOK
<1>2. CASE RecordProgress(r)
  <2> DEFINE m == [status |-> "running"]
  <2>1. /\ unrecorded[r] > 0 /\ unrecorded' = [unrecorded EXCEPT ![r] = @ - 1]
        /\ UNCHANGED <<home, task, unpublished, thread_vars, fate, deleted>>
        /\ HSet(r, m) \/ UNCHANGED redis_vars
    BY <1>2 DEF RecordProgress
  <2>2. "status" \in DOMAIN m /\ DOMAIN m \subseteq HashFields /\ m["status"] \in Status
    BY DEF HashFields, Status
  <2> HIDE DEF m
  <2>3. RedisOK'
    BY <2>1, <2>2, HSetTyped, OtherCommandsTyped DEF CoreOK
  <2>4. ProcessOK' /\ QueueOK' /\ QueuedOnce' /\ NotBegun'
    BY <2>1 DEF CoreOK, ProcessOK, QueueOK, QueuedOnce, NotBegun, Awaited,
                  thread_vars
  <2> QED
    BY <2>3, <2>4 DEF CoreOK
<1> QED
  BY <1>1, <1>2 DEF ProgressStep

\* An engine starts as its run leaves the queue, where it is only once.
LEMMA StartTyped ==
  ASSUME CoreOK, NEW r \in Runs, StartEngine(r)
  PROVE  CoreOK'
<1> DEFINE p == home[r]
<1>1. /\ work_queue[p] # <<>> /\ Head(work_queue[p]) = r
      /\ work_queue' = [work_queue EXCEPT ![p] = Tail(@)]
      /\ engine' = [engine EXCEPT ![r] = "computing"]
      /\ UNCHANGED <<redis_vars, home, task, progress_vars, calls, fate, deleted>>
  BY DEF StartEngine
<1>2. p \in Processes /\ work_queue[p] \in Seq(Runs)
  BY DEF CoreOK, ProcessOK
<1>3. 1 \in DOMAIN work_queue[p] /\ work_queue[p][1] = r
  BY <1>1, <1>2
<1>4. task[r] = "waiting"
  BY <1>2, <1>3 DEF CoreOK, QueueOK, Awaited
<1>5. RedisOK'
  BY <1>1, OtherCommandsTyped DEF CoreOK
<1>6. ProcessOK'
  <2>1. Tail(work_queue[p]) \in Seq(Runs)
    BY <1>1, <1>2
  <2> QED
    BY <1>1, <2>1 DEF CoreOK, ProcessOK, progress_vars
<1>7. ASSUME NEW q \in Processes, NEW i \in DOMAIN work_queue'[q]
      PROVE  \E j \in DOMAIN work_queue[q] :
               /\ j = IF q = p THEN i + 1 ELSE i
               /\ work_queue'[q][i] = work_queue[q][j]
               /\ work_queue[q][j] # r
  <2>1. CASE q = p
    <3>1. work_queue'[q] = Tail(work_queue[q])
      BY <1>1, <2>1 DEF CoreOK, ProcessOK
    <3>2. /\ i + 1 \in DOMAIN work_queue[q] /\ work_queue'[q][i] = work_queue[q][i + 1]
          /\ i + 1 # 1
      <4>1. work_queue[q] \in Seq(Runs) /\ work_queue[q] # <<>>
        BY <1>1, <1>2, <2>1
      <4>2. i \in DOMAIN Tail(work_queue[q])
        BY <1>7, <3>1
      <4> QED
        BY <3>1, <4>1, <4>2
    <3>3. work_queue[q][i + 1] # r
      BY <1>3, <2>1, <3>2 DEF CoreOK, QueuedOnce
    <3> QED
      BY <2>1, <3>2, <3>3
  <2>2. CASE q # p
    <3>1. work_queue'[q] = work_queue[q]
      BY <1>1, <2>2 DEF CoreOK, ProcessOK
    <3>2. work_queue[q][i] # r
      BY <1>7, <2>2, <3>1 DEF CoreOK, QueueOK, Awaited
    <3> QED
      BY <1>7, <2>2, <3>1, <3>2
  <2> QED
    BY <2>1, <2>2
<1>8. QueueOK'
  <2> SUFFICES ASSUME NEW q \in Processes, NEW i \in DOMAIN work_queue'[q]
               PROVE  Awaited(work_queue[q][i], q)'
    BY DEF QueueOK
  <2>1. PICK j \in DOMAIN work_queue[q] :
          work_queue'[q][i] = work_queue[q][j] /\ work_queue[q][j] # r
    BY <1>7
  <2>2. Awaited(work_queue[q][j], q)
    BY DEF CoreOK, QueueOK
  <2>3. engine'[work_queue[q][j]] = engine[work_queue[q][j]]
    BY <1>1, <2>1, <2>2 DEF CoreOK, ProcessOK, Awaited
  <2> QED
    BY <1>1, <2>1, <2>2, <2>3 DEF Awaited
<1>9. QueuedOnce'
  <2> SUFFICES ASSUME NEW q \in Processes, NEW i \in DOMAIN work_queue'[q],
                      NEW j \in DOMAIN work_queue'[q], work_queue'[q][i] = work_queue'[q][j]
               PROVE  i = j
    BY DEF QueuedOnce
  <2>1. work_queue'[q] \in Seq(Runs)
    BY <1>6 DEF ProcessOK
  <2>2. i \in Nat /\ j \in Nat
    BY <2>1
  <2> QED
    BY <1>7, <2>2 DEF CoreOK, QueuedOnce
<1>10. NotBegun'
  BY <1>1, <1>4 DEF CoreOK, ProcessOK, NotBegun, BeforeEngine
<1> QED
  BY <1>5, <1>6, <1>8, <1>9, <1>10 DEF CoreOK

\* An engine starts when its run leaves the queue, and a run is there once.
LEMMA EngineTyped ==
  ASSUME CoreOK, NEW r \in Runs, EngineStep(r)
  PROVE  CoreOK'
<1>1. RedisOK'
  BY OtherCommandsTyped DEF CoreOK, EngineStep, StartEngine, Callback, Resume, ReturnEngine
<1>2. CASE StartEngine(r)
  BY <1>1, <1>2, StartTyped
<1>3. CASE Callback(r) \/ Resume(r) \/ ReturnEngine(r)
  <2>1. /\ engine[r] \in {"computing", "calling"}
        /\ \E e \in {"computing", "calling", "returned"} : engine' = [engine EXCEPT ![r] = e]
        /\ UNCHANGED <<home, task, work_queue, fate, deleted, unrecorded>>
        /\ calls' \in {calls, [calls EXCEPT ![r] = @ + 1]}
        /\ unpublished' \in {unpublished, [unpublished EXCEPT ![r] = @ + 1]}
    BY <1>3 DEF Callback, Resume, ReturnEngine, progress_vars
  <2>2. ProcessOK'
    <3>0. calls \in [Runs -> Nat] /\ unpublished \in [Runs -> Nat]
      BY DEF CoreOK, ProcessOK
    <3>1. calls' \in [Runs -> Nat]
      BY <2>1, <3>0
    <3>2. unpublished' \in [Runs -> Nat]
      BY <2>1, <3>0
    <3> QED
      BY <2>1, <3>1, <3>2 DEF CoreOK, ProcessOK
  <2>3. QueueOK'
    BY <2>1 DEF CoreOK, ProcessOK, QueueOK, Awaited
  <2>4. QueuedOnce' /\ NotBegun'
    BY <2>1 DEF CoreOK, ProcessOK, QueuedOnce, NotBegun
  <2> QED
    BY <1>1, <2>2, <2>3, <2>4 DEF CoreOK
<1> QED
  BY <1>2, <1>3 DEF EngineStep

\* A record that goes leaves no fields behind.
LEMMA RemoveTyped ==
  ASSUME CoreOK, NEW r \in Runs, Remove(r)
  PROVE  CoreOK'
<1>1. RedisOK'
  BY DEF Remove, CoreOK, RedisOK, IsHash
<1> QED
  BY <1>1 DEF Remove, CoreOK, ProcessOK, QueueOK, QueuedOnce, NotBegun, Awaited,
              progress_vars, thread_vars

\* A process that dies loses its queue with the tasks that wait.
LEMMA RestartTyped ==
  ASSUME CoreOK, NEW p \in Processes, Restart(p)
  PROVE  CoreOK'
<1>1. /\ task' = [r \in Runs |-> IF r \in Lost(p) THEN "dead" ELSE task[r]]
      /\ engine' = [r \in Runs |-> IF r \in Lost(p) THEN "idle" ELSE engine[r]]
      /\ unpublished' = [r \in Runs |-> IF home[r] = p THEN 0 ELSE unpublished[r]]
      /\ unrecorded' = [r \in Runs |-> IF home[r] = p THEN 0 ELSE unrecorded[r]]
      /\ work_queue' = [work_queue EXCEPT ![p] = <<>>]
      /\ UNCHANGED <<redis_vars, home, calls, fate, deleted>>
  BY DEF Restart
<1>2. RedisOK'
  BY <1>1 DEF CoreOK, RedisOK, redis_vars
<1>3. ProcessOK'
  <2>1. <<>> \in Seq(Runs)
    OBVIOUS
  <2>2. work_queue' \in [Processes -> Seq(Runs)]
    BY <1>1, <2>1 DEF CoreOK, ProcessOK
  <2>3. task' \in [Runs -> Places]
    BY <1>1 DEF CoreOK, ProcessOK, Places
  <2> QED
    BY <1>1, <2>2, <2>3 DEF CoreOK, ProcessOK
<1>4. \A q \in Processes : work_queue'[q] = IF q = p THEN <<>> ELSE work_queue[q]
  BY <1>1 DEF CoreOK, ProcessOK
<1>5. QueueOK'
  <2> SUFFICES ASSUME NEW q \in Processes, NEW i \in DOMAIN work_queue'[q]
               PROVE  Awaited(work_queue[q][i], q)'
    BY DEF QueueOK
  <2>1. q # p /\ work_queue'[q] = work_queue[q]
    BY <1>4
  <2>2. Awaited(work_queue[q][i], q)
    BY <2>1 DEF CoreOK, QueueOK
  <2>3. work_queue[q][i] \in Runs
    BY <2>1 DEF CoreOK, ProcessOK
  <2>4. work_queue[q][i] \notin Lost(p)
    BY <2>1, <2>2 DEF Lost, Awaited
  <2> QED
    BY <1>1, <2>1, <2>2, <2>3, <2>4 DEF Awaited
<1>6. QueuedOnce'
  BY <1>4 DEF CoreOK, QueuedOnce
<1>7. NotBegun'
  BY <1>1 DEF CoreOK, NotBegun, BeforeEngine
<1> QED
  BY <1>2, <1>3, <1>5, <1>6, <1>7 DEF CoreOK

-----------------------------------------------------------------------------
(* The audience.                                                            *)

Subscribed == \A c \in Clients, r \in Runs : c \in channel[r] <=> topic[c] = r /\ Live(c)

AudienceOK ==
  /\ channel \in [Runs -> SUBSET Clients]
  /\ ws \in [Clients -> {"none", "subscribed", "read", "streaming", "closed"}]
  /\ host \in [Clients -> Processes] /\ topic \in [Clients -> Runs]
  /\ current \in [Clients -> Status \cup {""}]
  /\ page \in [Clients -> [status : Status, result : BOOLEAN, open : BOOLEAN]]
  /\ Subscribed

LEMMA UnsubscribeKeeps ==
  ASSUME AudienceOK, NEW c \in Clients, Unsubscribe(c), topic' = topic
  PROVE  /\ channel' \in [Runs -> SUBSET Clients]
         /\ ws' \in [Clients -> {"none", "subscribed", "read", "streaming", "closed"}]
         /\ Subscribed'
<1>1. /\ ws' = [ws EXCEPT ![c] = "closed"]
      /\ channel' = [channel EXCEPT ![topic[c]] = @ \ {c}]
  BY DEF Unsubscribe
<1>2. topic[c] \in Runs /\ \A d \in Clients : d # c => ws'[d] = ws[d]
  BY <1>1 DEF AudienceOK
<1>3. \A q \in Runs : channel'[q] = IF q = topic[c] THEN channel[q] \ {c} ELSE channel[q]
  BY <1>1 DEF AudienceOK
<1>4. Subscribed'
  <2> SUFFICES ASSUME NEW d \in Clients, NEW q \in Runs
               PROVE  d \in channel'[q] <=> topic'[d] = q /\ Live(d)'
    BY DEF Subscribed
  <2>1. d \in channel[q] <=> topic[d] = q /\ Live(d)
    BY DEF AudienceOK, Subscribed
  <2>2. ws'[c] = "closed"
    BY <1>1 DEF AudienceOK
  <2> QED
    BY <1>2, <1>3, <2>1, <2>2 DEF Live
<1> QED
  BY <1>1, <1>2, <1>4 DEF AudienceOK

\* A page shows what a page can show.
LEMMA ShownTyped ==
  ASSUME NEW shown \in [status : Status, result : BOOLEAN, open : BOOLEAN], NEW type \in Types
  PROVE  Shown(shown, type) \in [status : Status, result : BOOLEAN, open : BOOLEAN]
BY DEF Shown, Types, Status

LEMMA AudienceKeeps ==
  ASSUME CoreOK, AudienceOK, NEW c \in Clients,
         Connect(c) \/ ClientStep(c) \/ HandlerFails(c) \/ Leave(c)
  PROVE  AudienceOK'
<1> DEFINE Stages == {"none", "subscribed", "read", "streaming", "closed"}
           Pages == [status : Status, result : BOOLEAN, open : BOOLEAN]
<1>1. CASE Connect(c)
  <2>1. /\ ws' = [ws EXCEPT ![c] = "subscribed"]
        /\ channel' = [channel EXCEPT ![topic[c]] = @ \cup {c}]
        /\ UNCHANGED <<host, topic, current, page>>
    BY <1>1 DEF Connect
  <2>2. topic[c] \in Runs /\ \A d \in Clients : d # c => ws'[d] = ws[d]
    BY <2>1 DEF AudienceOK
  <2>3. \A q \in Runs : channel'[q] = IF q = topic[c] THEN channel[q] \cup {c} ELSE channel[q]
    BY <2>1 DEF AudienceOK
  <2>4. Subscribed'
    <3> SUFFICES ASSUME NEW d \in Clients, NEW q \in Runs
                 PROVE  d \in channel'[q] <=> topic'[d] = q /\ Live(d)'
      BY DEF Subscribed
    <3>1. d \in channel[q] <=> topic[d] = q /\ Live(d)
      BY DEF AudienceOK, Subscribed
    <3>2. ws'[c] = "subscribed"
      BY <2>1 DEF AudienceOK
    <3> QED
      BY <2>1, <2>2, <2>3, <3>1, <3>2 DEF Live
  <2>5. channel' \in [Runs -> SUBSET Clients]
    BY <2>1, <2>2 DEF AudienceOK
  <2> QED
    BY <2>1, <2>4, <2>5 DEF AudienceOK
<1>2. CASE ReadStatus(c)
  <2>1. /\ ws[c] = "subscribed" /\ ws' = [ws EXCEPT ![c] = "read"]
        /\ current' = [current EXCEPT ![c] = IF hash[topic[c]] = NoKey THEN ""
                                             ELSE hash[topic[c]]["status"]]
        /\ UNCHANGED <<channel, host, topic, page>>
    BY <1>2 DEF ReadStatus, vars
  <2>2. topic[c] \in Runs /\ IsHash(hash[topic[c]])
    BY DEF AudienceOK, CoreOK, RedisOK
  <2>3. current' \in [Clients -> Status \cup {""}]
    BY <2>1, <2>2 DEF AudienceOK, IsHash
  <2>4. \A d \in Clients : Live(d)' <=> Live(d)
    BY <2>1 DEF AudienceOK, Live
  <2> QED
    BY <2>1, <2>3, <2>4 DEF AudienceOK, Subscribed
<1>3. CASE SendStatus(c)
  <2>1. ws[c] = "read" /\ UNCHANGED <<host, topic, current>>
    BY <1>3 DEF SendStatus
  <2>2. CASE current[c] # "" /\ ~page[c].open
    <3>1. Unsubscribe(c) /\ UNCHANGED page
      BY <1>3, <2>2 DEF SendStatus
    <3> QED
      BY <2>1, <3>1, UnsubscribeKeeps DEF AudienceOK
  <2>3. CASE ~(current[c] # "" /\ ~page[c].open)
    <3>1. /\ ws' = [ws EXCEPT ![c] = "streaming"] /\ UNCHANGED channel
          /\ page' = IF current[c] = "" THEN page ELSE [page EXCEPT ![c].status = current[c]]
      BY <1>3, <2>3 DEF SendStatus
    <3>2. page' \in [Clients -> Pages]
      <4>1. CASE current[c] = ""
        BY <3>1, <4>1 DEF AudienceOK
      <4>2. CASE current[c] # ""
        <5>1. current[c] \in Status
          BY <4>2 DEF AudienceOK
        <5> QED
          BY <3>1, <4>2, <5>1 DEF AudienceOK
      <4> QED
        BY <4>1, <4>2
    <3>3. \A d \in Clients : Live(d)' <=> Live(d)
      BY <2>1, <3>1 DEF AudienceOK, Live
    <3> QED
      BY <2>1, <3>1, <3>2, <3>3 DEF AudienceOK, Subscribed
  <2> QED
    BY <2>2, <2>3
<1>4. CASE Forward(c)
  <2> DEFINE type == Head(inbox[c])
  <2>1. /\ inbox[c] # <<>> /\ UNCHANGED <<host, topic, current>>
        /\ page' = IF page[c].open THEN [page EXCEPT ![c] = Shown(@, type)] ELSE page
        /\ Unsubscribe(c) \/ UNCHANGED <<ws, channel>>
    BY <1>4 DEF Forward
  <2>2. type \in Types
    BY <2>1 DEF CoreOK, RedisOK, Types
  <2>3. Shown(page[c], type) \in Pages
    BY <2>2, ShownTyped DEF AudienceOK
  <2>4. page' \in [Clients -> Pages]
    BY <2>1, <2>3 DEF AudienceOK
  <2>5. CASE Unsubscribe(c)
    BY <2>1, <2>4, <2>5, UnsubscribeKeeps DEF AudienceOK
  <2>6. CASE UNCHANGED <<ws, channel>>
    BY <2>1, <2>4, <2>6 DEF AudienceOK, Subscribed, Live
  <2> QED
    BY <2>1, <2>5, <2>6
<1>5. CASE HandlerFails(c)
  <2>1. /\ Unsubscribe(c) /\ page' = [page EXCEPT ![c].open = FALSE]
        /\ UNCHANGED <<host, topic, current>>
    BY <1>5 DEF HandlerFails
  <2>2. page' \in [Clients -> Pages]
    BY <2>1 DEF AudienceOK
  <2> QED
    BY <2>1, <2>2, UnsubscribeKeeps DEF AudienceOK
<1>6. CASE Leave(c)
  <2>1. /\ page' = [page EXCEPT ![c].open = FALSE]
        /\ UNCHANGED <<channel, ws, host, topic, current>>
    BY <1>6 DEF Leave, vars
  <2>2. page' \in [Clients -> Pages]
    BY <2>1 DEF AudienceOK
  <2> QED
    BY <2>1, <2>2 DEF AudienceOK, Subscribed, Live
<1> QED
  BY <1>1, <1>2, <1>3, <1>4, <1>5, <1>6 DEF ClientStep

\* The connections of a process go with it.
LEMMA RestartAllKeeps ==
  ASSUME AudienceOK, NEW p \in Processes, RestartAll(p)
  PROVE  AudienceOK'
<1> DEFINE gone == {c \in Clients : host[c] = p /\ ws[c] \notin {"none", "closed"}}
           Pages == [status : Status, result : BOOLEAN, open : BOOLEAN]
<1>1. /\ channel' = [r \in Runs |-> channel[r] \ gone]
      /\ ws' = [c \in Clients |-> IF c \in gone THEN "closed" ELSE ws[c]]
      /\ page' = [c \in Clients |-> IF c \in gone THEN [page[c] EXCEPT !.open = FALSE]
                                                  ELSE page[c]]
      /\ UNCHANGED <<host, topic, current>>
  BY DEF RestartAll
<1>2. \A c \in Clients : [page[c] EXCEPT !.open = FALSE] \in Pages /\ page[c] \in Pages
  BY DEF AudienceOK
<1>3. page' \in [Clients -> Pages]
  BY <1>1, <1>2
<1>4. Subscribed'
  <2> SUFFICES ASSUME NEW d \in Clients, NEW q \in Runs
               PROVE  d \in channel'[q] <=> topic'[d] = q /\ Live(d)'
    BY DEF Subscribed
  <2>1. d \in channel[q] <=> topic[d] = q /\ Live(d)
    BY DEF AudienceOK, Subscribed
  <2> QED
    BY <1>1, <2>1 DEF Live
<1> QED
  BY <1>1, <1>3, <1>4 DEF AudienceOK

-----------------------------------------------------------------------------
(* Both specifications, Worker alone and with its audience, take these steps *)
(* as far as the API's own state is concerned.                              *)

RunMoves(r) ==
  HandlerStep(r) \/ TaskStep(r) \/ ProgressStep(r) \/ EngineStep(r)

ApiStep ==
  \/ \E r \in Runs : RunMoves(r) \/ Remove(r)
  \/ \E p \in Processes : Restart(p)
  \/ UNCHANGED worker_but_redis

LEMMA WorkerStepIsApi == [Next]_vars => ApiStep
BY DEF Next, ApiStep, RunMoves, DeleteBacktest, KeyExpires, vars, redis_vars,
       worker_but_redis

LEMMA StreamStepIsApi == [StreamNext]_all_vars => ApiStep
<1> SUFFICES ASSUME [StreamNext]_all_vars PROVE ApiStep
  OBVIOUS
<1>1. ASSUME NEW r \in Runs, RunStep(r) PROVE ApiStep
  BY <1>1 DEF RunStep, ApiStep, RunMoves, DeleteBacktest, KeyExpires
<1>2. ASSUME NEW c \in Clients, Connect(c) \/ ClientStep(c) \/ HandlerFails(c) \/ Leave(c)
      PROVE  ApiStep
  <2>1. UNCHANGED worker_but_redis
    BY <1>2 DEF Connect, ClientStep, ReadStatus, SendStatus, Forward, HandlerFails, Leave,
                worker_but_redis, vars, redis_vars
  <2> QED
    BY <2>1 DEF ApiStep
<1>3. ASSUME NEW p \in Processes, RestartAll(p) PROVE ApiStep
  BY <1>3 DEF RestartAll, ApiStep
<1>4. CASE UNCHANGED all_vars
  BY <1>4 DEF all_vars, vars, redis_vars, worker_but_redis, ApiStep
<1> QED
  BY <1>1, <1>2, <1>3, <1>4 DEF StreamNext

\* The step of a coroutine or a thread leaves the audience alone.
LEMMA RunLeavesAudience ==
  ASSUME NEW r \in Runs, RunMoves(r) \/ Remove(r)
  PROVE  channel' = channel
BY DEF RunMoves, HandlerStep, CreateBacktest, Enqueue, TaskStep, MarkRunning, PublishStatus,
       RecordStatus, Submit, Collect, StoreResult, SetExpiry, Announce, CloseRecord,
       MarkFailed, Report, Await, ProgressStep, PublishProgress, RecordProgress, EngineStep,
       StartEngine, Callback, Resume, ReturnEngine, Remove

LEMMA ApiTyped ==
  ASSUME CoreOK, ApiStep,
         inbox' \in [Clients -> Seq({"status", "progress", "complete", "error"})]
  PROVE  CoreOK'
<1>1. ASSUME NEW r \in Runs, RunMoves(r) PROVE CoreOK'
  BY <1>1, HandlerTyped, TaskTyped, ProgressTyped, EngineTyped DEF RunMoves
<1>2. ASSUME NEW r \in Runs, Remove(r) PROVE CoreOK'
  BY <1>2, RemoveTyped
<1>3. ASSUME NEW p \in Processes, Restart(p) PROVE CoreOK'
  BY <1>3, RestartTyped
<1>4. CASE UNCHANGED worker_but_redis
  BY <1>4 DEF worker_but_redis, progress_vars, thread_vars, CoreOK, RedisOK, ProcessOK,
              QueueOK, QueuedOnce, NotBegun, Awaited
<1> QED
  BY <1>1, <1>2, <1>3, <1>4 DEF ApiStep

LEMMA CoreBegins == Init => CoreOK /\ channel \in [Runs -> SUBSET Clients]
<1> SUFFICES ASSUME Init PROVE CoreOK /\ channel \in [Runs -> SUBSET Clients]
  OBVIOUS
<1>1. <<>> \in Seq(Runs) /\ <<>> \in Seq(Types) /\ <<>> \in Seq({"complete", "error"})
  OBVIOUS
<1>2. RedisOK
  BY <1>1 DEF Init, RedisOK, IsHash, Types
<1>3. ProcessOK
  BY <1>1 DEF Init, ProcessOK, Places
<1>4. QueueOK /\ QueuedOnce /\ NotBegun
  BY DEF Init, QueueOK, QueuedOnce, NotBegun
<1> QED
  BY <1>2, <1>3, <1>4 DEF CoreOK, Init

\* What a step delivers is a message.
LEMMA InboxTyped ==
  ASSUME CoreOK, [StreamNext]_all_vars
  PROVE  inbox' \in [Clients -> Seq({"status", "progress", "complete", "error"})]
<1>1. ASSUME NEW r \in Runs, RunStep(r) PROVE CoreOK'
  BY <1>1, HandlerTyped, TaskTyped, ProgressTyped, EngineTyped, RemoveTyped
     DEF RunStep, DeleteBacktest, KeyExpires
<1>2. ASSUME NEW p \in Processes, RestartAll(p) PROVE CoreOK'
  BY <1>2, RestartTyped DEF RestartAll
<1>3. ASSUME NEW c \in Clients, Forward(c)
      PROVE  inbox' \in [Clients -> Seq({"status", "progress", "complete", "error"})]
  <2>1. inbox[c] # <<>> /\ inbox' = [inbox EXCEPT ![c] = Tail(@)]
    BY <1>3 DEF Forward
  <2>2. inbox[c] \in Seq({"status", "progress", "complete", "error"})
    BY DEF CoreOK, RedisOK
  <2>3. Tail(inbox[c]) \in Seq({"status", "progress", "complete", "error"})
    BY <2>1, <2>2
  <2> QED
    BY <2>1, <2>3 DEF CoreOK, RedisOK
<1>4. ASSUME NEW c \in Clients,
             Connect(c) \/ ReadStatus(c) \/ SendStatus(c) \/ HandlerFails(c) \/ Leave(c)
      PROVE  inbox' = inbox
  BY <1>4 DEF Connect, ReadStatus, SendStatus, HandlerFails, Leave, vars, redis_vars
<1>5. CASE UNCHANGED all_vars
  BY <1>5 DEF all_vars, vars, redis_vars, CoreOK, RedisOK
<1> QED
  BY <1>1, <1>2, <1>3, <1>4, <1>5 DEF StreamNext, ClientStep, CoreOK, RedisOK

LEMMA AudienceUntouched ==
  ASSUME AudienceOK, UNCHANGED <<channel, stream_vars>>
  PROVE  AudienceOK'
<1>1. channel' = channel /\ ws' = ws /\ host' = host /\ topic' = topic /\ current' = current
      /\ page' = page
  BY DEF stream_vars
<1>2. Subscribed'
  BY <1>1 DEF AudienceOK, Subscribed, Live
<1> QED
  BY <1>1, <1>2 DEF AudienceOK

LEMMA StreamInvHolds == StreamSpec => [](CoreOK /\ AudienceOK)
<1>1. StreamInit => CoreOK /\ AudienceOK
  <2> SUFFICES ASSUME StreamInit PROVE CoreOK /\ AudienceOK
    OBVIOUS
  <2>1. CoreOK /\ channel \in [Runs -> SUBSET Clients]
    BY CoreBegins DEF StreamInit
  <2>2. [status |-> "pending", result |-> FALSE, open |-> TRUE]
          \in [status : Status, result : BOOLEAN, open : BOOLEAN]
    BY DEF Status
  <2>3. Subscribed
    BY DEF StreamInit, Init, Subscribed, Live
  <2> QED
    BY <2>1, <2>2, <2>3 DEF StreamInit, AudienceOK
<1>2. CoreOK /\ AudienceOK /\ [StreamNext]_all_vars => CoreOK' /\ AudienceOK'
  <2> SUFFICES ASSUME CoreOK, AudienceOK, [StreamNext]_all_vars
               PROVE  CoreOK' /\ AudienceOK'
    OBVIOUS
  <2>1. CoreOK'
    BY ApiTyped, InboxTyped, StreamStepIsApi
  <2>2. ASSUME NEW r \in Runs, RunStep(r) PROVE AudienceOK'
    <3>1. UNCHANGED <<channel, stream_vars>>
      BY <2>2, RunLeavesAudience DEF RunStep, RunMoves, DeleteBacktest, KeyExpires
    <3> QED
      BY <2>1, <3>1, AudienceUntouched
  <2>3. CASE UNCHANGED all_vars
    <3>1. UNCHANGED <<channel, stream_vars>>
      BY <2>3 DEF all_vars, vars
    <3> QED
      BY <2>1, <3>1, AudienceUntouched
  <2> QED
    <3>1. ASSUME NEW c \in Clients, Connect(c) \/ ClientStep(c) \/ HandlerFails(c) \/ Leave(c)
          PROVE  AudienceOK'
      BY <3>1, AudienceKeeps
    <3>2. ASSUME NEW p \in Processes, RestartAll(p) PROVE AudienceOK'
      BY <3>2, RestartAllKeeps
    <3> QED
      BY <2>1, <2>2, <2>3, <3>1, <3>2 DEF StreamNext
<1> QED
  BY <1>1, <1>2, PTL DEF StreamSpec

\* The same of the API without its audience.
LEMMA WorkerInvHolds == Spec => []CoreOK
<1>1. Init => CoreOK
  BY CoreBegins
<1>2. CoreOK /\ [Next]_vars => CoreOK'
  <2> SUFFICES ASSUME CoreOK, [Next]_vars PROVE CoreOK'
    OBVIOUS
  <2>1. CASE UNCHANGED vars
    BY <2>1, ApiTyped, WorkerStepIsApi DEF vars, redis_vars, CoreOK, RedisOK
  <2>2. ASSUME NEW r \in Runs, RunMoves(r) \/ DeleteBacktest(r) \/ KeyExpires(r) PROVE CoreOK'
    BY <2>2, HandlerTyped, TaskTyped, ProgressTyped, EngineTyped, RemoveTyped
       DEF RunMoves, DeleteBacktest, KeyExpires
  <2>3. ASSUME NEW p \in Processes, Restart(p) PROVE CoreOK'
    BY <2>3, RestartTyped
  <2> QED
    BY <2>1, <2>2, <2>3 DEF Next, RunMoves
<1> QED
  BY <1>1, <1>2, PTL DEF Spec

\* The types of the API and of its audience; only a run that waits is in an
\* executor's queue, and a handler is subscribed to the channel of its run, and
\* to no other, exactly as long as it lives (main.py:285-334, worker.py:76-97).
THEOREM TypesAndSubscriptions == StreamSpec => []StreamTypeOK
<1>1. CoreOK /\ AudienceOK => StreamTypeOK
  BY TypeParts DEF AudienceOK, Subscribed, StreamTypeOK
<1> QED
  BY <1>1, StreamInvHolds, PTL

-----------------------------------------------------------------------------
(* What GET /backtests finds.                                               *)

\* As long as no record has been removed, a run has either its time of
\* creation, or nothing at all: no key, and nothing under way that could
\* write one (main.py:191-203, worker.py:45-53).
Dated(r) == "created_at" \in DOMAIN hash[r]

Untouched(r) ==
  /\ hash[r] = NoKey /\ task[r] \in {"none", "refused"} /\ engine[r] = "idle"
  /\ unpublished[r] = 0 /\ unrecorded[r] = 0

DatesKept == deleted = {} => \A r \in Runs : Dated(r) \/ Untouched(r)

\* A step of one run leaves the others alone.
OthersSame(r) ==
  /\ deleted' = deleted
  /\ \A q \in Runs \ {r} : /\ hash'[q] = hash[q] /\ task'[q] = task[q]
                           /\ engine'[q] = engine[q]
                           /\ unpublished'[q] = unpublished[q]
                           /\ unrecorded'[q] = unrecorded[q]

FieldsStay(r) == hash' = hash \/ (\E m : HSet(r, m))

LEMMA DatedStays ==
  ASSUME CoreOK, NEW r \in Runs, FieldsStay(r), Dated(r)
  PROVE  Dated(r)'
<1>1. CASE hash' = hash
  BY <1>1 DEF Dated
<1>2. ASSUME NEW m, HSet(r, m) PROVE Dated(r)'
  <2>1. hash'[r] = Merge(hash[r], m)
    BY <1>2 DEF HSet, CoreOK, RedisOK
  <2> QED
    BY <2>1 DEF Dated, Merge
<1> QED
  BY <1>1, <1>2 DEF FieldsStay

LEMMA OneRunMoves ==
  ASSUME CoreOK, NEW r \in Runs, RunMoves(r)
  PROVE  OthersSame(r) /\ FieldsStay(r)
<1>0. /\ DOMAIN hash = Runs /\ task \in [Runs -> Places]
      /\ unpublished \in [Runs -> Nat] /\ unrecorded \in [Runs -> Nat]
      /\ engine \in [Runs -> {"idle", "computing", "calling", "returned"}]
  BY DEF CoreOK, RedisOK, ProcessOK
<1>1. /\ deleted' = deleted
      /\ \/ task' = task \/ \E t : task' = [task EXCEPT ![r] = t]
      /\ \/ engine' = engine \/ \E e : engine' = [engine EXCEPT ![r] = e]
      /\ \/ unpublished' = unpublished
         \/ \E n : unpublished' = [unpublished EXCEPT ![r] = n]
      /\ \/ unrecorded' = unrecorded
         \/ \E n : unrecorded' = [unrecorded EXCEPT ![r] = n]
  <2>1. CASE HandlerStep(r)
    BY <2>1 DEF HandlerStep, CreateBacktest, Enqueue, Await, progress_vars, thread_vars
  <2>2. CASE TaskStep(r)
    BY <2>2 DEF TaskStep, MarkRunning, PublishStatus, RecordStatus, Submit, Collect,
                StoreResult, SetExpiry, Announce, CloseRecord, MarkFailed, Report, Await,
                progress_vars, thread_vars
  <2>3. CASE ProgressStep(r)
    BY <2>3 DEF ProgressStep, PublishProgress, RecordProgress, thread_vars
  <2>4. CASE EngineStep(r)
    BY <2>4 DEF EngineStep, StartEngine, Callback, Resume, ReturnEngine, progress_vars
  <2> QED
    BY <2>1, <2>2, <2>3, <2>4 DEF RunMoves
<1>2. FieldsStay(r)
  <2>1. CASE HandlerStep(r)
    BY <2>1 DEF HandlerStep, CreateBacktest, Enqueue, Await, RPush, redis_vars, FieldsStay
  <2>2. CASE TaskStep(r)
    BY <2>2 DEF TaskStep, MarkRunning, PublishStatus, RecordStatus, Submit, Collect,
                StoreResult, SetExpiry, Announce, CloseRecord, MarkFailed, Report, Await,
                Publish, Expire, redis_vars, FieldsStay
  <2>3. CASE ProgressStep(r)
    BY <2>3 DEF ProgressStep, PublishProgress, RecordProgress, Publish, redis_vars, FieldsStay
  <2>4. CASE EngineStep(r)
    BY <2>4 DEF EngineStep, StartEngine, Callback, Resume, ReturnEngine, redis_vars,
                FieldsStay
  <2> QED
    BY <2>1, <2>2, <2>3, <2>4 DEF RunMoves
<1>3. \A q \in Runs \ {r} : hash'[q] = hash[q]
  BY <1>0, <1>2 DEF FieldsStay, HSet
<1>4. \A q \in Runs \ {r} : task'[q] = task[q] /\ engine'[q] = engine[q]
  BY <1>0, <1>1
<1>5. \A q \in Runs \ {r} : unpublished'[q] = unpublished[q] /\ unrecorded'[q] = unrecorded[q]
  BY <1>0, <1>1
<1> QED
  BY <1>1, <1>2, <1>3, <1>4, <1>5 DEF OthersSame

\* Only the handler of its POST touches a run about which nothing is stored.
LEMMA OnlyCreationTouches ==
  ASSUME CoreOK, NEW r \in Runs, RunMoves(r), ~CreateBacktest(r)
  PROVE  ~Untouched(r)
<1>1. CASE HandlerStep(r)
  BY <1>1 DEF HandlerStep, Enqueue, Await, Untouched
<1>2. CASE TaskStep(r)
  BY <1>2 DEF TaskStep, MarkRunning, PublishStatus, RecordStatus, Submit, Collect,
              StoreResult, SetExpiry, Announce, CloseRecord, MarkFailed, Report, Await,
              Untouched
<1>3. CASE ProgressStep(r)
  BY <1>3 DEF ProgressStep, PublishProgress, RecordProgress, Untouched
<1>4. CASE EngineStep(r)
  <2>1. CASE StartEngine(r)
    <3>1. /\ home[r] \in Processes /\ work_queue[home[r]] \in Seq(Runs)
          /\ work_queue[home[r]] # <<>> /\ Head(work_queue[home[r]]) = r
      BY <2>1 DEF StartEngine, CoreOK, ProcessOK
    <3>2. 1 \in DOMAIN work_queue[home[r]] /\ work_queue[home[r]][1] = r
      BY <3>1
    <3>3. task[r] = "waiting"
      BY <3>1, <3>2 DEF CoreOK, QueueOK, Awaited
    <3> QED
      BY <3>3 DEF Untouched
  <2>2. CASE Callback(r) \/ Resume(r) \/ ReturnEngine(r)
    BY <2>2 DEF Callback, Resume, ReturnEngine, Untouched
  <2> QED
    BY <1>4, <2>1, <2>2 DEF EngineStep
<1> QED
  BY <1>1, <1>2, <1>3, <1>4 DEF RunMoves

LEMMA DatesStep ==
  ASSUME CoreOK, DatesKept, ApiStep
  PROVE  DatesKept'
<1>1. ASSUME NEW r \in Runs, RunMoves(r) PROVE DatesKept'
  <2> SUFFICES ASSUME deleted' = {}, NEW q \in Runs PROVE Dated(q)' \/ Untouched(q)'
    BY DEF DatesKept
  <2>1. OthersSame(r) /\ FieldsStay(r)
    BY <1>1, OneRunMoves
  <2>2. Dated(q) \/ Untouched(q)
    BY <2>1 DEF OthersSame, DatesKept
  <2>3. CASE q # r
    BY <2>1, <2>2, <2>3 DEF OthersSame, Dated, Untouched
  <2>4. CASE q = r /\ CreateBacktest(r)
    <3> DEFINE m == [status |-> "pending", created_at |-> "now"]
    <3>1. /\ \/ HSet(r, m)
             \/ hash' = hash /\ task' = [task EXCEPT ![r] = "refused"]
          /\ UNCHANGED <<progress_vars, thread_vars>>
      BY <2>4 DEF CreateBacktest, Await, redis_vars
    <3>2. "created_at" \in DOMAIN m
      OBVIOUS
    <3> HIDE DEF m
    <3>3. CASE HSet(r, m)
      <4>1. hash'[r] = Merge(hash[r], m)
        BY <3>3 DEF HSet, CoreOK, RedisOK
      <4> QED
        BY <2>4, <3>2, <4>1 DEF Dated, Merge
    <3>4. CASE hash' = hash /\ task' = [task EXCEPT ![r] = "refused"]
      <4>1. task'[r] = "refused"
        BY <3>4 DEF CoreOK, ProcessOK
      <4> QED
        BY <2>2, <2>4, <3>1, <3>4, <4>1 DEF Dated, Untouched, progress_vars, thread_vars
    <3> QED
      BY <3>1, <3>3, <3>4
  <2>5. CASE q = r /\ ~CreateBacktest(r)
    BY <1>1, <2>1, <2>2, <2>5, OnlyCreationTouches, DatedStays
  <2> QED
    BY <2>3, <2>4, <2>5
<1>2. ASSUME NEW r \in Runs, Remove(r) PROVE DatesKept'
  BY <1>2 DEF Remove, DatesKept
<1>3. ASSUME NEW p \in Processes, Restart(p) PROVE DatesKept'
  <2>1. UNCHANGED <<hash, deleted>>
    BY <1>3 DEF Restart, redis_vars
  <2>2. \A q \in Runs : Untouched(q) => Untouched(q)'
    BY <1>3 DEF Restart, redis_vars, Untouched, Lost
  <2> QED
    BY <2>1, <2>2 DEF DatesKept, Dated
<1>4. CASE UNCHANGED worker_but_redis
  BY <1>4 DEF worker_but_redis, progress_vars, thread_vars, DatesKept, Dated, Untouched
<1> QED
  BY <1>1, <1>2, <1>3, <1>4 DEF ApiStep

\* GET /backtests answers as long as no record has been removed, whatever
\* commands fail and processes die: whoever writes to a run's key comes after the
\* handler that stored its time of creation (main.py:191-203, 255-267).
THEOREM ListingFindsDates ==
  /\ Spec => []ListingAnswers
  /\ StreamSpec => []ListingAnswers
<1>1. DatesKept => ListingAnswers
  BY DEF DatesKept, Dated, Untouched, ListingAnswers, ListRaises
<1>2. Init => DatesKept
  BY DEF Init, DatesKept, Untouched
<1>3. CoreOK /\ DatesKept /\ [Next]_vars => DatesKept'
  BY DatesStep, WorkerStepIsApi
<1>4. CoreOK /\ DatesKept /\ [StreamNext]_all_vars => DatesKept'
  BY DatesStep, StreamStepIsApi
<1>5. StreamInit => Init
  BY DEF StreamInit
<1> QED
  BY <1>1, <1>2, <1>3, <1>4, <1>5, WorkerInvHolds, StreamInvHolds, PTL DEF Spec, StreamSpec

-----------------------------------------------------------------------------
(* How a run ends while Redis works.                                        *)

\* Then only a run whose engine failed takes the failure path, with nothing
\* announced, and a stored result has its time to live before the run is
\* announced (worker.py:132-168).
Settles(r) ==
  /\ task[r] \in {"failing", "reporting"} => announced[r] = <<>> /\ fate[r] # "succeeds"
  /\ announced[r] # <<"complete", "error">>
  /\ Stored(r) /\ task[r] \in {"announcing", "closing", "ended"} => r \in expires

SettleInv == \A r \in Runs : Settles(r)

LEMMA TaskSettles ==
  ASSUME RedisMayFail = FALSE, LifeInv, CoreOK, NEW r \in Runs, Settles(r), TaskStep(r)
  PROVE  Settles(r)'
<1>0. /\ DOMAIN hash = Runs /\ task \in [Runs -> Places] /\ LifeType
      /\ announced \in [Runs -> Seq({"complete", "error"})]
      /\ RunInv(r) /\ "status" \notin {"complete", "error"}
      /\ \A status : "result" \notin DOMAIN [status |-> status]
  BY DEF LifeInv, LifeType
<1>1. CASE MarkRunning(r) \/ PublishStatus(r) \/ RecordStatus(r) \/ Submit(r) \/ StoreResult(r)
  <2>1. /\ announced' = announced
        /\ \E t \in {"marked", "started", "ready", "waiting", "expiring"} :
             task' = [task EXCEPT ![r] = t]
    BY <1>0, <1>1 DEF MarkRunning, PublishStatus, RecordStatus, Submit, StoreResult, Await,
                      HSet, Publish, redis_vars
  <2> QED
    BY <1>0, <2>1 DEF Settles
<1>2. CASE Collect(r)
  <2>1. /\ announced' = announced /\ fate' = fate /\ task[r] = "waiting"
        /\ task' = [task EXCEPT ![r] = IF fate[r] = "succeeds" THEN "storing" ELSE "failing"]
    BY <1>2 DEF Collect, redis_vars
  <2>2. announced[r] = <<>>
    BY <1>0, <2>1 DEF RunInv, ToldInOrder, AtWork
  <2> QED
    BY <1>0, <2>1, <2>2 DEF Settles
<1>3. CASE SetExpiry(r)
  <2>1. /\ announced' = announced /\ hash' = hash /\ fate' = fate
        /\ task' = [task EXCEPT ![r] = "announcing"]
        /\ expires' = IF hash[r] = NoKey THEN expires ELSE expires \cup {r}
    BY <1>3 DEF SetExpiry, Await, Expire
  <2>2. hash[r] = NoKey => ~Stored(r)
    BY DEF NoKey, Stored
  <2> QED
    BY <1>0, <2>1, <2>2 DEF Settles, Stored
<1>4. CASE Announce(r)
  <2>1. /\ Publish(r, "complete") /\ task[r] = "announcing"
        /\ task' = [task EXCEPT ![r] = "closing"] /\ expires' = expires
    BY <1>4 DEF Announce, Await, Publish
  <2>2. hash' = hash /\ announced'[r] = Append(announced[r], "complete")
    BY <1>0, <2>1, PublishTells
  <2>3. announced[r] = <<>>
    BY <1>0, <2>1 DEF RunInv, ToldInOrder
  <2>4. announced'[r] = <<"complete">>
    BY <2>2, <2>3, OneMore
  <2> QED
    BY <1>0, <2>1, <2>2, <2>4, EndsDiffer DEF Settles, Stored
<1>5. CASE CloseRecord(r)
  <2> DEFINE m == [status |-> "running"]
  <2>1. /\ HSet(r, m) /\ task[r] = "closing" /\ "result" \notin DOMAIN m
        /\ task' = [task EXCEPT ![r] = "ended"] /\ expires' = expires
    BY <1>5 DEF CloseRecord, Await, HSet
  <2> HIDE DEF m
  <2>2. announced' = announced /\ Stored(r)' = Stored(r)
    BY <1>0, <2>1, HSetStores
  <2> QED
    BY <1>0, <2>1, <2>2 DEF Settles
<1>6. CASE MarkFailed(r)
  <2> DEFINE m == [status |-> "failed"]
  <2>1. /\ HSet(r, m) /\ task[r] = "failing" /\ fate' = fate
        /\ task' = [task EXCEPT ![r] = "reporting"]
    BY <1>6 DEF MarkFailed, Await
  <2>2. announced' = announced
    BY <2>1 DEF HSet
  <2> QED
    BY <1>0, <2>1, <2>2 DEF Settles
<1>7. CASE Report(r)
  <2>1. /\ Publish(r, "error") /\ task[r] = "reporting"
        /\ task' = [task EXCEPT ![r] = "ended"]
    BY <1>7 DEF Report, Await
  <2>2. hash' = hash /\ announced'[r] = Append(announced[r], "error")
    BY <1>0, <2>1, PublishTells
  <2>3. announced[r] = <<>> /\ ~Stored(r)
    BY <1>0, <2>1 DEF Settles, RunInv, FailureSeen
  <2>4. announced'[r] = <<"error">>
    BY <2>2, <2>3, OneMore
  <2> QED
    BY <1>0, <2>1, <2>2, <2>3, <2>4, EndsDiffer DEF Settles, Stored
<1> QED
  BY <1>1, <1>2, <1>3, <1>4, <1>5, <1>6, <1>7 DEF TaskStep

\* The other steps of a run announce nothing, and make no task late.
LEMMA OthersSettle ==
  ASSUME RedisMayFail = FALSE, LifeInv, CoreOK, NEW r \in Runs, Settles(r),
         HandlerStep(r) \/ ProgressStep(r) \/ EngineStep(r)
  PROVE  Settles(r)'
<1>0. DOMAIN hash = Runs /\ task \in [Runs -> Places] /\ LifeType
  BY DEF LifeInv, LifeType
<1>1. CASE HandlerStep(r)
  <2>1. /\ announced' = announced
        /\ \E t \in {"created", "accepted"} : task' = [task EXCEPT ![r] = t]
    BY <1>1 DEF HandlerStep, CreateBacktest, Enqueue, Await, HSet, RPush
  <2> QED
    BY <1>0, <2>1 DEF Settles
<1>2. CASE ProgressStep(r) \/ EngineStep(r)
  <2>1. Rests
    BY <1>0, <1>2, ProgressRests, EngineRests
  <2>2. expires' = expires
    BY <1>2 DEF ProgressStep, PublishProgress, RecordProgress, EngineStep, StartEngine,
                Callback, Resume, ReturnEngine, Publish, HSet, redis_vars
  <2> QED
    BY <2>1, <2>2 DEF Rests, Settles
<1> QED
  BY <1>1, <1>2

\* A run's step tells nothing of another run, and takes no time to live away.
LEMMA OthersUntold ==
  ASSUME CoreOK, NEW r \in Runs, RunMoves(r)
  PROVE  /\ \A q \in Runs \ {r} : announced'[q] = announced[q]
         /\ expires \subseteq expires' /\ fate' = fate
<1>0. announced \in [Runs -> Seq({"complete", "error"})]
  BY DEF CoreOK, RedisOK
<1>1. /\ announced' = announced \/ \E x : announced' = [announced EXCEPT ![r] = x]
      /\ expires \subseteq expires' /\ fate' = fate
  <2>1. CASE HandlerStep(r)
    BY <2>1 DEF HandlerStep, CreateBacktest, Enqueue, Await, HSet, RPush, redis_vars
  <2>2. CASE TaskStep(r)
    BY <2>2 DEF TaskStep, MarkRunning, PublishStatus, RecordStatus, Submit, Collect,
                StoreResult, SetExpiry, Announce, CloseRecord, MarkFailed, Report, Await,
                HSet, Publish, Expire, redis_vars
  <2>3. CASE ProgressStep(r)
    BY <2>3 DEF ProgressStep, PublishProgress, RecordProgress, Publish, HSet, redis_vars
  <2>4. CASE EngineStep(r)
    BY <2>4 DEF EngineStep, StartEngine, Callback, Resume, ReturnEngine, redis_vars
  <2> QED
    BY <2>1, <2>2, <2>3, <2>4 DEF RunMoves
<1> QED
  BY <1>0, <1>1

LEMMA SettleStep ==
  ASSUME RedisMayFail = FALSE, LifeInv, CoreOK, SettleInv, ApiStep
  PROVE  SettleInv'
<1>1. ASSUME NEW r \in Runs, RunMoves(r), NEW q \in Runs PROVE Settles(q)'
  <2>1. Settles(q) /\ Settles(r)
    BY DEF SettleInv
  <2>2. CASE q = r
    BY <1>1, <2>1, <2>2, TaskSettles, OthersSettle DEF RunMoves
  <2>3. CASE q # r
    <3>1. task'[q] = task[q] /\ hash'[q] = hash[q]
      BY <1>1, <2>3, OneRunMoves DEF OthersSame
    <3> QED
      BY <1>1, <2>1, <2>3, <3>1, OthersUntold DEF Settles, Stored
  <2> QED
    BY <2>2, <2>3
<1>2. ASSUME NEW r \in Runs, Remove(r) PROVE SettleInv'
  <2>1. /\ hash' = [hash EXCEPT ![r] = NoKey] /\ expires' = expires \ {r}
        /\ UNCHANGED <<task, announced, fate>>
    BY <1>2 DEF Remove
  <2>2. ~Stored(r)' /\ \A q \in Runs \ {r} : Stored(q)' = Stored(q)
    BY <2>1 DEF CoreOK, RedisOK, Stored, NoKey
  <2> QED
    BY <2>1, <2>2 DEF SettleInv, Settles
<1>3. ASSUME NEW p \in Processes, Restart(p) PROVE SettleInv'
  <2>1. /\ task' = [r \in Runs |-> IF r \in Lost(p) THEN "dead" ELSE task[r]]
        /\ UNCHANGED <<hash, expires, announced, fate>>
    BY <1>3 DEF Restart, redis_vars
  <2> QED
    BY <2>1 DEF SettleInv, Settles, Stored
<1>4. CASE UNCHANGED worker_but_redis
  BY <1>4 DEF worker_but_redis, SettleInv, Settles, Stored
<1> QED
  BY <1>1, <1>2, <1>3, <1>4 DEF ApiStep, SettleInv

LEMMA LifeStep ==
  ASSUME LifeInv, ApiStep
  PROVE  LifeInv'
<1>0. LifeType
  BY DEF LifeInv
<1>1. ASSUME NEW r \in Runs, RunMoves(r) PROVE LifeInv'
  <2>1. CASE HandlerStep(r) \/ TaskStep(r)
    BY <2>1, HandlerKeeps, TaskKeeps, KeptIsEnough
  <2>2. CASE ProgressStep(r) \/ EngineStep(r)
    BY <1>0, <2>2, ProgressRests, EngineRests, RestsKeep
  <2> QED
    BY <1>1, <2>1, <2>2 DEF RunMoves
<1>2. CASE UNCHANGED worker_but_redis
  <2>1. UNCHANGED <<hash, task, announced, deleted, fate>>
    BY <1>2 DEF worker_but_redis
  <2> QED
    BY <1>0, <2>1, UntouchedRests, RestsKeep
<1> QED
  BY <1>1, <1>2, RemoveKeeps, RestartKeeps DEF ApiStep

\* SettleInv holds for ever in both specifications, while Redis works.
LEMMA SettleInvHolds ==
  ASSUME RedisMayFail = FALSE
  PROVE  /\ Spec => [](LifeInv /\ SettleInv)
         /\ StreamSpec => [](LifeInv /\ SettleInv)
<1>1. Init => LifeInv /\ SettleInv
  BY LifeBegins, EndsDiffer DEF Init, SettleInv, Settles, Stored, NoKey
<1>2. LifeInv /\ SettleInv /\ CoreOK /\ [Next]_vars => LifeInv' /\ SettleInv'
  BY WorkerStepIsApi, LifeStep, SettleStep
<1>3. LifeInv /\ SettleInv /\ CoreOK /\ [StreamNext]_all_vars => LifeInv' /\ SettleInv'
  BY StreamStepIsApi, LifeStep, SettleStep
<1>4. StreamInit => Init
  BY DEF StreamInit
<1> QED
  BY <1>1, <1>2, <1>3, <1>4, WorkerInvHolds, StreamInvHolds, PTL DEF Spec, StreamSpec

\* While Redis works, the end of a run is announced at most once: the failure
\* path is not taken after a success (worker.py:132-168).
THEOREM OneAnnouncement ==
  ASSUME RedisMayFail = FALSE
  PROVE  (Spec => []AnnouncedOnce) /\ (StreamSpec => []AnnouncedOnce)
<1>1. LifeInv /\ SettleInv => AnnouncedOnce
  <2> SUFFICES ASSUME LifeInv, SettleInv, NEW r \in Runs PROVE Len(announced[r]) <= 1
    BY DEF AnnouncedOnce
  <2>1. announced[r] \in {<<>>, <<"complete">>, <<"error">>}
    BY DEF LifeInv, RunInv, ToldInOrder, Announcements, SettleInv, Settles
  <2>2. Len(<<>>) = 0 /\ Len(<<"complete">>) = 1 /\ Len(<<"error">>) = 1
    OBVIOUS
  <2>3. CASE announced[r] = <<>>
    BY <2>2, <2>3
  <2>4. CASE announced[r] = <<"complete">>
    BY <2>2, <2>4
  <2>5. CASE announced[r] = <<"error">>
    BY <2>2, <2>5
  <2> QED
    BY <2>1, <2>3, <2>4, <2>5
<1> QED
  BY <1>1, SettleInvHolds, PTL

\* While Redis works, a result that is stored when its run is announced has its
\* time to live, although the key may have been removed and written again in
\* between (worker.py:132-145).
THEOREM StoredResultsExpire ==
  ASSUME RedisMayFail = FALSE
  PROVE  (Spec => []ResultExpires) /\ (StreamSpec => []ResultExpires)
<1>1. SettleInv => ResultExpires
  BY DEF SettleInv, Settles, Stored, ResultExpires
<1> QED
  BY <1>1, SettleInvHolds, PTL
=============================================================================

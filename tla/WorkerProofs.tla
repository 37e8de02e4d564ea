----------------------------- MODULE WorkerProofs -----------------------------
(***************************************************************************)
(* Proofs about the life of runs, for any number of runs, processes and     *)
(* clients, with any Redis command failing and any process dying.           *)
(*                                                                         *)
(* The invariant LifeInv ties the place at which a run's task stands to     *)
(* what is stored and announced for it.  A step is looked at through the    *)
(* one run it moves: Moves(r) says what it leaves alone.                    *)
(***************************************************************************)
EXTENDS Stream, SequenceTheorems, TLAPS

Announcements == {<<>>, <<"complete">>, <<"error">>, <<"complete", "error">>}

\* What is announced of a run depends on where its task stands.
ToldInOrder(r) ==
  /\ announced[r] \in Announcements
  /\ task[r] \in Fresh \cup AtWork \cup {"expiring", "announcing"} => announced[r] = <<>>
  /\ task[r] \in {"closing", "failing", "reporting"} =>
       announced[r] \in {<<>>, <<"complete">>}

\* A run past its storing, and one announced complete, has its result, unless
\* its record has been removed.
ResultKept(r) ==
  \/ task[r] \in {"expiring", "announcing"}
  \/ announced[r] \in {<<"complete">>, <<"complete", "error">>}
  => Stored(r) \/ r \in deleted

\* A run whose engine fails never reaches its storing.
FailureSeen(r) ==
  fate[r] # "succeeds" =>
    /\ task[r] \notin {"storing", "expiring", "announcing"}
    /\ ~Stored(r)
    /\ announced[r] \in {<<>>, <<"error">>}

RunInv(r) == ToldInOrder(r) /\ ResultKept(r) /\ FailureSeen(r)

LifeType ==
  /\ DOMAIN hash = Runs
  /\ announced \in [Runs -> Seq({"complete", "error"})]
  /\ task \in [Runs -> Places]

LifeInv == LifeType /\ \A r \in Runs : RunInv(r)

\* A step that may move the task of r, its result and its announcements.
Moves(r) ==
  /\ LifeType'
  /\ deleted' = deleted /\ fate' = fate
  /\ \A q \in Runs \ {r} : /\ task'[q] = task[q] /\ Stored(q)' = Stored(q)
                           /\ announced'[q] = announced[q]

SameResult(r) == Stored(r)' = Stored(r)
SameTold(r) == announced'[r] = announced[r]

\* What such a step may be to those who use the API: nothing, or one of the
\* actions of RunLife.
Advances(r) ==
  \/ StageOf(r)' = StageOf(r) /\ SameResult(r) /\ SameTold(r)
  \/ StageOf(r) = "new" /\ StageOf(r)' = "working" /\ SameResult(r) /\ SameTold(r)
  \/ StageOf(r) = "working" /\ StageOf(r)' = "settled" /\ Stored(r)' /\ SameTold(r)
  \/ StageOf(r)' = "settled" /\ SameResult(r) /\ SameTold(r)
  \/ /\ StageOf(r) = "settled" /\ StageOf(r)' = "settled" /\ SameResult(r)
     /\ \/ /\ announced[r] = <<>> /\ announced'[r] = <<"complete">>
           /\ Stored(r) \/ r \in deleted
        \/ /\ announced[r] \in {<<>>, <<"complete">>}
           /\ announced'[r] = Append(announced[r], "error")

\* A step that does not concern the life of runs.
Rests ==
  /\ task' = task /\ announced' = announced
  /\ deleted' = deleted /\ fate' = fate
  /\ DOMAIN hash' = Runs /\ \A q \in Runs : Stored(q)' = Stored(q)

\* A pair, built by Append.
LEMMA AppendPair ==
  ASSUME NEW S, NEW x \in S, NEW y \in S
  PROVE  Append(<<x>>, y) = <<x, y>>
<1> DEFINE s == Append(<<x>>, y)
           t == <<x, y>>
<1>1. s \in Seq(S) /\ Len(s) = 2 /\ s[1] = x /\ s[2] = y
  <2>1. <<x>> \in Seq(S) /\ Len(<<x>>) = 1
    OBVIOUS
  <2> QED
    BY <2>1, AppendProperties
<1>2. t \in Seq(S) /\ Len(t) = 2 /\ t[1] = x /\ t[2] = y
  OBVIOUS
<1> HIDE DEF s, t
<1>3. \A i \in 1..Len(s) : s[i] = t[i]
  BY <1>1, <1>2
<1>4. s = t
  BY <1>1, <1>2, <1>3, SeqEqual
<1> QED
  BY <1>4 DEF s, t

\* The sequences of ends differ, and those that may follow one another.
LEMMA EndsDiffer ==
  /\ <<>> # <<"complete">> /\ <<>> # <<"error">> /\ <<>> # <<"complete", "error">>
  /\ <<"complete">> # <<"error">> /\ <<"complete">> # <<"complete", "error">>
  /\ <<"error">> # <<"complete", "error">>
OBVIOUS

\* An end announced after what was announced before.
LEMMA OneMore ==
  /\ Append(<<>>, "complete") = <<"complete">>
  /\ Append(<<>>, "error") = <<"error">>
  /\ Append(<<"complete">>, "error") = <<"complete", "error">>
<1>1. "complete" \in {"complete", "error"} /\ "error" \in {"complete", "error"}
  OBVIOUS
<1>2. Append(<<"complete">>, "error") = <<"complete", "error">>
  BY <1>1, AppendPair
<1> QED
  BY <1>2

-----------------------------------------------------------------------------
(* The commands.                                                            *)

\* HSET adds the fields it names (worker.py:48).
LEMMA HSetStores ==
  ASSUME LifeType, NEW r \in Runs, NEW mapping, HSet(r, mapping)
  PROVE  /\ DOMAIN hash' = Runs /\ announced' = announced
         /\ IF "result" \in DOMAIN mapping THEN Stored(r)' ELSE Stored(r)' = Stored(r)
         /\ \A q \in Runs \ {r} : Stored(q)' = Stored(q)
<1>1. /\ hash' = [hash EXCEPT ![r] = Merge(@, mapping)]
      /\ announced' = announced
  BY DEF HSet
<1>2. /\ DOMAIN hash' = Runs /\ hash'[r] = Merge(hash[r], mapping)
      /\ \A q \in Runs \ {r} : hash'[q] = hash[q]
  BY <1>1 DEF LifeType
<1>3. DOMAIN hash'[r] = DOMAIN hash[r] \cup DOMAIN mapping
  BY <1>2 DEF Merge
<1> QED
  BY <1>1, <1>2, <1>3 DEF Stored

\* A status, a progress message: nothing that counts as an end.
LEMMA PublishTells ==
  ASSUME LifeType, NEW r \in Runs, NEW type, Publish(r, type)
  PROVE  /\ hash' = hash /\ announced' \in [Runs -> Seq({"complete", "error"})]
         /\ announced'[r] = IF type \in {"complete", "error"}
                            THEN Append(announced[r], type) ELSE announced[r]
         /\ \A q \in Runs \ {r} : announced'[q] = announced[q]
BY DEF Publish, LifeType

\* A coroutine that awaits an HSET stores the fields or not, and goes on or is
\* thrown to its handler.
LEMMA AwaitHSet ==
  ASSUME LifeType, NEW r \in Runs, NEW here, NEW next \in Places, NEW handler \in Places,
         NEW mapping, Await(r, here, next, handler, HSet(r, mapping))
  PROVE  /\ Moves(r) /\ task[r] = here /\ SameTold(r)
         /\ \/ /\ task'[r] \in {next, handler}
               /\ IF "result" \in DOMAIN mapping THEN Stored(r)' ELSE Stored(r)' = Stored(r)
            \/ task'[r] = handler /\ SameResult(r)
<1>1. /\ task[r] = here /\ deleted' = deleted /\ fate' = fate
      /\ \E t \in {next, handler} : task' = [task EXCEPT ![r] = t]
      /\ \/ HSet(r, mapping)
         \/ UNCHANGED redis_vars /\ task' = [task EXCEPT ![r] = handler]
  BY DEF Await
<1>2. /\ task' \in [Runs -> Places] /\ task'[r] \in {next, handler}
      /\ \A q \in Runs \ {r} : task'[q] = task[q]
  BY <1>1 DEF LifeType
<1>3. CASE HSet(r, mapping)
  BY <1>1, <1>2, <1>3, HSetStores DEF Moves, LifeType, SameTold, SameResult
<1>4. CASE UNCHANGED redis_vars /\ task' = [task EXCEPT ![r] = handler]
  BY <1>1, <1>2, <1>4 DEF redis_vars, Moves, LifeType, SameTold, SameResult, Stored
<1> QED
  BY <1>1, <1>3, <1>4

\* The same of a PUBLISH.
LEMMA AwaitPublish ==
  ASSUME LifeType, NEW r \in Runs, NEW here, NEW next \in Places, NEW handler \in Places,
         NEW type, Await(r, here, next, handler, Publish(r, type))
  PROVE  /\ Moves(r) /\ task[r] = here /\ SameResult(r)
         /\ \/ /\ task'[r] \in {next, handler}
               /\ announced'[r] = IF type \in {"complete", "error"}
                                  THEN Append(announced[r], type) ELSE announced[r]
            \/ task'[r] = handler /\ SameTold(r)
<1>1. /\ task[r] = here /\ deleted' = deleted /\ fate' = fate
      /\ \E t \in {next, handler} : task' = [task EXCEPT ![r] = t]
      /\ \/ Publish(r, type)
         \/ UNCHANGED redis_vars /\ task' = [task EXCEPT ![r] = handler]
  BY DEF Await
<1>2. /\ task' \in [Runs -> Places] /\ task'[r] \in {next, handler}
      /\ \A q \in Runs \ {r} : task'[q] = task[q]
  BY <1>1 DEF LifeType
<1>3. CASE Publish(r, type)
  BY <1>1, <1>2, <1>3, PublishTells DEF Moves, LifeType, SameResult, Stored
<1>4. CASE UNCHANGED redis_vars /\ task' = [task EXCEPT ![r] = handler]
  BY <1>1, <1>2, <1>4 DEF redis_vars, Moves, LifeType, SameTold, SameResult, Stored
<1> QED
  BY <1>1, <1>3, <1>4

\* An HSET of the status alone changes neither result nor announcements.
LEMMA AwaitStatus ==
  ASSUME LifeType, NEW r \in Runs, NEW here, NEW next \in Places, NEW handler \in Places,
         NEW status, Await(r, here, next, handler, HSet(r, [status |-> status]))
  PROVE  /\ Moves(r) /\ task[r] = here /\ task'[r] \in {next, handler}
         /\ SameResult(r) /\ SameTold(r)
<1> DEFINE m == [status |-> status]
<1>1. Await(r, here, next, handler, HSet(r, m)) /\ "result" \notin DOMAIN m
  OBVIOUS
<1> HIDE DEF m
<1> QED
  BY <1>1, AwaitHSet DEF SameResult

\* Only the place of r's task changes.
LEMMA OnlyTaskMoves ==
  ASSUME LifeType, NEW r \in Runs, NEW t \in Places, task' = [task EXCEPT ![r] = t],
         UNCHANGED <<hash, announced, deleted, fate>>
  PROVE  Moves(r) /\ task'[r] = t /\ SameResult(r) /\ SameTold(r)
BY DEF LifeType, Moves, SameResult, SameTold, Stored

-----------------------------------------------------------------------------
(* What such steps keep, and what they are to RunLife.                      *)

\* The invariant of a run is about that run alone.
LEMMA MovesKeep ==
  ASSUME LifeInv, NEW r \in Runs, Moves(r), RunInv(r)'
  PROVE  LifeInv'
<1>1. ASSUME NEW q \in Runs \ {r} PROVE RunInv(q)'
  <2>1. RunInv(q)
    BY DEF LifeInv
  <2>2. /\ task'[q] = task[q] /\ Stored(q)' = Stored(q) /\ announced'[q] = announced[q]
        /\ deleted' = deleted /\ fate' = fate
    BY DEF Moves
  <2> QED
    BY <2>1, <2>2 DEF RunInv, ToldInOrder, ResultKept, FailureSeen
<1> QED
  BY <1>1 DEF LifeInv, Moves

\* A step that does not concern the life of runs changes nothing for RunLife.
LEMMA RestsKeep ==
  ASSUME LifeInv, Rests
  PROVE  LifeInv' /\ UNCHANGED Life!vars
<1>1. ASSUME NEW q \in Runs PROVE RunInv(q)'
  <2>1. RunInv(q)
    BY DEF LifeInv
  <2>2. /\ task'[q] = task[q] /\ Stored(q)' = Stored(q) /\ announced'[q] = announced[q]
        /\ deleted' = deleted /\ fate' = fate
    BY DEF Rests
  <2> QED
    BY <2>1, <2>2 DEF RunInv, ToldInOrder, ResultKept, FailureSeen
<1>2. UNCHANGED Life!vars
  BY DEF Rests, Life!vars, Erased, StageOf
<1> QED
  BY <1>1, <1>2 DEF LifeInv, Rests, LifeType

\* A run that advances takes a step of RunLife.
LEMMA AdvanceIsLife ==
  ASSUME LifeType, NEW r \in Runs, Moves(r), Advances(r)
  PROVE  [Life!Next]_(Life!vars)
<1>1. ASSUME NEW q \in Runs \ {r}
      PROVE  /\ StageOf(q)' = StageOf(q) /\ Stored(q)' = Stored(q)
             /\ announced'[q] = announced[q]
  BY DEF Moves, StageOf
<1>2. /\ {announced, announced'} \subseteq [Runs -> Seq({"complete", "error"})]
      /\ deleted' = deleted
  BY DEF Moves, LifeType
<1>3. CASE StageOf(r)' = StageOf(r) /\ SameResult(r) /\ SameTold(r)
  <2>1. \A q \in Runs : StageOf(q)' = StageOf(q) /\ Stored(q)' = Stored(q)
    BY <1>1, <1>3 DEF SameResult
  <2>2. [q \in Runs |-> StageOf(q)]' = [q \in Runs |-> StageOf(q)]
    BY <2>1
  <2>3. [q \in Runs |-> Stored(q)]' = [q \in Runs |-> Stored(q)]
    BY <2>1
  <2>4. announced' = announced
    BY <1>1, <1>2, <1>3 DEF SameTold
  <2> QED
    BY <1>2, <2>2, <2>3, <2>4 DEF Life!vars, Erased
<1>4. CASE /\ StageOf(r) = "new" /\ StageOf(r)' = "working"
           /\ SameResult(r) /\ SameTold(r)
  <2>1. /\ [q \in Runs |-> StageOf(q)]' = [[q \in Runs |-> StageOf(q)] EXCEPT ![r] = "working"]
        /\ [q \in Runs |-> StageOf(q)][r] = "new"
    BY <1>1, <1>4
  <2>2. [q \in Runs |-> Stored(q)]' = [q \in Runs |-> Stored(q)]
    BY <1>1, <1>4 DEF SameResult
  <2>3. announced' = announced
    BY <1>1, <1>2, <1>4 DEF SameTold
  <2>4. Life!Start(r)
    BY <1>2, <2>1, <2>2, <2>3 DEF Life!Start, Erased
  <2> QED
    BY <2>4 DEF Life!Next
<1>5. CASE /\ StageOf(r) = "working" /\ StageOf(r)' = "settled"
           /\ Stored(r)' /\ SameTold(r)
  <2>1. /\ [q \in Runs |-> StageOf(q)]' = [[q \in Runs |-> StageOf(q)] EXCEPT ![r] = "settled"]
        /\ [q \in Runs |-> StageOf(q)][r] = "working"
    BY <1>1, <1>5
  <2>2. [q \in Runs |-> Stored(q)]' = [[q \in Runs |-> Stored(q)] EXCEPT ![r] = TRUE]
    BY <1>1, <1>5
  <2>3. announced' = announced
    BY <1>1, <1>2, <1>5 DEF SameTold
  <2>4. Life!Store(r)
    BY <1>2, <2>1, <2>2, <2>3 DEF Life!Store, Erased
  <2> QED
    BY <2>4 DEF Life!Next
<1>6. CASE StageOf(r)' = "settled" /\ SameResult(r) /\ SameTold(r)
  <2>1. Life!GiveUp({r})
    BY <1>1, <1>2, <1>6 DEF SameResult, SameTold, Life!GiveUp, Erased
  <2> QED
    BY <2>1 DEF Life!Next
<1>7. CASE /\ StageOf(r) = "settled" /\ StageOf(r)' = "settled" /\ SameResult(r)
           /\ announced[r] = <<>> /\ announced'[r] = <<"complete">>
           /\ Stored(r) \/ r \in deleted
  <2>1. Life!Succeed(r)
    BY <1>1, <1>2, <1>7 DEF SameResult, Life!Succeed, Erased
  <2> QED
    BY <2>1 DEF Life!Next
<1>8. CASE /\ StageOf(r) = "settled" /\ StageOf(r)' = "settled" /\ SameResult(r)
           /\ announced[r] \in {<<>>, <<"complete">>}
           /\ announced'[r] = Append(announced[r], "error")
  <2>1. Life!Fail(r)
    BY <1>1, <1>2, <1>8 DEF SameResult, Life!Fail, Erased
  <2> QED
    BY <2>1 DEF Life!Next
<1> QED
  BY <1>3, <1>4, <1>5, <1>6, <1>7, <1>8 DEF Advances

-----------------------------------------------------------------------------
(* The steps of a run's handler and task.                                   *)

\* What each of them has to show: the run keeps its invariant and advances.
Kept(r) == Moves(r) /\ RunInv(r)' /\ Advances(r)

\* What is shown of the moved run is enough for all of them.
LEMMA KeptIsEnough ==
  ASSUME LifeInv, NEW r \in Runs, Kept(r)
  PROVE  LifeInv' /\ [Life!Next]_(Life!vars)
BY MovesKeep, AdvanceIsLife DEF Kept, LifeInv

\* main.py:182-224
LEMMA HandlerKeeps ==
  ASSUME LifeInv, NEW r \in Runs, HandlerStep(r)
  PROVE  Kept(r)
<1> USE DEF SameResult, SameTold
<1>0. LifeType /\ RunInv(r)
  BY DEF LifeInv
<1>1. CASE CreateBacktest(r)
  <2> DEFINE m == [status |-> "pending", created_at |-> "now"]
  <2>1. Await(r, "none", "created", "refused", HSet(r, m)) /\ "result" \notin DOMAIN m
    BY <1>1 DEF CreateBacktest
  <2>2. {"created", "refused"} \subseteq Places
    BY DEF Places
  <2> HIDE DEF m
  <2>3. /\ Moves(r) /\ task[r] = "none" /\ task'[r] \in {"created", "refused"}
        /\ SameResult(r) /\ SameTold(r)
    BY <1>0, <2>1, <2>2, AwaitHSet
  <2> QED
    BY <1>0, <2>3 DEF Kept, RunInv, ToldInOrder, ResultKept, FailureSeen, Moves, Advances,
                      StageOf, Fresh, AtWork
<1>2. CASE Enqueue(r)
  <2>1. /\ task[r] = "created" /\ UNCHANGED <<hash, announced, deleted, fate>>
        /\ \E t \in {"accepted", "refused"} : task' = [task EXCEPT ![r] = t]
    BY <1>2 DEF Enqueue, Await, RPush, redis_vars
  <2>2. /\ Moves(r) /\ task'[r] \in {"accepted", "refused"}
        /\ SameResult(r) /\ SameTold(r)
    BY <1>0, <2>1, OnlyTaskMoves DEF Places
  <2> QED
    BY <1>0, <2>1, <2>2 DEF Kept, RunInv, ToldInOrder, ResultKept, FailureSeen, Moves, Advances,
                            StageOf, Fresh, AtWork
<1> QED
  BY <1>1, <1>2 DEF HandlerStep

\* worker.py:35-156
LEMMA TaskKeeps ==
  ASSUME LifeInv, NEW r \in Runs, TaskStep(r)
  PROVE  Kept(r)
<1> USE DEF SameResult, SameTold
<1>0. LifeType /\ RunInv(r)
  BY DEF LifeInv
<1>1. CASE MarkRunning(r)
  <2>1. Await(r, "accepted", "marked", "dead", HSet(r, [status |-> "running"]))
    BY <1>1 DEF MarkRunning
  <2>2. {"marked", "dead"} \subseteq Places
    BY DEF Places
  <2>3. /\ Moves(r) /\ task[r] = "accepted" /\ task'[r] \in {"marked", "dead"}
        /\ SameResult(r) /\ SameTold(r)
    BY <1>0, <2>1, <2>2, AwaitStatus
  <2> QED
    BY <1>0, <2>3 DEF Kept, RunInv, ToldInOrder, ResultKept, FailureSeen, Moves, Advances,
                      StageOf, Fresh, AtWork
<1>2. CASE PublishStatus(r)
  <2>1. Await(r, "marked", "started", "dead", Publish(r, "status"))
    BY <1>2 DEF PublishStatus
  <2>2. {"started", "dead"} \subseteq Places
    BY DEF Places
  <2>3. /\ Moves(r) /\ task[r] = "marked" /\ task'[r] \in {"started", "dead"} /\ SameResult(r)
        /\ \/ announced'[r] = announced[r]
           \/ task'[r] = "dead" /\ SameTold(r)
    BY <1>0, <2>1, <2>2, AwaitPublish
  <2> QED
    BY <1>0, <2>3 DEF Kept, RunInv, ToldInOrder, ResultKept, FailureSeen, Moves, Advances,
                      StageOf, Fresh, AtWork
<1>3. CASE RecordStatus(r)
  <2>1. Await(r, "started", "ready", "dead", HSet(r, [status |-> "running"]))
    BY <1>3 DEF RecordStatus
  <2>2. {"ready", "dead"} \subseteq Places
    BY DEF Places
  <2>3. /\ Moves(r) /\ task[r] = "started" /\ task'[r] \in {"ready", "dead"}
        /\ SameResult(r) /\ SameTold(r)
    BY <1>0, <2>1, <2>2, AwaitStatus
  <2> QED
    BY <1>0, <2>3 DEF Kept, RunInv, ToldInOrder, ResultKept, FailureSeen, Moves, Advances,
                      StageOf, Fresh, AtWork
<1>4. CASE Submit(r)
  <2>1. /\ task[r] = "ready" /\ UNCHANGED <<hash, announced, deleted, fate>>
        /\ \E t \in {"waiting"} : task' = [task EXCEPT ![r] = t]
    BY <1>4 DEF Submit, redis_vars
  <2>2. /\ Moves(r) /\ task'[r] \in {"waiting"}
        /\ SameResult(r) /\ SameTold(r)
    BY <1>0, <2>1, OnlyTaskMoves DEF Places
  <2> QED
    BY <1>0, <2>1, <2>2 DEF Kept, RunInv, ToldInOrder, ResultKept, FailureSeen, Moves, Advances,
                      StageOf, Fresh, AtWork
<1>5. CASE Collect(r)
  <2>1. /\ task[r] = "waiting" /\ UNCHANGED <<hash, announced, deleted, fate>>
        /\ \E t \in {"storing", "failing"} : task' = [task EXCEPT ![r] = t]
        /\ fate[r] # "succeeds" => task' = [task EXCEPT ![r] = "failing"]
    BY <1>5 DEF Collect, redis_vars
  <2>2. /\ Moves(r) /\ task'[r] \in {"storing", "failing"}
        /\ fate[r] # "succeeds" => task'[r] = "failing"
        /\ SameResult(r) /\ SameTold(r)
    BY <1>0, <2>1, OnlyTaskMoves DEF Places
  <2> QED
    BY <1>0, <2>1, <2>2 DEF Kept, RunInv, ToldInOrder, ResultKept, FailureSeen, Moves, Advances,
                      StageOf, Fresh, AtWork
<1>6. CASE StoreResult(r)
  <2> DEFINE m == [status |-> "complete", result |-> "json"]
  <2>1. Await(r, "storing", "expiring", "failing", HSet(r, m)) /\ "result" \in DOMAIN m
    BY <1>6 DEF StoreResult
  <2>2. {"expiring", "failing"} \subseteq Places
    BY DEF Places
  <2> HIDE DEF m
  <2>3. /\ Moves(r) /\ task[r] = "storing" /\ SameTold(r)
        /\ \/ task'[r] \in {"expiring", "failing"} /\ Stored(r)'
           \/ task'[r] = "failing" /\ SameResult(r)
    BY <1>0, <2>1, <2>2, AwaitHSet
  <2> QED
    BY <1>0, <2>3 DEF Kept, RunInv, ToldInOrder, ResultKept, FailureSeen, Moves, Advances,
                      StageOf, Fresh, AtWork
<1>7. CASE SetExpiry(r)
  <2>1. /\ task[r] = "expiring" /\ UNCHANGED <<hash, announced, deleted, fate>>
        /\ \E t \in {"announcing", "failing"} : task' = [task EXCEPT ![r] = t]
    BY <1>7 DEF SetExpiry, Await, Expire, redis_vars
  <2>2. /\ Moves(r) /\ task'[r] \in {"announcing", "failing"}
        /\ SameResult(r) /\ SameTold(r)
    BY <1>0, <2>1, OnlyTaskMoves DEF Places
  <2> QED
    BY <1>0, <2>1, <2>2 DEF Kept, RunInv, ToldInOrder, ResultKept, FailureSeen, Moves, Advances,
                      StageOf, Fresh, AtWork
<1>8. CASE Announce(r)
  <2>1. Await(r, "announcing", "closing", "failing", Publish(r, "complete"))
    BY <1>8 DEF Announce
  <2>2. {"closing", "failing"} \subseteq Places
    BY DEF Places
  <2>3. /\ Moves(r) /\ task[r] = "announcing" /\ task'[r] \in {"closing", "failing"} /\ SameResult(r)
        /\ \/ announced'[r] = Append(announced[r], "complete")
           \/ task'[r] = "failing" /\ SameTold(r)
    BY <1>0, <2>1, <2>2, AwaitPublish
  <2>4. /\ announced[r] = <<>> /\ fate[r] = "succeeds"
        /\ Stored(r) \/ r \in deleted
    BY <1>0, <2>3 DEF RunInv, ToldInOrder, ResultKept, FailureSeen
  <2>5. \/ announced'[r] = <<"complete">>
        \/ task'[r] = "failing" /\ announced'[r] = <<>>
    BY <2>3, <2>4, OneMore
  <2> QED
    BY <1>0, <2>3, <2>4, <2>5
       DEF Kept, RunInv, ToldInOrder, ResultKept, FailureSeen, Announcements, Moves,
           Advances, StageOf, Fresh, AtWork
<1>9. CASE CloseRecord(r)
  <2>1. Await(r, "closing", "ended", "failing", HSet(r, [status |-> "running"]))
    BY <1>9 DEF CloseRecord
  <2>2. {"ended", "failing"} \subseteq Places
    BY DEF Places
  <2>3. /\ Moves(r) /\ task[r] = "closing" /\ task'[r] \in {"ended", "failing"}
        /\ SameResult(r) /\ SameTold(r)
    BY <1>0, <2>1, <2>2, AwaitStatus
  <2> QED
    BY <1>0, <2>3 DEF Kept, RunInv, ToldInOrder, ResultKept, FailureSeen, Moves, Advances,
                      StageOf, Fresh, AtWork
<1>10. CASE MarkFailed(r)
  <2>1. Await(r, "failing", "reporting", "dead", HSet(r, [status |-> "failed"]))
    BY <1>10 DEF MarkFailed
  <2>2. {"reporting", "dead"} \subseteq Places
    BY DEF Places
  <2>3. /\ Moves(r) /\ task[r] = "failing" /\ task'[r] \in {"reporting", "dead"}
        /\ SameResult(r) /\ SameTold(r)
    BY <1>0, <2>1, <2>2, AwaitStatus
  <2> QED
    BY <1>0, <2>3 DEF Kept, RunInv, ToldInOrder, ResultKept, FailureSeen, Moves, Advances,
                      StageOf, Fresh, AtWork
<1>11. CASE Report(r)
  <2>1. Await(r, "reporting", "ended", "dead", Publish(r, "error"))
    BY <1>11 DEF Report
  <2>2. {"ended", "dead"} \subseteq Places
    BY DEF Places
  <2>3. /\ Moves(r) /\ task[r] = "reporting" /\ task'[r] \in {"ended", "dead"} /\ SameResult(r)
        /\ \/ announced'[r] = Append(announced[r], "error")
           \/ task'[r] = "dead" /\ SameTold(r)
    BY <1>0, <2>1, <2>2, AwaitPublish
  <2>4. CASE SameTold(r)
    BY <1>0, <2>3, <2>4 DEF Kept, RunInv, ToldInOrder, ResultKept, FailureSeen, Moves,
                            Advances, StageOf, Fresh, AtWork
  <2>5. CASE announced'[r] = Append(announced[r], "error")
    <3>1. \/ announced[r] = <<>> /\ announced'[r] = <<"error">>
          \/ announced[r] = <<"complete">> /\ announced'[r] = <<"complete", "error">>
      BY <1>0, <2>3, <2>5, OneMore DEF RunInv, ToldInOrder
    <3>2. ToldInOrder(r)'
      BY <2>3, <3>1 DEF ToldInOrder, Announcements, Fresh, AtWork
    <3>3. ResultKept(r)'
      BY <1>0, <2>3, <3>1, EndsDiffer DEF RunInv, ResultKept, Moves
    <3>4. FailureSeen(r)'
      BY <1>0, <2>3, <3>1, EndsDiffer DEF RunInv, FailureSeen, Moves
    <3>5. Advances(r)
      BY <2>3, <2>5, <3>1 DEF Advances, StageOf, Fresh, AtWork
    <3> QED
      BY <2>3, <3>2, <3>3, <3>4, <3>5 DEF Kept, RunInv
  <2> QED
    BY <2>3, <2>4, <2>5
<1> QED
  BY <1>1, <1>2, <1>3, <1>4, <1>5, <1>6, <1>7, <1>8, <1>9, <1>10, <1>11 DEF TaskStep

-----------------------------------------------------------------------------
(* All other steps.                                                         *)

\* Nothing but places, results and ends of runs matters here.
LEMMA UntouchedRests ==
  ASSUME LifeType, UNCHANGED <<hash, task, announced, deleted, fate>>
  PROVE  Rests
BY DEF Rests, LifeType, Stored

\* Progress coroutines publish no end and store no result (worker.py:45-53).
LEMMA ProgressRests ==
  ASSUME LifeType, NEW r \in Runs, ProgressStep(r)
  PROVE  Rests
<1>1. CASE PublishProgress(r)
  <2>1. "progress" \notin {"complete", "error"}
    OBVIOUS
  <2>2. UNCHANGED <<hash, task, announced, deleted, fate>>
    BY <1>1, <2>1 DEF PublishProgress, Publish, redis_vars
  <2> QED
    BY <2>2, UntouchedRests
<1>2. CASE RecordProgress(r)
  <2> DEFINE m == [status |-> "running"]
  <2>1. /\ UNCHANGED <<task, deleted, fate>>
        /\ HSet(r, m) \/ UNCHANGED redis_vars
    BY <1>2 DEF RecordProgress
  <2>2. "result" \notin DOMAIN m
    OBVIOUS
  <2> HIDE DEF m
  <2>3. CASE HSet(r, m)
    <3>1. /\ DOMAIN hash' = Runs /\ announced' = announced /\ SameResult(r)
          /\ \A q \in Runs \ {r} : Stored(q)' = Stored(q)
      BY <2>2, <2>3, HSetStores DEF SameResult, Stored
    <3> QED
      BY <2>1, <3>1 DEF Rests, SameResult
  <2>4. CASE UNCHANGED redis_vars
    BY <2>1, <2>4, UntouchedRests DEF redis_vars
  <2> QED
    BY <2>1, <2>3, <2>4
<1> QED
  BY <1>1, <1>2 DEF ProgressStep

\* Engine threads touch neither the records nor the tasks (bindings.cpp:62-104).
LEMMA EngineRests ==
  ASSUME LifeType, NEW r \in Runs, EngineStep(r)
  PROVE  Rests
<1>1. UNCHANGED <<hash, task, announced, deleted, fate>>
  BY DEF EngineStep, StartEngine, Callback, Resume, ReturnEngine, redis_vars
<1> QED
  BY <1>1, UntouchedRests

\* The audience only listens (main.py:285-334).
LEMMA AudienceRests ==
  ASSUME LifeType, NEW c \in Clients,
         Connect(c) \/ ClientStep(c) \/ HandlerFails(c) \/ Leave(c)
  PROVE  Rests
<1>1. UNCHANGED <<hash, task, announced, deleted, fate>>
  BY DEF Connect, ClientStep, ReadStatus, SendStatus, Forward, HandlerFails, Leave,
         worker_but_redis, vars, redis_vars
<1> QED
  BY <1>1, UntouchedRests

\* A record that goes, by a request or at the end of its time to live, is
\* remembered as erased (main.py:270-278).
LEMMA RemoveKeeps ==
  ASSUME LifeInv, NEW r \in Runs, Remove(r)
  PROVE  LifeInv' /\ [Life!Next]_(Life!vars)
<1>0. LifeType
  BY DEF LifeInv
<1>1. /\ hash' = [hash EXCEPT ![r] = NoKey] /\ deleted' = deleted \cup {r}
      /\ UNCHANGED <<task, announced, fate>>
  BY DEF Remove
<1>2. /\ DOMAIN hash' = Runs /\ hash'[r] = NoKey
      /\ \A q \in Runs \ {r} : hash'[q] = hash[q]
  BY <1>0, <1>1 DEF LifeType
<1>3. ~Stored(r)' /\ \A q \in Runs \ {r} : Stored(q)' = Stored(q)
  BY <1>2 DEF Stored, NoKey
<1>4. ASSUME NEW q \in Runs PROVE RunInv(q)'
  <2>1. RunInv(q) /\ q \in Runs
    BY DEF LifeInv
  <2>2. (Stored(q) \/ q \in deleted) => (Stored(q)' \/ q \in deleted')
    BY <1>1, <1>3
  <2>3. ~Stored(q) => ~Stored(q)'
    BY <1>3
  <2> QED
    BY <1>1, <2>1, <2>2, <2>3 DEF RunInv, ToldInOrder, ResultKept, FailureSeen
<1>5. Life!Erase(r)
  <2>1. [q \in Runs |-> Stored(q)]' = [[q \in Runs |-> Stored(q)] EXCEPT ![r] = FALSE]
    <3>1. Stored(r)' = FALSE
      BY <1>3 DEF Stored
    <3> QED
      BY <1>3, <3>1
  <2>2. [q \in Runs |-> Erased(q)]' = [[q \in Runs |-> Erased(q)] EXCEPT ![r] = TRUE]
    <3>1. Erased(r)' = TRUE /\ \A q \in Runs \ {r} : Erased(q)' = Erased(q)
      BY <1>1 DEF Erased
    <3> QED
      BY <3>1
  <2>3. [q \in Runs |-> StageOf(q)]' = [q \in Runs |-> StageOf(q)]
    BY <1>1 DEF StageOf
  <2> QED
    BY <1>1, <2>1, <2>2, <2>3 DEF Life!Erase
<1> QED
  BY <1>0, <1>1, <1>2, <1>4, <1>5 DEF LifeInv, LifeType, Life!Next

\* A process that dies settles the runs it had begun.
LEMMA RestartKeeps ==
  ASSUME LifeInv, NEW p \in Processes, Restart(p)
  PROVE  LifeInv' /\ [Life!Next]_(Life!vars)
<1>0. LifeType
  BY DEF LifeInv
<1>1. /\ task' = [r \in Runs |-> IF r \in Lost(p) THEN "dead" ELSE task[r]]
      /\ UNCHANGED <<hash, announced, deleted, fate>>
  BY DEF Restart, redis_vars
<1>2. Lost(p) \subseteq Runs /\ "dead" \in Places
  BY DEF Lost, Places
<1>3. LifeType'
  BY <1>0, <1>1, <1>2 DEF LifeType
<1>4. ASSUME NEW q \in Runs PROVE RunInv(q)'
  <2>1. RunInv(q)
    BY DEF LifeInv
  <2>2. task'[q] \in {task[q], "dead"} /\ Stored(q)' = Stored(q)
    BY <1>1 DEF Stored
  <2> QED
    BY <1>1, <2>1, <2>2 DEF RunInv, ToldInOrder, ResultKept, FailureSeen, Fresh, AtWork
<1>5. Life!GiveUp(Lost(p))
  <2>1. \A q \in Runs : StageOf(q)' = IF q \in Lost(p) THEN "settled" ELSE StageOf(q)
    BY <1>1 DEF StageOf, Fresh, AtWork
  <2>2. [q \in Runs |-> StageOf(q)]'
          = [q \in Runs |-> IF q \in Lost(p) THEN "settled"
                            ELSE [s \in Runs |-> StageOf(s)][q]]
    BY <2>1
  <2>3. [q \in Runs |-> Stored(q)]' = [q \in Runs |-> Stored(q)]
    BY <1>1 DEF Stored
  <2> QED
    BY <1>1, <2>2, <2>3 DEF Life!GiveUp, Erased
<1> QED
  BY <1>2, <1>3, <1>4, <1>5 DEF LifeInv, Life!Next

-----------------------------------------------------------------------------
(* The theorems.                                                            *)

\* At the start no run has begun.
LEMMA LifeBegins == Init => LifeInv /\ Life!Init
<1> SUFFICES ASSUME Init PROVE LifeInv /\ Life!Init
  OBVIOUS
<1>1. /\ hash = [r \in Runs |-> NoKey] /\ task = [r \in Runs |-> "none"]
      /\ announced = [r \in Runs |-> <<>>] /\ deleted = {}
  BY DEF Init
<1>2. "none" \in Places /\ "none" \in Fresh
  BY DEF Places, Fresh
<1>3. LifeType
  BY <1>1, <1>2 DEF LifeType
<1>4. ASSUME NEW r \in Runs
      PROVE  StageOf(r) = "new" /\ Stored(r) = FALSE /\ Erased(r) = FALSE /\ RunInv(r)
  <2>1. StageOf(r) = "new" /\ ~Stored(r) /\ ~Erased(r)
    BY <1>1, <1>2 DEF StageOf, Stored, NoKey, Erased
  <2> QED
    BY <1>1, <2>1, EndsDiffer DEF RunInv, ToldInOrder, ResultKept, FailureSeen,
                                  Announcements, Stored, Erased
<1>5. Life!Init
  BY <1>1, <1>4 DEF Life!Init
<1> QED
  BY <1>3, <1>4, <1>5 DEF LifeInv

\* One case per action of the whole system.
LEMMA StepKeeps ==
  ASSUME LifeInv, [StreamNext]_all_vars
  PROVE  LifeInv' /\ [Life!Next]_(Life!vars)
<1>0. LifeType
  BY DEF LifeInv
<1>1. ASSUME NEW r \in Runs, RunStep(r) PROVE LifeInv' /\ [Life!Next]_(Life!vars)
  <2>1. CASE HandlerStep(r) \/ TaskStep(r)
    BY <2>1, HandlerKeeps, TaskKeeps, KeptIsEnough
  <2>2. CASE ProgressStep(r) \/ EngineStep(r)
    BY <1>0, <2>2, ProgressRests, EngineRests, RestsKeep
  <2>3. CASE DeleteBacktest(r) \/ KeyExpires(r)
    BY <2>3, RemoveKeeps DEF DeleteBacktest, KeyExpires
  <2> QED
    BY <1>1, <2>1, <2>2, <2>3 DEF RunStep
<1>2. ASSUME NEW c \in Clients, Connect(c) \/ ClientStep(c) \/ HandlerFails(c) \/ Leave(c)
      PROVE  LifeInv' /\ [Life!Next]_(Life!vars)
  BY <1>0, <1>2, AudienceRests, RestsKeep
<1>3. ASSUME NEW p \in Processes, RestartAll(p) PROVE LifeInv' /\ [Life!Next]_(Life!vars)
  BY <1>3, RestartKeeps DEF RestartAll
<1>4. CASE UNCHANGED all_vars
  <2>1. UNCHANGED <<hash, task, announced, deleted, fate>>
    BY <1>4 DEF all_vars, vars, redis_vars
  <2> QED
    BY <1>0, <2>1, UntouchedRests, RestsKeep
<1> QED
  BY <1>1, <1>2, <1>3, <1>4 DEF StreamNext

\* The invariant of each run holds for ever.
LEMMA LifeInvHolds == StreamSpec => []LifeInv
<1>1. StreamInit => LifeInv
  BY LifeBegins DEF StreamInit
<1>2. LifeInv /\ [StreamNext]_all_vars => LifeInv'
  BY StepKeeps
<1> QED
  BY <1>1, <1>2, PTL DEF StreamSpec

\* What a sequence of ends contains.
LEMMA TerminalsOf ==
  ASSUME NEW r, announced[r] \in Announcements
  PROVE  /\ "complete" \in Terminals(r) =>
               announced[r] \in {<<"complete">>, <<"complete", "error">>}
         /\ announced[r] \in {<<>>, <<"error">>} => Terminals(r) \subseteq {"error"}
<1>1. CASE announced[r] \in {<<>>, <<"error">>}
  <2>1. Terminals(r) \subseteq {"error"}
    BY <1>1 DEF Terminals
  <2> QED
    BY <1>1, <2>1
<1>2. CASE announced[r] \in {<<"complete">>, <<"complete", "error">>}
  BY <1>2, EndsDiffer
<1> QED
  BY <1>1, <1>2 DEF Announcements

\* Whoever hears of a success finds its result, unless the record was removed.
THEOREM ResultsPrecedeAnnouncements == StreamSpec => []ResultBeforeAnnouncement
<1>1. LifeInv => ResultBeforeAnnouncement
  BY TerminalsOf DEF LifeInv, RunInv, ToldInOrder, ResultKept, Stored,
                     ResultBeforeAnnouncement
<1> QED
  BY <1>1, LifeInvHolds, PTL

\* No success is announced after a failure, and neither twice.
THEOREM FailureIsFinal == StreamSpec => []NoSuccessAfterFailure
<1>1. LifeInv => NoSuccessAfterFailure
  BY DEF LifeInv, RunInv, ToldInOrder, Announcements, NoSuccessAfterFailure
<1> QED
  BY <1>1, LifeInvHolds, PTL

\* An engine that failed, or never returns, leaves no result and no success.
THEOREM FailuresHaveNoResult == StreamSpec => []FailuresLeaveNoResult
<1>1. LifeInv => FailuresLeaveNoResult
  BY TerminalsOf DEF LifeInv, RunInv, ToldInOrder, FailureSeen, Stored,
                     FailuresLeaveNoResult
<1> QED
  BY <1>1, LifeInvHolds, PTL

\* The API with its audience implements RunLife.
THEOREM PromisesKept == StreamSpec => KeepsPromises
<1>1. StreamInit => Life!Init
  BY LifeBegins DEF StreamInit
<1>2. LifeInv /\ [StreamNext]_all_vars => [Life!Next]_(Life!vars)
  BY StepKeeps
<1> QED
  BY <1>1, <1>2, LifeInvHolds, PTL DEF StreamSpec, KeepsPromises, Life!Spec

=============================================================================

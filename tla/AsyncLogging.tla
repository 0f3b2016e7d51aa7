------------------------------ MODULE AsyncLogging ------------------------------
(***************************************************************************)
(* Asynchronous logging in the spdlog copy of the repository: loggers post *)
(* messages into one bounded queue, the threads of a thread_pool take them *)
(* out and write them, a periodic flusher posts flush requests, and the    *)
(* main thread replaces the pool or shuts everything down.                 *)
(*                                                                         *)
(* A step is one critical section of a mutex, or what lies between two of  *)
(* them. Notifying a condition variable is a step of its own, because the  *)
(* queue does it after it has released its mutex.                          *)
(*                                                                         *)
(* The pool lives as long as somebody refers to it: the registry, and each *)
(* thread inside a call that locked the logger's weak pointer. Whoever     *)
(* gives up the last reference runs ~thread_pool.                          *)
(***************************************************************************)
EXTENDS CircularQ, FiniteSets

CONSTANTS
    Producers,  \* threads that log
    Workers,    \* threads of the pool
    Loggers,    \* asynchronous loggers
    Registered, \* those of them the registry still holds
    LoggerOf,   \* the logger each producer uses
    Policy,     \* async_overflow_policy of each logger
    Faulty,     \* log messages whose sink throws
    QueueSize,  \* q_max_items
    MaxLogs,    \* bound: log calls of a producer
    MaxRounds,  \* bound: rounds of the periodic flusher
    Flusher,    \* the thread of the periodic_worker
    Main,       \* the thread that owns the registry
    Registry    \* the registry as a holder of the pool

Policies == {"block", "overrun_oldest", "discard_new"}

Log     == {"log"} \X Producers \X (1 .. MaxLogs)
Flush   == {"flush"} \X Loggers
Clients == Producers \cup {Flusher, Main}

Terminate == <<"terminate">>
Item      == Log \cup Flush \cup {Terminate}

ASSUME AsyncAssumption ==
    /\ QueueSize \in Nat \ {0} /\ MaxLogs \in Nat /\ MaxRounds \in Nat
    /\ LoggerOf \in [Producers -> Loggers]
    /\ Policy \in [Loggers -> Policies]
    /\ Registered \subseteq Loggers /\ Faulty \subseteq Log
    /\ IsFiniteSet(Workers) /\ Workers # {}
    /\ Flusher \notin Producers \cup {Main} /\ Main \notin Producers
    /\ Registry \notin Clients
    /\ NoItem \notin Item

VARIABLES
    q,          \* q_ of the pool
    pc,         \* where each client stands
    todo,       \* the message a client is about to post
    how,        \* the overflow policy of that message
    wpc,        \* where each worker stands
    hand,       \* incoming_async_msg of each worker
    holders,    \* owners of a shared_ptr to the pool
    toStop,     \* terminate messages ~thread_pool has still to post
    gone,       \* the pool is destroyed
    loggers,    \* loggers_ of the registry
    toFlush,    \* loggers flush_all has still to visit
    rounds,     \* rounds of the flusher so far
    active,     \* active_ of the periodic_worker
    sent,       \* log calls of each producer so far
    fate        \* what became of the messages (history)

queueVars   == <<q, fate>>
poolVars    == <<holders, toStop, gone>>
workerVars  == <<wpc, hand>>
flusherVars == <<loggers, toFlush, rounds, active>>
vars == <<q, pc, todo, how, wpc, hand, holders, toStop, gone,
          loggers, toFlush, rounds, active, sent, fate>>

Fates == {"written", "failed", "overrun", "discarded", "refused"}

Init ==
    /\ q = NewQ(QueueSize)
    /\ pc = [c \in Clients |-> "idle"]
    /\ todo = [c \in Clients |-> NoItem]
    /\ how = [c \in Clients |-> "block"]
    /\ wpc = [w \in Workers |-> "dequeue"]
    /\ hand = [w \in Workers |-> NoItem]
    /\ holders = {Registry}
    /\ toStop = 0
    /\ gone = FALSE
    /\ loggers = Registered
    /\ toFlush = {}
    /\ rounds = 0
    /\ active = TRUE
    /\ sent = [p \in Producers |-> 0]
    /\ fate = [f \in Fates |-> {}]

Become(m, f) == fate' = [fate EXCEPT ![f] = @ \cup {m}]

-----------------------------------------------------------------------------
(* Entering a call: thread_pool_.lock() succeeds while anybody holds the    *)
(* pool.                                                                    *)

Post(c, m, policy) ==
    /\ holders # {}
    /\ holders' = holders \cup {c}
    /\ todo' = [todo EXCEPT ![c] = m]
    /\ how' = [how EXCEPT ![c] = policy]
    /\ pc' = [pc EXCEPT ![c] = "enqueue"]
    /\ UNCHANGED <<toStop, gone, fate>>

\* "thread pool doesn't exist anymore", reported to the error handler.
Refuse(m) ==
    /\ holders = {}
    /\ Become(m, "refused")
    /\ UNCHANGED <<pc, todo, how, poolVars>>

\* logger::log_it_ down to async_logger::sink_it_.
LogCall(p) ==
    LET m == <<"log", p, sent[p] + 1>>
    IN  /\ pc[p] = "idle" /\ sent[p] < MaxLogs
        /\ sent' = [sent EXCEPT ![p] = @ + 1]
        /\ Post(p, m, Policy[LoggerOf[p]]) \/ Refuse(m)
        /\ UNCHANGED <<q, workerVars, flusherVars>>

\* Where a client goes on once it is out of the call, or out of ~thread_pool.
Back(c) ==
    CASE c \in Producers -> "idle"
      [] c = Flusher     -> "flush_all"
      [] c = Main        -> IF active THEN "idle" ELSE "done"

\* A shared_ptr to the pool goes: the last one runs ~thread_pool.
Drop(c, holder) ==
    /\ holders' = holders \ {holder}
    /\ IF holders = {holder}
       THEN /\ toStop' = Cardinality(Workers)
            /\ pc' = [pc EXCEPT ![c] = "stop"]
       ELSE /\ UNCHANGED toStop
            /\ pc' = [pc EXCEPT ![c] = Back(c)]

-----------------------------------------------------------------------------
(* The critical sections of mpmc_blocking_queue for a client.               *)

\* push_back: the message that has to go, if any, is overrun.
Push(m) ==
    /\ q' = PushBack(q, m)
    /\ IF Full(q) THEN Become(Front(q), "overrun") ELSE UNCHANGED fate

\* enqueue: wait on pop_cv_ until there is room.
Enqueue(c) ==
    /\ pc[c] = "enqueue" /\ how[c] = "block"
    /\ \/ /\ Full(q)
          /\ pc' = [pc EXCEPT ![c] = "wait_pop"]
          /\ UNCHANGED <<queueVars, todo>>
       \/ /\ ~ Full(q)
          /\ Push(todo[c])
          /\ pc' = [pc EXCEPT ![c] = "notify"]
          /\ todo' = [todo EXCEPT ![c] = NoItem]
    /\ UNCHANGED <<how, workerVars, poolVars, flusherVars, sent>>

\* enqueue_nowait: the oldest message goes when there is no room.
EnqueueNowait(c) ==
    /\ pc[c] = "enqueue" /\ how[c] = "overrun_oldest"
    /\ Push(todo[c])
    /\ pc' = [pc EXCEPT ![c] = "notify"]
    /\ todo' = [todo EXCEPT ![c] = NoItem]
    /\ UNCHANGED <<how, workerVars, poolVars, flusherVars, sent>>

\* enqueue_if_have_room: the new message goes, and discard_counter_ counts it.
EnqueueIfHaveRoom(c) ==
    /\ pc[c] = "enqueue" /\ how[c] = "discard_new"
    /\ todo' = [todo EXCEPT ![c] = NoItem]
    /\ \/ /\ ~ Full(q)
          /\ Push(todo[c])
          /\ pc' = [pc EXCEPT ![c] = "notify"]
          /\ UNCHANGED <<holders, toStop>>
       \/ /\ Full(q)
          /\ Become(todo[c], "discarded")
          /\ Drop(c, c)
          /\ UNCHANGED q
    /\ UNCHANGED <<how, workerVars, gone, flusherVars, sent>>

-----------------------------------------------------------------------------
(* The end of a call and the end of the pool.                               *)

\* Mutant: nobody is told that there is a message.
NotifyNobody(c) ==
    /\ pc[c] = "notify"
    /\ \/ c \in holders /\ Drop(c, c)
       \/ /\ holders = {}
          /\ pc' = [pc EXCEPT ![c] = IF toStop = 0 THEN "join" ELSE "stop"]
          /\ UNCHANGED <<holders, toStop>>
    /\ UNCHANGED <<queueVars, todo, how, workerVars, gone, flusherVars, sent>>

\* push_cv_.notify_one(); then pool_ptr of sink_it_ or flush_ goes out of scope,
\* or ~thread_pool goes on.
NotifyPush(c) ==
    /\ pc[c] = "notify"
    /\ \/ c \in holders /\ Drop(c, c)
       \/ /\ holders = {}
          /\ pc' = [pc EXCEPT ![c] = IF toStop = 0 THEN "join" ELSE "stop"]
          /\ UNCHANGED <<holders, toStop>>
    /\ LET waiting == {w \in Workers : wpc[w] = "wait_push"}
       IN  \/ waiting = {} /\ UNCHANGED wpc
           \/ \E w \in waiting : wpc' = [wpc EXCEPT ![w] = "dequeue"]
    /\ UNCHANGED <<queueVars, todo, how, hand, gone, flusherVars, sent>>

\* ~thread_pool: one terminate message for each thread, posted with block.
StopThread(c) ==
    /\ pc[c] = "stop"
    /\ toStop' = toStop - 1
    /\ todo' = [todo EXCEPT ![c] = Terminate]
    /\ how' = [how EXCEPT ![c] = "block"]
    /\ pc' = [pc EXCEPT ![c] = "enqueue"]
    /\ UNCHANGED <<queueVars, workerVars, holders, gone, flusherVars, sent>>

\* Mutant: the threads are not joined.
JoinNobody(c) ==
    /\ pc[c] = "join"
    /\ gone' = TRUE
    /\ pc' = [pc EXCEPT ![c] = Back(c)]
    /\ UNCHANGED <<queueVars, todo, how, workerVars, holders, toStop, flusherVars, sent>>

\* ... and join them all.
Join(c) ==
    /\ pc[c] = "join"
    /\ \A w \in Workers : wpc[w] = "done"
    /\ gone' = TRUE
    /\ pc' = [pc EXCEPT ![c] = Back(c)]
    /\ UNCHANGED <<queueVars, todo, how, workerVars, holders, toStop, flusherVars, sent>>

-----------------------------------------------------------------------------
(* A thread of the pool: worker_loop_.                                      *)

\* dequeue: wait on push_cv_ until there is a message, and move it out.
Dequeue(w) ==
    /\ wpc[w] = "dequeue"
    /\ \/ /\ IsEmpty(q)
          /\ wpc' = [wpc EXCEPT ![w] = "wait_push"]
          /\ UNCHANGED <<q, hand>>
       \/ /\ ~ IsEmpty(q)
          /\ hand' = [hand EXCEPT ![w] = Front(q)]
          /\ q' = PopFront(MoveFront(q))
          /\ wpc' = [wpc EXCEPT ![w] = "notify"]
    /\ UNCHANGED <<pc, todo, how, poolVars, flusherVars, sent, fate>>

\* Mutant: nobody is told that there is room.
NotifyPopForgotten(w) ==
    /\ wpc[w] = "notify"
    /\ wpc' = [wpc EXCEPT ![w] = "process"]
    /\ UNCHANGED <<queueVars, pc, todo, how, hand, poolVars, flusherVars, sent>>

\* pop_cv_.notify_one().
NotifyPop(w) ==
    /\ wpc[w] = "notify"
    /\ wpc' = [wpc EXCEPT ![w] = "process"]
    /\ LET waiting == {c \in Clients : pc[c] = "wait_pop"}
       IN  \/ waiting = {} /\ UNCHANGED pc
           \/ \E c \in waiting : pc' = [pc EXCEPT ![c] = "enqueue"]
    /\ UNCHANGED <<queueVars, todo, how, hand, poolVars, flusherVars, sent>>

\* process_next_msg_: backend_sink_it_ reports a sink that throws to the error
\* handler; backend_flush_ changes nothing here; terminate ends the loop.
Process(w) ==
    /\ wpc[w] = "process"
    /\ hand' = [hand EXCEPT ![w] = NoItem]
    /\ \/ /\ hand[w] \in Log
          /\ Become(hand[w], IF hand[w] \in Faulty THEN "failed" ELSE "written")
          /\ wpc' = [wpc EXCEPT ![w] = "dequeue"]
       \/ /\ hand[w] \in Flush
          /\ wpc' = [wpc EXCEPT ![w] = "dequeue"]
          /\ UNCHANGED fate
       \/ /\ hand[w] = Terminate
          /\ wpc' = [wpc EXCEPT ![w] = "done"]
          /\ UNCHANGED fate
    /\ UNCHANGED <<q, pc, todo, how, poolVars, flusherVars, sent>>

\* A condition variable may return without having been notified.
SpuriousWakeup ==
    \/ \E c \in Clients : /\ pc[c] = "wait_pop"
                          /\ pc' = [pc EXCEPT ![c] = "enqueue"]
                          /\ UNCHANGED wpc
    \/ \E w \in Workers : /\ wpc[w] = "wait_push"
                          /\ wpc' = [wpc EXCEPT ![w] = "dequeue"]
                          /\ UNCHANGED pc

Spurious ==
    /\ SpuriousWakeup
    /\ UNCHANGED <<queueVars, todo, how, hand, poolVars, flusherVars, sent>>
-----------------------------------------------------------------------------
(* The periodic_worker: its mutex is held from the end of the wait to the   *)
(* end of flush_all, that is while the flusher is neither idle nor done.    *)

\* wait_for ran into its time-out with active_ still set.
StartRound ==
    /\ pc[Flusher] = "idle" /\ active /\ rounds < MaxRounds
    /\ rounds' = rounds + 1
    /\ toFlush' = loggers
    /\ pc' = [pc EXCEPT ![Flusher] = "flush_all"]
    /\ UNCHANGED <<queueVars, todo, how, workerVars, poolVars, loggers, active, sent>>

\* logger::flush, for the loggers of the registry in any order.
FlushLogger ==
    \E l \in toFlush :
        /\ pc[Flusher] = "flush_all"
        /\ toFlush' = toFlush \ {l}
        /\ \/ Post(Flusher, <<"flush", l>>, Policy[l])
           \/ holders = {} /\ UNCHANGED <<pc, todo, how, poolVars, fate>>
        /\ UNCHANGED <<q, workerVars, loggers, rounds, active, sent>>

EndRound ==
    /\ pc[Flusher] = "flush_all" /\ toFlush = {}
    /\ pc' = [pc EXCEPT ![Flusher] = "idle"]
    /\ UNCHANGED <<queueVars, todo, how, workerVars, poolVars, flusherVars, sent>>

StopWorking ==
    /\ pc[Flusher] = "idle" /\ ~ active
    /\ pc' = [pc EXCEPT ![Flusher] = "done"]
    /\ UNCHANGED <<queueVars, todo, how, workerVars, poolVars, flusherVars, sent>>

-----------------------------------------------------------------------------
(* The main thread. The new pool of init_thread_pool is left out: no logger *)
(* of this registry refers to it.                                           *)

\* registry::set_tp on behalf of init_thread_pool.
SetTp ==
    /\ pc[Main] = "idle" /\ Registry \in holders
    /\ Drop(Main, Registry)
    /\ UNCHANGED <<queueVars, todo, how, workerVars, gone, flusherVars, sent>>

Shutdown ==
    /\ pc[Main] = "idle"
    /\ pc' = [pc EXCEPT ![Main] = "shutdown"]
    /\ UNCHANGED <<queueVars, todo, how, workerVars, poolVars, flusherVars, sent>>

\* ~periodic_worker: active_ is reset under the worker's mutex ...
StopFlusher ==
    /\ pc[Main] = "shutdown" /\ pc[Flusher] = "idle"
    /\ active' = FALSE
    /\ pc' = [pc EXCEPT ![Main] = "join_flusher"]
    /\ UNCHANGED <<queueVars, todo, how, workerVars, poolVars, loggers, toFlush, rounds, sent>>

\* ... and the thread is joined; drop_all. Nobody else reads loggers_ any more.
DropAll ==
    /\ pc[Main] = "join_flusher" /\ pc[Flusher] = "done"
    /\ loggers' = {}
    /\ pc' = [pc EXCEPT ![Main] = "reset_tp"]
    /\ UNCHANGED <<queueVars, todo, how, workerVars, poolVars, toFlush, rounds, active, sent>>

ResetTp ==
    /\ pc[Main] = "reset_tp"
    /\ \/ Registry \in holders /\ Drop(Main, Registry)
       \/ /\ Registry \notin holders
          /\ pc' = [pc EXCEPT ![Main] = "done"]
          /\ UNCHANGED <<holders, toStop>>
    /\ UNCHANGED <<queueVars, todo, how, workerVars, gone, flusherVars, sent>>

-----------------------------------------------------------------------------
\* What a thread inside a call does next.
ClientStep(c) ==
    \/ Enqueue(c) \/ EnqueueNowait(c) \/ EnqueueIfHaveRoom(c) \/ NotifyPush(c)
    \/ StopThread(c) \/ Join(c)

WorkerStep(w) == Dequeue(w) \/ NotifyPop(w) \/ Process(w)

FlusherStep == FlushLogger \/ EndRound \/ StopWorking

MainStep == StopFlusher \/ DropAll \/ ResetTp

AllDone ==
    /\ pc[Main] = "done"
    /\ \A p \in Producers : pc[p] = "idle" /\ sent[p] = MaxLogs

Next ==
    \/ \E p \in Producers : LogCall(p)
    \/ \E c \in Clients : ClientStep(c)
    \/ \E w \in Workers : WorkerStep(w)
    \/ FlusherStep \/ StartRound
    \/ MainStep \/ SetTp \/ Shutdown
    \/ Spurious
    \/ AllDone /\ UNCHANGED vars

\* Threads that can run do run. Nobody has to log, to shut down or to replace the
\* pool, and wake-ups without a cause need not come.
Spec ==
    /\ Init /\ [][Next]_vars
    /\ \A c \in Clients : WF_vars(ClientStep(c))
    /\ \A w \in Workers : WF_vars(WorkerStep(w))
    /\ WF_vars(FlusherStep) /\ WF_vars(MainStep)

-----------------------------------------------------------------------------
\* Where a log message can be: about to be posted, queued, in a worker's hand,
\* or at its end.
Places(m) ==
    Cardinality({c \in Clients : todo[c] = m})
    + Cardinality({i \in DOMAIN Items(q) : Items(q)[i] = m})
    + Cardinality({w \in Workers : hand[w] = m})
    + Cardinality({f \in Fates : m \in fate[f]})

\* thread_pool and mpmc_blocking_queue: a message is in one place at a time and
\* ends in one way, through overruns, discards, errors of sinks and the end of
\* the pool; none is lost without a trace and none is written twice.
OneFate ==
    \A p \in Producers, n \in 1 .. MaxLogs :
        Places(<<"log", p, n>>) = IF n <= sent[p] THEN 1 ELSE 0

\* ~thread_pool "message all threads to terminate gracefully": when it returns,
\* every message that was posted has been handled, every thread has ended, and
\* nobody is inside the queue that now goes away.
GoneMeansDrained ==
    gone =>
        /\ IsEmpty(q)
        /\ \A w \in Workers : wpc[w] = "done" /\ hand[w] = NoItem
        /\ \A c \in Clients : pc[c] \notin {"enqueue", "wait_pop", "notify", "stop", "join"}

\* Whatever the threads do, the queue is a bounded queue: first in, first out,
\* and an item is given up only for a new one when it is full.
Abstract == INSTANCE BoundedQueue WITH items <- Items(q), Capacity <- QueueSize
ImplementsQueue == Abstract!Spec

\* Every log call ends and its message meets its fate, whoever waits for whom.
EveryLogSettles ==
    \A p \in Producers, n \in 1 .. MaxLogs :
        (sent[p] >= n) ~> (\E f \in Fates : <<"log", p, n>> \in fate[f])

\* registry::shutdown returns: the flusher can be joined although it may be
\* waiting for room in the queue, and the pool can be stopped although its queue
\* may be full.
ShutdownCompletes == (pc[Main] = "shutdown") ~> (pc[Main] = "done")

=============================================================================

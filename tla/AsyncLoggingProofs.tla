-------------------------- MODULE AsyncLoggingProofs --------------------------
(***************************************************************************)
(* The asynchronous loggers, for every number of producers, workers and    *)
(* loggers, every policy and every size of the queue.                      *)
(*                                                                         *)
(* I. The circular buffer that the threads share is a bounded queue        *)
(* (ImplementsQueue). A client that stands before the queue has a message  *)
(* to post (TypeInv), so that every push is a Put or an Overrun of a       *)
(* message; CircularQProofs says what push_back and pop_front do to the    *)
(* items.                                                                  *)
(*                                                                         *)
(* II. A log message is in one place at a time and ends in one way         *)
(* (OneFate). The argument follows one message. Four sets are the places   *)
(* where it can be. Every step that moves it takes it out of the one place *)
(* and puts it into a place where it was not; a step that moves another    *)
(* message leaves it where it is, though its position in the queue may     *)
(* change. For that a client outside the queue must have nothing to post,  *)
(* and a worker that is about to take a message must have none in hand.    *)
(*                                                                         *)
(* III. When ~thread_pool returns, every message that was posted has been  *)
(* handled, every thread has ended, and nobody is inside the queue         *)
(* (GoneMeansDrained). Whoever is inside the queue holds the pool, so that *)
(* the client that gives up the last reference is alone from then on. It   *)
(* posts as many terminate messages as there are threads, behind           *)
(* everything else, and a thread that took one takes nothing more. The     *)
(* messages left in the queue are a stretch of others followed by k        *)
(* terminate messages; k, the threads that took one and those still to be  *)
(* posted add up to the number of threads. When all threads have ended k   *)
(* is 0, and an empty stretch of terminate messages means an empty queue.  *)
(***************************************************************************)
EXTENDS AsyncLogging, CircularQProofs, FiniteSetTheorems, TLAPS

-----------------------------------------------------------------------------
(* I. The shared queue                                                      *)

Standing ==
    {"idle", "enqueue", "wait_pop", "notify", "stop", "join", "flush_all",
     "shutdown", "join_flusher", "reset_tp", "done"}

TypeInv ==
    /\ q \in QOf(QueueSize, Item \cup {NoItem})
    /\ pc \in [Clients -> Standing]
    /\ todo \in [Clients -> Item \cup {NoItem}]
    /\ \A c \in Clients : pc[c] \in {"enqueue", "wait_pop"} => todo[c] \in Item
    /\ sent \in [Producers -> 0 .. MaxLogs]
    /\ loggers \subseteq Loggers
    /\ toFlush \subseteq Loggers

-----------------------------------------------------------------------------
\* Where a client goes on after a call, nobody is about to enter the queue.
LEMMA BackIsStanding ==
    ASSUME NEW c \in Clients
    PROVE  Back(c) \in Standing \ {"enqueue", "wait_pop"}
  BY AsyncAssumption DEF Back, Clients, Standing

\* A push of a message is a step of the abstract queue.
LEMMA PushImplements ==
    ASSUME TypeInv, NEW m \in Item, Push(m)
    PROVE  /\ q' \in QOf(QueueSize, Item \cup {NoItem})
           /\ Abstract!Put(m) \/ Abstract!Overrun(m)
<1>1. QueueSize \in Nat /\ q \in QOf(QueueSize, Item \cup {NoItem}) /\ m \in Item \cup {NoItem}
  BY AsyncAssumption DEF TypeInv
<1>2. q' = PushBack(q, m)
  BY DEF Push
<1>3. /\ PushBack(q, m) \in QOf(QueueSize, Item \cup {NoItem})
      /\ ~ Full(q) => Items(PushBack(q, m)) = Append(Items(q), m)
      /\ Full(q) => Items(PushBack(q, m)) = Tail(Append(Items(q), m))
  BY <1>1, PushBackFacts
<1>4. /\ Len(Items(q)) \in 0 .. QueueSize
      /\ Full(q) <=> Len(Items(q)) = QueueSize
  BY <1>1, ItemsFacts, SizeFacts
<1>5. Items(q)' = Items(PushBack(q, m))
  BY <1>2
<1>6. CASE Full(q)
  BY <1>2, <1>3, <1>4, <1>5, <1>6 DEF Abstract!Overrun
<1>7. CASE ~ Full(q)
  BY <1>1, <1>2, <1>3, <1>4, <1>5, <1>7 DEF Abstract!Put
<1> QED
  BY <1>6, <1>7

\* dequeue of the first item is a Take.
LEMMA TakeImplements ==
    ASSUME TypeInv, ~ IsEmpty(q), q' = PopFront(MoveFront(q))
    PROVE  /\ q' \in QOf(QueueSize, Item \cup {NoItem})
           /\ Abstract!Take
<1>1. QueueSize \in Nat /\ NoItem \in Item \cup {NoItem} /\ q \in QOf(QueueSize, Item \cup {NoItem})
  BY AsyncAssumption DEF TypeInv
<1>2. /\ PopFront(MoveFront(q)) \in QOf(QueueSize, Item \cup {NoItem})
      /\ Items(q) # <<>>
      /\ Items(PopFront(MoveFront(q))) = Tail(Items(q))
  BY <1>1, PopFrontFacts, MoveFrontFacts
<1>3. Items(q)' = Items(PopFront(MoveFront(q)))
  OBVIOUS
<1> QED
  BY <1>2, <1>3 DEF Abstract!Take

-----------------------------------------------------------------------------
\* The empty buffer of a new pool is the empty queue.
THEOREM InitTypeInv == Init => TypeInv /\ Abstract!Init
<1> SUFFICES ASSUME Init PROVE TypeInv /\ Abstract!Init
  OBVIOUS
<1>1. QueueSize \in Nat /\ NoItem \in Item \cup {NoItem}
  BY AsyncAssumption
<1>2. NewQ(QueueSize) \in QOf(QueueSize, Item \cup {NoItem}) /\ Items(NewQ(QueueSize)) = <<>>
  BY <1>1, NewQFacts
<1>3. TypeInv
  BY <1>2, AsyncAssumption DEF Init, TypeInv, Standing
<1>4. Abstract!Init
  BY <1>2 DEF Init, Abstract!Init
<1> QED
  BY <1>3, <1>4

\* The part of TypeInv that is about the clients.
ClientInv ==
    /\ pc \in [Clients -> Standing]
    /\ todo \in [Clients -> Item \cup {NoItem}]
    /\ \A c \in Clients : pc[c] \in {"enqueue", "wait_pop"} => todo[c] \in Item

\* async_logger::sink_it_ and flush_ enter the queue with a message.
LEMMA PostKeeps ==
    ASSUME TypeInv, NEW c \in Clients, NEW m \in Item, NEW policy, Post(c, m, policy)
    PROVE  ClientInv'
  BY DEF Post, TypeInv, ClientInv, Standing

\* pool_ptr goes out of scope, with ~thread_pool to follow or not.
LEMMA DropKeeps ==
    ASSUME TypeInv, NEW c \in Clients, NEW holder, Drop(c, holder),
           UNCHANGED todo \/ todo' = [todo EXCEPT ![c] = NoItem]
    PROVE  ClientInv'
<1>1. Back(c) \in Standing \ {"enqueue", "wait_pop"}
  BY BackIsStanding
<1>2. PICK at \in Standing \ {"enqueue", "wait_pop"} : pc' = [pc EXCEPT ![c] = at]
  BY <1>1 DEF Drop, Standing
<1> QED
  BY <1>2 DEF TypeInv, ClientInv

\* What a client does in the queue and at the end of a call.
LEMMA ClientStepImplements ==
    ASSUME TypeInv, NEW c \in Clients, ClientStep(c)
    PROVE  TypeInv' /\ (Abstract!Next \/ UNCHANGED q)
<1>1. /\ pc \in [Clients -> Standing] /\ todo \in [Clients -> Item \cup {NoItem}]
      /\ pc[c] \in {"enqueue", "wait_pop"} => todo[c] \in Item
  BY DEF TypeInv
<1>2. ClientInv
  BY DEF TypeInv, ClientInv
<1>3. UNCHANGED <<sent, loggers, toFlush>>
  BY DEF ClientStep, Enqueue, EnqueueNowait, EnqueueIfHaveRoom, NotifyPush, StopThread, Join,
         flusherVars
<1>4. ASSUME Push(todo[c]), pc[c] = "enqueue", pc' = [pc EXCEPT ![c] = "notify"],
             todo' = [todo EXCEPT ![c] = NoItem]
      PROVE  ClientInv' /\ q' \in QOf(QueueSize, Item \cup {NoItem}) /\ Abstract!Next
  <2>1. todo[c] \in Item
    BY <1>1, <1>4
  <2>2. q' \in QOf(QueueSize, Item \cup {NoItem})
        /\ (Abstract!Put(todo[c]) \/ Abstract!Overrun(todo[c]))
    BY <1>4, <2>1, PushImplements
  <2>3. ClientInv'
    BY <1>2, <1>4 DEF ClientInv, Standing
  <2> QED
    BY <2>1, <2>2, <2>3 DEF Abstract!Next
<1>5. CASE Enqueue(c)
  <2>1. CASE Full(q) /\ pc' = [pc EXCEPT ![c] = "wait_pop"] /\ UNCHANGED <<q, todo>>
    <3>1. ClientInv'
      BY <1>1, <1>2, <1>5, <2>1 DEF Enqueue, ClientInv, Standing
    <3> QED
      BY <1>3, <2>1, <3>1 DEF TypeInv, ClientInv
  <2>2. CASE Push(todo[c]) /\ pc' = [pc EXCEPT ![c] = "notify"] /\ todo' = [todo EXCEPT ![c] = NoItem]
    BY <1>3, <1>4, <1>5, <2>2 DEF Enqueue, TypeInv, ClientInv
  <2> QED
    BY <1>5, <2>1, <2>2 DEF Enqueue, queueVars
<1>6. CASE EnqueueNowait(c)
  BY <1>3, <1>4, <1>6 DEF EnqueueNowait, TypeInv, ClientInv
<1>7. CASE EnqueueIfHaveRoom(c)
  <2>1. CASE Push(todo[c]) /\ pc' = [pc EXCEPT ![c] = "notify"]
    BY <1>3, <1>4, <1>7, <2>1 DEF EnqueueIfHaveRoom, TypeInv, ClientInv
  <2>2. CASE Drop(c, c) /\ UNCHANGED q
    <3>1. todo' = [todo EXCEPT ![c] = NoItem]
      BY <1>7 DEF EnqueueIfHaveRoom
    <3>2. ClientInv'
      BY <2>2, <3>1, DropKeeps
    <3> QED
      BY <1>3, <2>2, <3>2 DEF TypeInv, ClientInv
  <2> QED
    BY <1>7, <2>1, <2>2 DEF EnqueueIfHaveRoom
<1>8. CASE NotifyPush(c)
  <2>1. UNCHANGED <<q, todo>>
    BY <1>8 DEF NotifyPush, queueVars
  <2>2. ClientInv'
    <3>1. CASE Drop(c, c)
      BY <2>1, <3>1, DropKeeps
    <3>2. CASE pc' = [pc EXCEPT ![c] = IF toStop = 0 THEN "join" ELSE "stop"]
      BY <1>2, <2>1, <3>2 DEF ClientInv, Standing
    <3> QED
      BY <1>8, <3>1, <3>2 DEF NotifyPush
  <2> QED
    BY <1>3, <2>1, <2>2 DEF TypeInv, ClientInv
<1>9. CASE StopThread(c)
  <2>1. UNCHANGED q
    BY <1>9 DEF StopThread, queueVars
  <2>2. ClientInv'
    BY <1>2, <1>9 DEF StopThread, ClientInv, Standing, Item
  <2> QED
    BY <1>3, <2>1, <2>2 DEF TypeInv, ClientInv
<1>10. CASE Join(c)
  <2>1. UNCHANGED <<q, todo>> /\ pc' = [pc EXCEPT ![c] = Back(c)]
    BY <1>10 DEF Join, queueVars
  <2>2. ClientInv'
    BY <1>2, <2>1, BackIsStanding DEF ClientInv
  <2> QED
    BY <1>3, <2>1, <2>2 DEF TypeInv, ClientInv
<1> QED
  BY <1>5, <1>6, <1>7, <1>8, <1>9, <1>10 DEF ClientStep

\* A thread of the pool.
LEMMA WorkerStepImplements ==
    ASSUME TypeInv, NEW w \in Workers, WorkerStep(w)
    PROVE  TypeInv' /\ (Abstract!Next \/ UNCHANGED q)
<1>1. UNCHANGED <<todo, sent, loggers, toFlush>>
  BY DEF WorkerStep, Dequeue, NotifyPop, Process, flusherVars
<1>2. CASE Dequeue(w)
  <2>1. UNCHANGED pc
    BY <1>2 DEF Dequeue
  <2>2. CASE UNCHANGED q
    BY <1>1, <2>1, <2>2 DEF TypeInv
  <2>3. CASE ~ IsEmpty(q) /\ q' = PopFront(MoveFront(q))
    <3>1. q' \in QOf(QueueSize, Item \cup {NoItem}) /\ Abstract!Take
      BY <2>3, TakeImplements
    <3> QED
      BY <1>1, <2>1, <3>1 DEF TypeInv, Abstract!Next
  <2> QED
    BY <1>2, <2>2, <2>3 DEF Dequeue
<1>3. CASE NotifyPop(w)
  <2>1. UNCHANGED q
    BY <1>3 DEF NotifyPop, queueVars
  <2>2. ClientInv'
    <3>1. CASE UNCHANGED pc
      BY <1>1, <3>1 DEF TypeInv, ClientInv
    <3>2. CASE \E c \in Clients : pc[c] = "wait_pop" /\ pc' = [pc EXCEPT ![c] = "enqueue"]
      BY <1>1, <3>2 DEF TypeInv, ClientInv, Standing
    <3> QED
      BY <1>3, <3>1, <3>2 DEF NotifyPop
  <2> QED
    BY <1>1, <2>1, <2>2 DEF TypeInv, ClientInv
<1>4. CASE Process(w)
  BY <1>1, <1>4 DEF Process, TypeInv
<1> QED
  BY <1>2, <1>3, <1>4 DEF WorkerStep

\* Everything else leaves the queue as it is.
LEMMA OtherStepsKeep ==
    ASSUME TypeInv,
           \/ \E p \in Producers : LogCall(p)
           \/ FlusherStep \/ StartRound \/ MainStep \/ SetTp \/ Shutdown \/ Spurious
    PROVE  TypeInv' /\ UNCHANGED q
<1>1. ClientInv /\ Producers \subseteq Clients /\ Flusher \in Clients /\ Main \in Clients
  BY DEF TypeInv, ClientInv, Clients
<1>2. ASSUME NEW p \in Producers, LogCall(p)
      PROVE  TypeInv' /\ UNCHANGED q
  <2>1. p \in Clients
    BY <1>1
  <2>2. UNCHANGED <<q, loggers, toFlush>> /\ sent' = [sent EXCEPT ![p] = @ + 1]
    BY <1>2 DEF LogCall, flusherVars
  <2>3. sent[p] + 1 \in 1 .. MaxLogs
    BY <1>2, AsyncAssumption DEF LogCall, TypeInv
  <2>4. sent' \in [Producers -> 0 .. MaxLogs]
    BY <2>2, <2>3 DEF TypeInv
  <2>5. <<"log", p, sent[p] + 1>> \in Item
    BY <2>3 DEF Item, Log
  <2>6. ClientInv'
    <3>1. CASE Post(p, <<"log", p, sent[p] + 1>>, Policy[LoggerOf[p]])
      BY <2>1, <2>5, <3>1, PostKeeps
    <3>2. CASE UNCHANGED <<pc, todo>>
      BY <1>1, <3>2 DEF ClientInv
    <3> QED
      BY <1>2, <3>1, <3>2 DEF LogCall, Refuse
  <2> QED
    BY <2>2, <2>4, <2>6 DEF TypeInv, ClientInv
<1>3. CASE FlusherStep
  <2>1. UNCHANGED <<q, sent, loggers>>
    BY <1>3 DEF FlusherStep, FlushLogger, EndRound, StopWorking, queueVars, flusherVars
  <2>2. CASE FlushLogger
    <3>1. PICK l \in toFlush :
            /\ toFlush' = toFlush \ {l}
            /\ \/ Post(Flusher, <<"flush", l>>, Policy[l])
               \/ UNCHANGED <<pc, todo>>
      BY <2>2 DEF FlushLogger
    <3>2. <<"flush", l>> \in Item
      BY <3>1 DEF TypeInv, Item, Flush
    <3>3. ClientInv'
      <4>1. CASE Post(Flusher, <<"flush", l>>, Policy[l])
        BY <1>1, <3>2, <4>1, PostKeeps
      <4>2. CASE UNCHANGED <<pc, todo>>
        BY <1>1, <4>2 DEF ClientInv
      <4> QED
        BY <3>1, <4>1, <4>2
    <3> QED
      BY <2>1, <3>1, <3>3 DEF TypeInv, ClientInv
  <2>3. CASE EndRound \/ StopWorking
    <3>1. UNCHANGED <<todo, toFlush>>
          /\ (pc' = [pc EXCEPT ![Flusher] = "idle"] \/ pc' = [pc EXCEPT ![Flusher] = "done"])
      BY <2>3 DEF EndRound, StopWorking, flusherVars
    <3> QED
      BY <1>1, <2>1, <3>1 DEF TypeInv, ClientInv, Standing
  <2> QED
    BY <1>3, <2>2, <2>3 DEF FlusherStep
<1>4. CASE StartRound
  <2>1. /\ UNCHANGED <<q, todo, sent, loggers>> /\ toFlush' = loggers
        /\ pc' = [pc EXCEPT ![Flusher] = "flush_all"]
    BY <1>4 DEF StartRound, queueVars
  <2> QED
    BY <1>1, <2>1 DEF TypeInv, ClientInv, Standing
<1>5. CASE MainStep \/ SetTp \/ Shutdown
  <2>1. UNCHANGED <<q, todo, sent, toFlush>> /\ loggers' \in {loggers, {}}
    BY <1>5 DEF MainStep, StopFlusher, DropAll, ResetTp, SetTp, Shutdown, queueVars, flusherVars
  <2>2. ClientInv'
    <3>1. CASE Drop(Main, Registry)
      BY <1>1, <2>1, <3>1, DropKeeps
    <3>2. CASE \E at \in {"shutdown", "join_flusher", "reset_tp", "done"} :
                  pc' = [pc EXCEPT ![Main] = at]
      BY <1>1, <2>1, <3>2 DEF ClientInv, Standing
    <3> QED
      BY <1>5, <3>1, <3>2 DEF MainStep, StopFlusher, DropAll, ResetTp, SetTp, Shutdown
  <2> QED
    BY <2>1, <2>2 DEF TypeInv, ClientInv
<1>6. CASE Spurious
  <2>1. UNCHANGED <<q, todo, sent, loggers, toFlush>>
    BY <1>6 DEF Spurious, queueVars, flusherVars
  <2>2. CASE UNCHANGED pc
    BY <2>1, <2>2 DEF TypeInv
  <2>3. CASE \E c \in Clients : pc[c] = "wait_pop" /\ pc' = [pc EXCEPT ![c] = "enqueue"]
    BY <1>1, <2>1, <2>3 DEF TypeInv, ClientInv, Standing
  <2> QED
    BY <1>6, <2>2, <2>3 DEF Spurious, SpuriousWakeup
<1> QED
  BY <1>2, <1>3, <1>4, <1>5, <1>6

\* Every step keeps TypeInv and is a step of the bounded queue, or none.
THEOREM StepImplements ==
    TypeInv /\ [Next]_vars => TypeInv' /\ [Abstract!Next]_(Items(q))
<1> SUFFICES ASSUME TypeInv, [Next]_vars
             PROVE  TypeInv' /\ (Abstract!Next \/ UNCHANGED q)
  OBVIOUS
<1>1. ASSUME NEW c \in Clients, ClientStep(c)
      PROVE  TypeInv' /\ (Abstract!Next \/ UNCHANGED q)
  BY <1>1, ClientStepImplements
<1>2. ASSUME NEW w \in Workers, WorkerStep(w)
      PROVE  TypeInv' /\ (Abstract!Next \/ UNCHANGED q)
  BY <1>2, WorkerStepImplements
<1>3. CASE UNCHANGED vars
  BY <1>3 DEF vars, TypeInv
<1> QED
  BY <1>1, <1>2, <1>3, OtherStepsKeep DEF Next

\* Whatever the threads do, their queue is a bounded queue.
THEOREM QueueIsBoundedQueue == Spec => ImplementsQueue
<1>1. Spec => []TypeInv
  BY InitTypeInv, StepImplements, PTL DEF Spec
<1>2. Spec => [][Abstract!Next]_(Items(q))
  BY <1>1, StepImplements, PTL DEF Spec
<1>3. Init => Abstract!Init
  BY InitTypeInv
<1> QED
  BY <1>2, <1>3, PTL DEF Spec, ImplementsQueue, Abstract!Spec

-----------------------------------------------------------------------------
(* II. The fate of a message                                                *)

At(s, m) == {i \in DOMAIN s : s[i] = m}
Lone(A)  == \E x : A = {x}

InTodo(m)  == {c \in Clients : todo[c] = m}
InQueue(m) == At(Items(q), m)
InHand(m)  == {w \in Workers : hand[w] = m}
Ended(m)   == {f \in Fates : m \in fate[f]}

NoPlace(m) == InTodo(m) = {} /\ InQueue(m) = {} /\ InHand(m) = {} /\ Ended(m) = {}

OnePlace(m) ==
    \/ Lone(InTodo(m)) /\ InQueue(m) = {} /\ InHand(m) = {} /\ Ended(m) = {}
    \/ InTodo(m) = {} /\ Lone(InQueue(m)) /\ InHand(m) = {} /\ Ended(m) = {}
    \/ InTodo(m) = {} /\ InQueue(m) = {} /\ Lone(InHand(m)) /\ Ended(m) = {}
    \/ InTodo(m) = {} /\ InQueue(m) = {} /\ InHand(m) = {} /\ Lone(Ended(m))

\* What a step may do to a message that it does not create.
Keeps(m) == (NoPlace(m) => NoPlace(m)') /\ (OnePlace(m) => OnePlace(m)')

Something == Item \cup {NoItem}

HandsInv ==
    /\ \A c \in Clients : pc[c] \notin {"enqueue", "wait_pop"} => todo[c] = NoItem
    /\ wpc \in [Workers -> {"dequeue", "wait_push", "notify", "process", "done"}]
    /\ hand \in [Workers -> Something]
    /\ \A w \in Workers : wpc[w] \in {"dequeue", "wait_push", "done"} => hand[w] = NoItem
    /\ fate \in [Fates -> SUBSET Something]

PlaceInv ==
    \A p \in Producers, n \in 1 .. MaxLogs :
        IF n <= sent[p] THEN OnePlace(<<"log", p, n>>) ELSE NoPlace(<<"log", p, n>>)

IInv == TypeInv /\ HandsInv /\ PlaceInv

-----------------------------------------------------------------------------
(* Places                                                                   *)

\* An element is appended.
LEMMA AtAppend ==
    ASSUME NEW S, NEW s \in Seq(S), NEW e \in S, NEW m
    PROVE  /\ e # m => At(Append(s, e), m) = At(s, m)
           /\ e = m /\ At(s, m) = {} => At(Append(s, e), m) = {Len(s) + 1}
<1>1. /\ DOMAIN s = 1 .. Len(s) /\ Len(s) \in Nat
      /\ DOMAIN Append(s, e) = 1 .. Len(s) + 1
      /\ Append(s, e)[Len(s) + 1] = e
      /\ \A i \in 1 .. Len(s) : Append(s, e)[i] = s[i]
  OBVIOUS
<1> QED
  BY <1>1 DEF At

\* The first element goes.
LEMMA AtTail ==
    ASSUME NEW S, NEW s \in Seq(S), s # <<>>, NEW m
    PROVE  /\ At(s, m) = {} => At(Tail(s), m) = {}
           /\ Head(s) # m /\ Lone(At(s, m)) => Lone(At(Tail(s), m))
           /\ Head(s) = m /\ Lone(At(s, m)) => At(Tail(s), m) = {}
<1>1. /\ DOMAIN s = 1 .. Len(s) /\ Len(s) \in Nat \ {0}
      /\ DOMAIN Tail(s) = 1 .. Len(s) - 1
      /\ Head(s) = s[1]
      /\ \A i \in 1 .. Len(s) - 1 : Tail(s)[i] = s[i + 1]
  OBVIOUS
<1>2. ASSUME NEW i \in At(Tail(s), m)
      PROVE  i \in Int /\ i + 1 \in At(s, m) /\ i + 1 # 1
  BY <1>1 DEF At
<1>3. ASSUME NEW i \in At(s, m), i # 1
      PROVE  i - 1 \in At(Tail(s), m)
  BY <1>1, <1>3 DEF At
<1>4. ASSUME Head(s) # m, NEW x, At(s, m) = {x}
      PROVE  At(Tail(s), m) = {x - 1}
  <2>1. x \in Int /\ x # 1
    BY <1>1, <1>4 DEF At
  <2>2. x - 1 \in At(Tail(s), m)
    BY <1>3, <1>4, <2>1
  <2> QED
    BY <1>2, <1>4, <2>1, <2>2
<1>5. ASSUME Head(s) = m, NEW x, At(s, m) = {x}
      PROVE  At(Tail(s), m) = {}
  <2>1. x = 1
    BY <1>1, <1>5 DEF At
  <2> QED
    BY <1>2, <1>5, <2>1
<1> QED
  BY <1>2, <1>4, <1>5 DEF Lone

\* One entry of a function changes.
LEMMA EntrySet ==
    ASSUME NEW S, NEW T, NEW f \in [S -> T], NEW c \in S, NEW e, NEW m, f[c] # m
    PROVE  LET g == [f EXCEPT ![c] = e]
               A == {x \in S : f[x] = m}
               B == {x \in S : g[x] = m}
           IN  /\ e # m => B = A
               /\ e = m /\ A = {} => B = {c}
  OBVIOUS

\* The kinds of messages.
LEMMA LogIsNoOther ==
    ASSUME NEW m \in Log
    PROVE  m \notin Flush /\ m # Terminate /\ m # NoItem
<1>1. m[1] = "log" /\ \A l \in Flush : l[1] = "flush"
  BY DEF Log, Flush
<1>2. Terminate[1] = "terminate"
  BY DEF Terminate
<1> QED
  BY <1>1, <1>2, AsyncAssumption DEF Item

\* A message comes to its end.
LEMMA BecomeEnds ==
    ASSUME HandsInv, NEW f \in Fates, NEW e, NEW m, Become(e, f)
    PROVE  /\ e # m => Ended(m)' = Ended(m)
           /\ e = m /\ Ended(m) = {} => Ended(m)' = {f}
<1>1. /\ DOMAIN fate = Fates
      /\ fate' = [fate EXCEPT ![f] = fate[f] \cup {e}]
  BY DEF HandsInv, Become
<1>2. \A g \in Fates : fate'[g] = IF g = f THEN fate[f] \cup {e} ELSE fate[g]
  BY <1>1
<1> QED
  BY <1>2 DEF Ended

\* A client has nothing to post any more.
LEMMA TodoCleared ==
    ASSUME TypeInv, NEW c \in Clients, todo' = [todo EXCEPT ![c] = NoItem], NEW m \in Log
    PROVE  /\ todo[c] # m => InTodo(m)' = InTodo(m)
           /\ todo[c] = m /\ Lone(InTodo(m)) => InTodo(m)' = {}
           /\ todo[c] = m => InTodo(m) # {}
<1>1. DOMAIN todo = Clients /\ m # NoItem
  BY LogIsNoOther DEF TypeInv
<1>2. \A d \in Clients : todo'[d] = IF d = c THEN NoItem ELSE todo[d]
  BY <1>1
<1>3. \A d \in Clients : d \in InTodo(m)' <=> d # c /\ d \in InTodo(m)
  BY <1>1, <1>2 DEF InTodo
<1>4. InTodo(m) \subseteq Clients /\ InTodo(m)' \subseteq Clients
  BY DEF InTodo
<1>5. c \in InTodo(m) <=> todo[c] = m
  BY DEF InTodo
<1>6. ASSUME todo[c] # m
      PROVE  InTodo(m)' = InTodo(m)
  BY <1>3, <1>4, <1>5, <1>6
<1>7. ASSUME todo[c] = m, NEW x, InTodo(m) = {x}
      PROVE  InTodo(m)' = {}
  BY <1>3, <1>4, <1>5, <1>7
<1> QED
  BY <1>5, <1>6, <1>7 DEF Lone

-----------------------------------------------------------------------------
(* Moves                                                                    *)

\* From the client into the queue, where the first item may have to go.
LEMMA PushKeeps ==
    ASSUME TypeInv, HandsInv, NEW c \in Clients, todo[c] \in Item, Push(todo[c]),
           todo' = [todo EXCEPT ![c] = NoItem], UNCHANGED hand, NEW m \in Log
    PROVE  Keeps(m)
<1> DEFINE e == todo[c]
           s == Items(q)
<1>1. /\ QueueSize \in Nat \ {0} /\ q \in QOf(QueueSize, Something) /\ e \in Something
      /\ NoItem \in Something /\ m # NoItem
  BY AsyncAssumption DEF TypeInv, Something, Item
<1>2. s \in Seq(Something) /\ Len(s) = Size(q)
  BY <1>1, ItemsFacts
<1>3. /\ ~ Full(q) => Items(q)' = Append(s, e)
      /\ Full(q) => Items(q)' = Tail(Append(s, e))
  <2>1. Items(q)' = Items(PushBack(q, e))
    BY DEF Push
  <2> QED
    BY <1>1, <2>1, PushBackFacts
<1>4. Full(q) => s # <<>> /\ Front(q) = Head(s) /\ Head(s) \in Something
  <2>1. Full(q) => ~ IsEmpty(q)
    BY <1>1, SizeFacts
  <2>2. ~ IsEmpty(q) => s # <<>> /\ Front(q) = Head(s)
    BY <1>1, PopFrontFacts, MoveFrontFacts
  <2> QED
    BY <1>2, <2>1, <2>2
<1>5. /\ e # m => InTodo(m)' = InTodo(m)
      /\ e = m /\ Lone(InTodo(m)) => InTodo(m)' = {}
      /\ e = m => InTodo(m) # {}
  BY TodoCleared
<1>6. InHand(m)' = InHand(m)
  BY DEF InHand
<1>7. CASE ~ Full(q)
  <2>1. Ended(m)' = Ended(m)
    BY <1>7 DEF Push, Ended
  <2>2. /\ e # m => InQueue(m)' = InQueue(m)
        /\ e = m /\ InQueue(m) = {} => Lone(InQueue(m)')
    <3>1. InQueue(m)' = At(Append(s, e), m)
      BY <1>3, <1>7 DEF InQueue
    <3>2. /\ e # m => At(Append(s, e), m) = At(s, m)
          /\ e = m /\ At(s, m) = {} => At(Append(s, e), m) = {Len(s) + 1}
      <4> HIDE DEF s, e
      <4> QED
        BY <1>1, <1>2, AtAppend
    <3>3. InQueue(m) = At(s, m)
      BY DEF InQueue
    <3> HIDE DEF s, e
    <3> QED
      BY <3>1, <3>2, <3>3 DEF Lone
  <2> HIDE DEF e
  <2> QED
    BY <1>5, <1>6, <2>1, <2>2 DEF Keeps, NoPlace, OnePlace
<1>8. CASE Full(q)
  <2> DEFINE t == Append(s, e)
             A == At(t, m)
  <2>1. /\ Head(s) # m => Ended(m)' = Ended(m)
        /\ Head(s) = m /\ Ended(m) = {} => Lone(Ended(m)')
    <3>1. Become(Head(s), "overrun")
      BY <1>4, <1>8 DEF Push
    <3> QED
      BY <3>1, BecomeEnds DEF Fates, Lone
  <2>2. InQueue(m)' = At(Tail(t), m)
    BY <1>3, <1>8 DEF InQueue
  <2>3. t \in Seq(Something) /\ t # <<>> /\ Head(t) = Head(s)
    BY <1>1, <1>2, <1>4, <1>8
  <2>4. /\ e # m => A = InQueue(m)
        /\ e = m /\ InQueue(m) = {} => Lone(A)
    <3>1. /\ e # m => A = At(s, m)
          /\ e = m /\ At(s, m) = {} => A = {Len(s) + 1}
      <4> HIDE DEF s, e
      <4> QED
        BY <1>1, <1>2, AtAppend
    <3>2. InQueue(m) = At(s, m)
      BY DEF InQueue
    <3> HIDE DEF s, e, A
    <3> QED
      BY <3>1, <3>2 DEF Lone
  <2>5. Head(s) = m => InQueue(m) # {}
    BY <1>2, <1>4, <1>8 DEF InQueue, At
  <2>6. /\ A = {} => InQueue(m)' = {}
        /\ Head(s) # m /\ Lone(A) => Lone(InQueue(m)')
        /\ Head(s) = m /\ Lone(A) => InQueue(m)' = {}
    <3> HIDE DEF t
    <3> QED
      BY <2>2, <2>3, AtTail
  <2> HIDE DEF e, s, A
  <2> QED
    BY <1>5, <1>6, <2>1, <2>4, <2>5, <2>6 DEF Keeps, NoPlace, OnePlace
<1> QED
  BY <1>7, <1>8

\* From the client to its end.
LEMMA DiscardKeeps ==
    ASSUME TypeInv, HandsInv, NEW c \in Clients, todo[c] \in Item, Become(todo[c], "discarded"),
           todo' = [todo EXCEPT ![c] = NoItem], UNCHANGED <<q, hand>>, NEW m \in Log
    PROVE  Keeps(m)
<1> DEFINE e == todo[c]
<1>1. e \in Something /\ m # NoItem
  BY AsyncAssumption DEF Something, Item
<1>2. /\ e # m => InTodo(m)' = InTodo(m)
      /\ e = m /\ Lone(InTodo(m)) => InTodo(m)' = {}
      /\ e = m => InTodo(m) # {}
  BY TodoCleared
<1>3. InHand(m)' = InHand(m) /\ InQueue(m)' = InQueue(m)
  BY DEF InHand, InQueue
<1>4. /\ e # m => Ended(m)' = Ended(m)
      /\ e = m /\ Ended(m) = {} => Lone(Ended(m)')
  BY BecomeEnds DEF Fates, Lone
<1> HIDE DEF e
<1> QED
  BY <1>2, <1>3, <1>4 DEF Keeps, NoPlace, OnePlace

\* From the queue into the hand of a worker.
LEMMA TakeKeeps ==
    ASSUME TypeInv, HandsInv, NEW w \in Workers, wpc[w] = "dequeue", ~ IsEmpty(q),
           q' = PopFront(MoveFront(q)), hand' = [hand EXCEPT ![w] = Front(q)],
           UNCHANGED <<todo, fate>>, NEW m \in Log
    PROVE  Keeps(m)
<1> DEFINE s == Items(q)
           e == Front(q)
<1>1. /\ QueueSize \in Nat \ {0} /\ q \in QOf(QueueSize, Something)
      /\ NoItem \in Something /\ m # NoItem /\ hand[w] = NoItem
  BY AsyncAssumption DEF TypeInv, Something, Item, HandsInv
<1>2. s \in Seq(Something)
  BY <1>1, ItemsFacts
<1>3. s # <<>> /\ e = Head(s) /\ Items(q)' = Tail(s)
  <2>1. Items(q)' = Items(PopFront(MoveFront(q)))
    OBVIOUS
  <2> QED
    BY <1>1, <2>1, PopFrontFacts, MoveFrontFacts
<1>4. e \in Something
  BY <1>2, <1>3
<1>5. /\ InQueue(m) = {} => InQueue(m)' = {}
      /\ e # m /\ Lone(InQueue(m)) => Lone(InQueue(m)')
      /\ e = m /\ Lone(InQueue(m)) => InQueue(m)' = {}
  <2>1. InQueue(m)' = At(Tail(s), m) /\ InQueue(m) = At(s, m)
    BY <1>3 DEF InQueue
  <2> HIDE DEF s, e
  <2> QED
    BY <1>2, <1>3, <2>1, AtTail
<1>6. e = m => InQueue(m) # {}
  BY <1>2, <1>3 DEF InQueue, At
<1>7. /\ e # m => InHand(m)' = InHand(m)
      /\ e = m /\ InHand(m) = {} => Lone(InHand(m)')
  <2>1. hand \in [Workers -> Something] /\ hand[w] # m
    BY <1>1 DEF HandsInv
  <2> HIDE DEF e
  <2> QED
    BY <2>1, EntrySet DEF InHand, Lone, e
<1>8. InTodo(m)' = InTodo(m) /\ Ended(m)' = Ended(m)
  BY DEF InTodo, Ended
<1> HIDE DEF e
<1> QED
  BY <1>5, <1>6, <1>7, <1>8 DEF Keeps, NoPlace, OnePlace

\* From the hand of a worker to its end.
LEMMA ProcessKeeps ==
    ASSUME TypeInv, HandsInv, NEW w \in Workers, Process(w), NEW m \in Log
    PROVE  Keeps(m)
<1> DEFINE e == hand[w]
<1>1. e \in Something /\ m # NoItem
  BY AsyncAssumption DEF Something, Item, HandsInv
<1>2. hand' = [hand EXCEPT ![w] = NoItem] /\ UNCHANGED <<q, todo>>
  BY DEF Process
<1>3. /\ e # m => InHand(m)' = InHand(m)
      /\ e = m /\ Lone(InHand(m)) => InHand(m)' = {}
      /\ e = m => InHand(m) # {}
  <2>1. hand \in [Workers -> Something]
    BY DEF HandsInv
  <2> DEFINE cleared == {x \in Workers : [hand EXCEPT ![w] = NoItem][x] = m}
  <2>2. InHand(m)' = cleared
    BY <1>2 DEF InHand
  <2>3. /\ e # m => cleared = InHand(m)
        /\ e = m /\ Lone(InHand(m)) => cleared = {}
    BY <1>1, <2>1 DEF InHand, Lone
  <2>4. e = m => w \in InHand(m)
    BY DEF InHand
  <2> HIDE DEF cleared, e
  <2> QED
    BY <2>2, <2>3, <2>4
<1>4. InTodo(m)' = InTodo(m) /\ InQueue(m)' = InQueue(m)
  BY <1>2 DEF InTodo, InQueue
<1>5. /\ e # m => Ended(m)' = Ended(m)
      /\ e = m /\ Ended(m) = {} => Lone(Ended(m)')
  <2>1. CASE e \in Log
    <3>1. PICK f \in Fates : Become(e, f)
      <4>1. e \notin Flush /\ e # Terminate
        BY <2>1, LogIsNoOther
      <4>2. \/ Become(e, IF e \in Faulty THEN "failed" ELSE "written")
            \/ e \in Flush
            \/ e = Terminate
        BY DEF Process
      <4>3. (IF e \in Faulty THEN "failed" ELSE "written") \in Fates
        BY DEF Fates
      <4> QED
        BY <4>1, <4>2, <4>3
    <3> HIDE DEF e
    <3> QED
      BY <3>1, BecomeEnds DEF Lone
  <2>2. CASE e \notin Log
    <3>1. UNCHANGED fate
      BY <2>2 DEF Process
    <3> QED
      BY <2>2, <3>1 DEF Ended
  <2> QED
    BY <2>1, <2>2
<1> HIDE DEF e
<1> QED
  BY <1>3, <1>4, <1>5 DEF Keeps, NoPlace, OnePlace

\* A client enters the queue with something else in its hands.
LEMMA OtherTodoKeeps ==
    ASSUME TypeInv, HandsInv, NEW c \in Clients, pc[c] \notin {"enqueue", "wait_pop"},
           NEW e, todo' = [todo EXCEPT ![c] = e], UNCHANGED <<q, hand, fate>>,
           NEW m \in Log, e # m
    PROVE  Keeps(m)
<1>1. todo \in [Clients -> Something] /\ todo[c] # m
  BY AsyncAssumption DEF TypeInv, HandsInv, Something, Item
<1>2. InTodo(m)' = InTodo(m)
  BY <1>1, EntrySet DEF InTodo
<1>3. InQueue(m)' = InQueue(m) /\ InHand(m)' = InHand(m) /\ Ended(m)' = Ended(m)
  BY DEF InQueue, InHand, Ended
<1> QED
  BY <1>2, <1>3 DEF Keeps, NoPlace, OnePlace

\* Nothing moves.
LEMMA NothingMoves ==
    ASSUME UNCHANGED <<q, todo, hand, fate>>, NEW m
    PROVE  Keeps(m)
  BY DEF Keeps, NoPlace, OnePlace, InTodo, InQueue, InHand, Ended

-----------------------------------------------------------------------------
(* Steps                                                                    *)

\* PlaceInv from one message to all of them.
LEMMA PlacesKept ==
    ASSUME PlaceInv, UNCHANGED sent, \A m \in Log : Keeps(m)
    PROVE  PlaceInv'
<1> SUFFICES ASSUME NEW p \in Producers, NEW n \in 1 .. MaxLogs
             PROVE  IF n <= sent[p] THEN OnePlace(<<"log", p, n>>)'
                    ELSE NoPlace(<<"log", p, n>>)'
  BY DEF PlaceInv
<1>1. Keeps(<<"log", p, n>>)
  BY DEF Log
<1> QED
  BY <1>1 DEF PlaceInv, Keeps

\* Clients outside the queue have nothing to post.
LEMMA ClientGoesOut ==
    ASSUME TypeInv, HandsInv, NEW c \in Clients, NEW at \in Standing,
           pc' = [pc EXCEPT ![c] = at], UNCHANGED todo, todo[c] = NoItem
    PROVE  \A d \in Clients : pc'[d] \notin {"enqueue", "wait_pop"} => todo'[d] = NoItem
  BY DEF TypeInv, HandsInv

\* ... nor once the message is in the queue or discarded ...
LEMMA ClientGivesUp ==
    ASSUME TypeInv, HandsInv, NEW c \in Clients, NEW at \in Standing,
           pc' = [pc EXCEPT ![c] = at], todo' = [todo EXCEPT ![c] = NoItem]
    PROVE  \A d \in Clients : pc'[d] \notin {"enqueue", "wait_pop"} => todo'[d] = NoItem
  BY DEF TypeInv, HandsInv

\* ... until they come with a new one.
LEMMA ClientComesIn ==
    ASSUME TypeInv, HandsInv, NEW c \in Clients, NEW m,
           pc' = [pc EXCEPT ![c] = "enqueue"], todo' = [todo EXCEPT ![c] = m]
    PROVE  \A d \in Clients : pc'[d] \notin {"enqueue", "wait_pop"} => todo'[d] = NoItem
  BY DEF TypeInv, HandsInv

\* Where Drop leaves the client.
LEMMA DropStands ==
    ASSUME NEW c \in Clients, NEW holder, Drop(c, holder)
    PROVE  \E at \in Standing \ {"enqueue", "wait_pop"} : pc' = [pc EXCEPT ![c] = at]
<1>1. Back(c) \in Standing \ {"enqueue", "wait_pop"}
  BY BackIsStanding
<1> QED
  BY <1>1 DEF Drop, Standing

\* A client in the queue and at the end of a call.
LEMMA ClientStepKeepsPlaces ==
    ASSUME IInv, NEW c \in Clients, ClientStep(c)
    PROVE  HandsInv' /\ \A m \in Log : Keeps(m)
<1>1. /\ TypeInv /\ HandsInv
      /\ pc[c] \in {"enqueue", "wait_pop"} => todo[c] \in Item
      /\ pc[c] \notin {"enqueue", "wait_pop"} => todo[c] = NoItem
  BY DEF IInv, TypeInv, HandsInv
<1> DEFINE outside == \A d \in Clients : pc[d] \notin {"enqueue", "wait_pop"} => todo[d] = NoItem
<1>2. UNCHANGED hand /\ (UNCHANGED wpc \/ NotifyPush(c))
  BY DEF ClientStep, Enqueue, EnqueueNowait, EnqueueIfHaveRoom, NotifyPush, StopThread, Join,
         workerVars
<1>3. ASSUME Push(todo[c]), pc[c] = "enqueue", pc' = [pc EXCEPT ![c] = "notify"],
             todo' = [todo EXCEPT ![c] = NoItem], UNCHANGED wpc
      PROVE  HandsInv' /\ \A m \in Log : Keeps(m)
  <2>1. outside'
    BY <1>1, <1>3, ClientGivesUp DEF Standing
  <2>2. \A m \in Log : Keeps(m)
    BY <1>1, <1>2, <1>3, PushKeeps
  <2>3. fate' \in [Fates -> SUBSET Something]
    <3>1. CASE Full(q)
      <4>1. QueueSize \in Nat \ {0} /\ q \in QOf(QueueSize, Something) /\ NoItem \in Something
        BY <1>1, AsyncAssumption DEF TypeInv, Something
      <4>2. Items(q) \in Seq(Something) /\ ~ IsEmpty(q)
        BY <3>1, <4>1, ItemsFacts, SizeFacts
      <4>3. Items(q) # <<>> /\ Front(q) = Head(Items(q))
        BY <4>1, <4>2, PopFrontFacts, MoveFrontFacts
      <4>4. Front(q) \in Something
        BY <4>2, <4>3
      <4> QED
        BY <1>1, <1>3, <3>1, <4>4 DEF Push, Become, HandsInv, Fates
    <3>2. CASE ~ Full(q)
      BY <1>1, <1>3, <3>2 DEF Push, HandsInv
    <3> QED
      BY <3>1, <3>2
  <2> QED
    BY <1>1, <1>2, <1>3, <2>1, <2>2, <2>3 DEF HandsInv
<1>4. ASSUME UNCHANGED <<q, fate>>, UNCHANGED todo, outside',
             UNCHANGED wpc \/ NotifyPush(c)
      PROVE  HandsInv' /\ \A m \in Log : Keeps(m)
  <2>1. \A m \in Log : Keeps(m)
    BY <1>2, <1>4, NothingMoves
  <2>2. CASE UNCHANGED wpc
    BY <1>1, <1>2, <1>4, <2>1, <2>2 DEF HandsInv
  <2>3. CASE \E w \in Workers : wpc[w] = "wait_push" /\ wpc' = [wpc EXCEPT ![w] = "dequeue"]
    BY <1>1, <1>2, <1>4, <2>1, <2>3 DEF HandsInv
  <2> QED
    BY <1>4, <2>2, <2>3 DEF NotifyPush
<1>5. CASE Enqueue(c)
  <2>1. UNCHANGED wpc /\ pc[c] = "enqueue"
    BY <1>5 DEF Enqueue, workerVars
  <2>2. CASE Full(q) /\ pc' = [pc EXCEPT ![c] = "wait_pop"] /\ UNCHANGED <<queueVars, todo>>
    <3>1. outside'
      BY <1>1, <2>1, <2>2 DEF HandsInv, TypeInv
    <3> QED
      BY <1>4, <2>1, <2>2, <3>1 DEF queueVars
  <2>3. CASE Push(todo[c]) /\ pc' = [pc EXCEPT ![c] = "notify"] /\ todo' = [todo EXCEPT ![c] = NoItem]
    BY <1>3, <2>1, <2>3
  <2> QED
    BY <1>5, <2>2, <2>3 DEF Enqueue
<1>6. CASE EnqueueNowait(c)
  BY <1>3, <1>6 DEF EnqueueNowait, workerVars
<1>7. CASE EnqueueIfHaveRoom(c)
  <2>1. UNCHANGED wpc /\ pc[c] = "enqueue" /\ todo' = [todo EXCEPT ![c] = NoItem]
    BY <1>7 DEF EnqueueIfHaveRoom, workerVars
  <2>2. CASE Push(todo[c]) /\ pc' = [pc EXCEPT ![c] = "notify"]
    BY <1>3, <2>1, <2>2
  <2>3. CASE Become(todo[c], "discarded") /\ Drop(c, c) /\ UNCHANGED q
    <3>1. outside'
      <4>1. PICK at \in Standing : pc' = [pc EXCEPT ![c] = at]
        BY <2>3, DropStands
      <4> QED
        BY <1>1, <2>1, <4>1, ClientGivesUp
    <3>2. todo[c] \in Item
      BY <1>1, <2>1
    <3>3. \A m \in Log : Keeps(m)
      BY <1>1, <1>2, <2>1, <2>3, <3>2, DiscardKeeps
    <3>4. fate' \in [Fates -> SUBSET Something]
      BY <1>1, <2>3, <3>2 DEF Become, HandsInv, Fates, Something
    <3> QED
      BY <1>1, <1>2, <2>1, <3>1, <3>3, <3>4 DEF HandsInv
  <2> QED
    BY <1>7, <2>2, <2>3 DEF EnqueueIfHaveRoom
<1>8. CASE NotifyPush(c)
  <2>1. UNCHANGED <<q, fate, todo>> /\ todo[c] = NoItem
    BY <1>1, <1>8 DEF NotifyPush, queueVars
  <2>2. PICK at \in Standing : pc' = [pc EXCEPT ![c] = at]
    <3>1. CASE Drop(c, c)
      BY <3>1, DropStands
    <3>2. CASE pc' = [pc EXCEPT ![c] = IF toStop = 0 THEN "join" ELSE "stop"]
      BY <3>2 DEF Standing
    <3> QED
      BY <1>8, <3>1, <3>2 DEF NotifyPush
  <2>3. outside'
    BY <1>1, <2>1, <2>2, ClientGoesOut
  <2> QED
    BY <1>4, <1>8, <2>1, <2>3
<1>9. CASE StopThread(c)
  <2>1. /\ UNCHANGED <<q, fate, wpc>> /\ pc[c] \notin {"enqueue", "wait_pop"}
        /\ pc' = [pc EXCEPT ![c] = "enqueue"] /\ todo' = [todo EXCEPT ![c] = Terminate]
    BY <1>9 DEF StopThread, queueVars, workerVars
  <2>2. outside'
    BY <1>1, <2>1, ClientComesIn
  <2>3. \A m \in Log : Keeps(m)
    BY <1>1, <1>2, <2>1, OtherTodoKeeps, LogIsNoOther
  <2> QED
    BY <1>1, <1>2, <2>1, <2>2, <2>3 DEF HandsInv
<1>10. CASE Join(c)
  <2>1. /\ UNCHANGED <<q, fate, todo, wpc>> /\ todo[c] = NoItem
        /\ pc' = [pc EXCEPT ![c] = Back(c)]
    BY <1>1, <1>10 DEF Join, queueVars, workerVars
  <2>2. outside'
    BY <1>1, <2>1, ClientGoesOut, BackIsStanding
  <2> QED
    BY <1>4, <2>1, <2>2
<1> QED
  BY <1>5, <1>6, <1>7, <1>8, <1>9, <1>10 DEF ClientStep

\* A thread of the pool.
LEMMA WorkerStepKeepsPlaces ==
    ASSUME IInv, NEW w \in Workers, WorkerStep(w)
    PROVE  HandsInv' /\ \A m \in Log : Keeps(m)
<1>1. TypeInv /\ HandsInv /\ NoItem \in Something
  BY DEF IInv, Something
<1>2. CASE Dequeue(w)
  <2>1. UNCHANGED <<pc, todo, fate>> /\ wpc[w] = "dequeue"
    BY <1>2 DEF Dequeue
  <2>2. CASE wpc' = [wpc EXCEPT ![w] = "wait_push"] /\ UNCHANGED <<q, hand>>
    <3>1. \A m \in Log : Keeps(m)
      BY <2>1, <2>2, NothingMoves
    <3> QED
      BY <1>1, <2>1, <2>2, <3>1 DEF HandsInv
  <2>3. CASE /\ ~ IsEmpty(q) /\ q' = PopFront(MoveFront(q))
             /\ hand' = [hand EXCEPT ![w] = Front(q)] /\ wpc' = [wpc EXCEPT ![w] = "notify"]
    <3>1. \A m \in Log : Keeps(m)
      BY <1>1, <2>1, <2>3, TakeKeeps
    <3>2. Front(q) \in Something
      <4>1. QueueSize \in Nat /\ q \in QOf(QueueSize, Something)
        BY <1>1, AsyncAssumption DEF TypeInv, Something
      <4>2. Items(q) \in Seq(Something) /\ Items(q) # <<>> /\ Front(q) = Head(Items(q))
        BY <1>1, <2>3, <4>1, ItemsFacts, PopFrontFacts, MoveFrontFacts
      <4> QED
        BY <4>2
    <3> QED
      BY <1>1, <2>1, <2>3, <3>1, <3>2 DEF HandsInv
  <2> QED
    BY <1>2, <2>2, <2>3 DEF Dequeue
<1>3. CASE NotifyPop(w)
  <2>1. UNCHANGED <<q, todo, hand, fate>> /\ wpc' = [wpc EXCEPT ![w] = "process"]
    BY <1>3 DEF NotifyPop, queueVars
  <2>2. \A m \in Log : Keeps(m)
    BY <2>1, NothingMoves
  <2>3. UNCHANGED pc \/ \E c \in Clients : pc[c] = "wait_pop" /\ pc' = [pc EXCEPT ![c] = "enqueue"]
    BY <1>3 DEF NotifyPop
  <2> QED
    BY <1>1, <2>1, <2>2, <2>3 DEF HandsInv, TypeInv
<1>4. CASE Process(w)
  <2>1. /\ UNCHANGED <<q, pc, todo>> /\ hand' = [hand EXCEPT ![w] = NoItem]
        /\ \E at \in {"dequeue", "done"} : wpc' = [wpc EXCEPT ![w] = at]
    BY <1>4 DEF Process
  <2>2. \A m \in Log : Keeps(m)
    BY <1>1, <1>4, ProcessKeeps
  <2>3. fate' \in [Fates -> SUBSET Something]
    BY <1>1, <1>4 DEF Process, Become, HandsInv, Fates, Something
  <2> QED
    BY <1>1, <2>1, <2>2, <2>3 DEF HandsInv
<1> QED
  BY <1>2, <1>3, <1>4 DEF WorkerStep

\* The flusher, the main thread and wake-ups without a cause move no log message.
LEMMA OtherStepsKeepPlaces ==
    ASSUME IInv, FlusherStep \/ StartRound \/ MainStep \/ SetTp \/ Shutdown \/ Spurious
    PROVE  HandsInv' /\ UNCHANGED sent /\ \A m \in Log : Keeps(m)
<1> DEFINE outside == \A d \in Clients : pc[d] \notin {"enqueue", "wait_pop"} => todo[d] = NoItem
<1>1. TypeInv /\ HandsInv /\ Flusher \in Clients /\ Main \in Clients
  BY DEF IInv, Clients
<1>2. UNCHANGED <<q, hand, fate, sent>>
  BY DEF FlusherStep, FlushLogger, EndRound, StopWorking, StartRound, MainStep, StopFlusher, DropAll,
         ResetTp, SetTp, Shutdown, Spurious, Post, queueVars, workerVars
<1>3. ASSUME UNCHANGED <<todo, wpc>>, NEW c \in Clients, pc[c] \notin {"enqueue", "wait_pop"},
             NEW at \in Standing, pc' = [pc EXCEPT ![c] = at]
      PROVE  HandsInv' /\ \A m \in Log : Keeps(m)
  <2>1. outside'
    BY <1>1, <1>3, ClientGoesOut DEF HandsInv
  <2>2. \A m \in Log : Keeps(m)
    BY <1>2, <1>3, NothingMoves
  <2> QED
    BY <1>1, <1>2, <1>3, <2>1, <2>2 DEF HandsInv
<1>4. CASE FlushLogger
  <2>1. PICK l \in toFlush : Post(Flusher, <<"flush", l>>, Policy[l]) \/ UNCHANGED <<pc, todo>>
    BY <1>4 DEF FlushLogger
  <2>2. UNCHANGED wpc /\ pc[Flusher] = "flush_all"
    BY <1>4 DEF FlushLogger, workerVars
  <2>3. CASE Post(Flusher, <<"flush", l>>, Policy[l])
    <3>1. /\ pc' = [pc EXCEPT ![Flusher] = "enqueue"]
          /\ todo' = [todo EXCEPT ![Flusher] = <<"flush", l>>]
      BY <2>3 DEF Post
    <3>2. outside'
      BY <1>1, <3>1, ClientComesIn
    <3>3. \A m \in Log : m # <<"flush", l>>
      <4>1. l \in Loggers
        BY <1>1, <2>1 DEF TypeInv
      <4> QED
        BY <4>1, LogIsNoOther DEF Flush
    <3>4. \A m \in Log : Keeps(m)
      BY <1>1, <1>2, <2>2, <3>1, <3>3, OtherTodoKeeps
    <3> QED
      BY <1>1, <1>2, <2>2, <3>2, <3>4 DEF HandsInv
  <2>4. CASE UNCHANGED <<pc, todo>>
    <3>1. \A m \in Log : Keeps(m)
      BY <1>2, <2>4, NothingMoves
    <3> QED
      BY <1>1, <1>2, <2>2, <2>4, <3>1 DEF HandsInv
  <2> QED
    BY <1>2, <2>1, <2>3, <2>4
<1>5. CASE EndRound \/ StopWorking \/ StartRound
  <2>1. /\ UNCHANGED <<todo, wpc>> /\ pc[Flusher] \in {"flush_all", "idle"}
        /\ \E at \in {"idle", "done", "flush_all"} : pc' = [pc EXCEPT ![Flusher] = at]
    BY <1>5 DEF EndRound, StopWorking, StartRound, workerVars
  <2> QED
    BY <1>1, <1>2, <1>3, <2>1 DEF Standing
<1>6. CASE MainStep \/ SetTp \/ Shutdown
  <2>1. /\ UNCHANGED <<todo, wpc>>
        /\ pc[Main] \in {"shutdown", "join_flusher", "reset_tp", "idle"}
    BY <1>6 DEF MainStep, StopFlusher, DropAll, ResetTp, SetTp, Shutdown, workerVars
  <2>2. PICK at \in Standing : pc' = [pc EXCEPT ![Main] = at]
    <3>1. CASE Drop(Main, Registry)
      BY <1>1, <3>1, DropStands
    <3>2. CASE \E at \in {"shutdown", "join_flusher", "reset_tp", "done"} :
                  pc' = [pc EXCEPT ![Main] = at]
      BY <3>2 DEF Standing
    <3> QED
      BY <1>6, <3>1, <3>2 DEF MainStep, StopFlusher, DropAll, ResetTp, SetTp, Shutdown
  <2> QED
    BY <1>1, <1>2, <1>3, <2>1, <2>2
<1>7. CASE Spurious
  <2>1. UNCHANGED todo
    BY <1>7 DEF Spurious
  <2>2. \A m \in Log : Keeps(m)
    BY <1>2, <2>1, NothingMoves
  <2>3. \/ /\ UNCHANGED wpc
           /\ \E c \in Clients : pc[c] = "wait_pop" /\ pc' = [pc EXCEPT ![c] = "enqueue"]
        \/ /\ UNCHANGED pc
           /\ \E w \in Workers : wpc[w] = "wait_push" /\ wpc' = [wpc EXCEPT ![w] = "dequeue"]
    BY <1>7 DEF Spurious, SpuriousWakeup
  <2> QED
    BY <1>1, <1>2, <2>1, <2>2, <2>3 DEF HandsInv, TypeInv
<1> QED
  BY <1>4, <1>5, <1>6, <1>7 DEF FlusherStep

\* A new log message: the client has it, or it is refused.
LEMMA LogCallPlaces ==
    ASSUME IInv, NEW p \in Producers, LogCall(p)
    PROVE  HandsInv' /\ PlaceInv'
<1>0. PICK k : k = sent[p] + 1
  OBVIOUS
<1> DEFINE e == <<"log", p, k>>
           outside == \A d \in Clients : pc[d] \notin {"enqueue", "wait_pop"} => todo[d] = NoItem
<1>1. /\ TypeInv /\ HandsInv /\ PlaceInv /\ p \in Clients /\ pc[p] = "idle" /\ todo[p] = NoItem
      /\ k \in 1 .. MaxLogs /\ sent' = [sent EXCEPT ![p] = k]
      /\ UNCHANGED <<q, wpc, hand>>
  <2>1. sent[p] \in Nat /\ sent[p] < MaxLogs /\ MaxLogs \in Nat
    BY AsyncAssumption DEF IInv, TypeInv, LogCall
  <2> QED
    BY <1>0, <2>1 DEF IInv, HandsInv, LogCall, Clients, workerVars
<1>2. e \in Log /\ e \in Something /\ NoPlace(e)
  <2>1. ~ k <= sent[p]
    BY <1>0, <1>1, AsyncAssumption DEF TypeInv
  <2> QED
    BY <1>1, <2>1 DEF PlaceInv, Log, Item, Something
<1>3. /\ HandsInv'
      /\ OnePlace(e)'
      /\ \A m \in Log \ {e} : Keeps(m)
  <2> HIDE DEF e
  <2>1. CASE Post(p, e, Policy[LoggerOf[p]])
    <3>1. /\ pc' = [pc EXCEPT ![p] = "enqueue"] /\ todo' = [todo EXCEPT ![p] = e]
          /\ UNCHANGED fate
      BY <2>1 DEF Post
    <3>2. outside'
      BY <1>1, <3>1, ClientComesIn
    <3>3. \A m \in Log \ {e} : Keeps(m)
      BY <1>1, <3>1, OtherTodoKeeps
    <3>4. OnePlace(e)'
      <4>1. InQueue(e)' = InQueue(e) /\ InHand(e)' = InHand(e) /\ Ended(e)' = Ended(e)
        BY <1>1, <3>1 DEF InQueue, InHand, Ended
      <4>2. InTodo(e)' = {p}
        BY <1>1, <1>2, <3>1 DEF NoPlace, InTodo, TypeInv
      <4> QED
        BY <1>2, <4>1, <4>2 DEF NoPlace, OnePlace, Lone
    <3> QED
      BY <1>1, <3>1, <3>2, <3>3, <3>4 DEF HandsInv
  <2>2. CASE Refuse(e)
    <3>1. Become(e, "refused") /\ UNCHANGED <<pc, todo>>
      BY <2>2 DEF Refuse
    <3>2. ASSUME NEW m
          PROVE  InQueue(m)' = InQueue(m) /\ InHand(m)' = InHand(m) /\ InTodo(m)' = InTodo(m)
      BY <1>1, <3>1 DEF InQueue, InHand, InTodo
    <3>3. \A m \in Log \ {e} : Keeps(m)
      <4>1. \A m \in Log \ {e} : Ended(m)' = Ended(m)
        BY <1>1, <3>1, BecomeEnds DEF Fates
      <4> QED
        BY <3>2, <4>1 DEF Keeps, NoPlace, OnePlace
    <3>4. OnePlace(e)'
      <4>1. Ended(e)' = {"refused"}
        BY <1>1, <1>2, <3>1, BecomeEnds DEF Fates, NoPlace
      <4> QED
        BY <1>2, <3>2, <4>1 DEF NoPlace, OnePlace, Lone
    <3>5. fate' \in [Fates -> SUBSET Something]
      BY <1>1, <1>2, <3>1 DEF Become, HandsInv, Fates
    <3> QED
      BY <1>1, <3>1, <3>3, <3>4, <3>5 DEF HandsInv
  <2>3. Post(p, e, Policy[LoggerOf[p]]) \/ Refuse(e)
    BY <1>0 DEF LogCall, e
  <2> QED
    BY <2>1, <2>2, <2>3
<1>4. ASSUME NEW r \in Producers, NEW n \in 1 .. MaxLogs
      PROVE  IF n <= sent'[r] THEN OnePlace(<<"log", r, n>>)' ELSE NoPlace(<<"log", r, n>>)'
  <2> DEFINE m == <<"log", r, n>>
  <2>1. m \in Log
    BY DEF Log
  <2>2. CASE m = e
    <3>1. r = p /\ n = k
      BY <2>2
    <3>2. n <= sent'[r]
      BY <1>1, <3>1 DEF TypeInv
    <3> QED
      BY <1>3, <2>2, <3>2
  <2>3. CASE m # e
    <3>1. n <= sent'[r] <=> n <= sent[r]
      <4>1. CASE r = p
        <5>1. n # k
          BY <2>3, <4>1
        <5>2. sent'[r] = sent[p] + 1 /\ sent[p] \in Nat /\ n \in Nat
          BY <1>0, <1>1, <4>1, AsyncAssumption DEF TypeInv
        <5> QED
          BY <1>0, <4>1, <5>1, <5>2
      <4>2. CASE r # p
        BY <1>1, <4>2 DEF TypeInv
      <4> QED
        BY <4>1, <4>2
    <3>2. Keeps(m)
      BY <1>3, <2>1, <2>3
    <3>3. IF n <= sent[r] THEN OnePlace(m) ELSE NoPlace(m)
      BY <1>1 DEF PlaceInv
    <3> QED
      BY <3>1, <3>2, <3>3 DEF Keeps
  <2> QED
    BY <2>2, <2>3
<1> QED
  BY <1>3, <1>4 DEF PlaceInv

-----------------------------------------------------------------------------
\* Nothing is anywhere before the first log call.
LEMMA InitPlaces == Init => IInv
<1> SUFFICES ASSUME Init PROVE IInv
  OBVIOUS
<1>1. TypeInv
  BY InitTypeInv
<1>2. HandsInv
  BY DEF Init, HandsInv, Something, Fates
<1>3. ASSUME NEW p \in Producers, NEW n \in 1 .. MaxLogs
      PROVE  ~ n <= sent[p] /\ NoPlace(<<"log", p, n>>)
  <2>1. <<"log", p, n>> # NoItem
    BY LogIsNoOther DEF Log
  <2>2. Items(q) = <<>>
    <3>1. QueueSize \in Nat /\ NoItem \in Something
      BY AsyncAssumption DEF Something
    <3> QED
      BY <3>1, NewQFacts DEF Init
  <2>3. InTodo(<<"log", p, n>>) = {} /\ InHand(<<"log", p, n>>) = {} /\ Ended(<<"log", p, n>>) = {}
    BY <2>1 DEF Init, InTodo, InHand, Ended
  <2>4. InQueue(<<"log", p, n>>) = {}
    BY <2>2 DEF InQueue, At
  <2>5. ~ n <= sent[p]
    BY DEF Init
  <2> QED
    BY <2>3, <2>4, <2>5 DEF NoPlace
<1> QED
  BY <1>1, <1>2, <1>3 DEF IInv, PlaceInv

\* Every step keeps the invariant.
LEMMA StepPlaces == IInv /\ [Next]_vars => IInv'
<1> SUFFICES ASSUME IInv, [Next]_vars PROVE IInv'
  OBVIOUS
<1>1. TypeInv'
  BY StepImplements DEF IInv
<1>2. ASSUME HandsInv', UNCHANGED sent, \A m \in Log : Keeps(m)
      PROVE  IInv'
  BY <1>1, <1>2, PlacesKept DEF IInv
<1>3. ASSUME NEW p \in Producers, LogCall(p)
      PROVE  IInv'
  BY <1>1, <1>3, LogCallPlaces DEF IInv
<1>4. ASSUME NEW c \in Clients, ClientStep(c)
      PROVE  IInv'
  <2>1. UNCHANGED sent
    BY <1>4 DEF ClientStep, Enqueue, EnqueueNowait, EnqueueIfHaveRoom, NotifyPush, StopThread, Join
  <2> QED
    BY <1>2, <1>4, <2>1, ClientStepKeepsPlaces
<1>5. ASSUME NEW w \in Workers, WorkerStep(w)
      PROVE  IInv'
  <2>1. UNCHANGED sent
    BY <1>5 DEF WorkerStep, Dequeue, NotifyPop, Process
  <2> QED
    BY <1>2, <1>5, <2>1, WorkerStepKeepsPlaces
<1>6. CASE FlusherStep \/ StartRound \/ MainStep \/ SetTp \/ Shutdown \/ Spurious
  BY <1>2, <1>6, OtherStepsKeepPlaces
<1>7. CASE UNCHANGED vars
  <2>1. UNCHANGED <<q, todo, hand, fate, sent, pc, wpc>>
    BY <1>7 DEF vars
  <2>2. HandsInv'
    BY <2>1 DEF IInv, HandsInv
  <2>3. \A m \in Log : Keeps(m)
    BY <2>1, NothingMoves
  <2> QED
    BY <1>2, <2>1, <2>2, <2>3
<1> QED
  BY <1>3, <1>4, <1>5, <1>6, <1>7 DEF Next

\* One place is counted once.
LEMMA PlacesCounted ==
    ASSUME NEW m
    PROVE  (OnePlace(m) => Places(m) = 1) /\ (NoPlace(m) => Places(m) = 0)
<1>1. Places(m) = Cardinality(InTodo(m)) + Cardinality(InQueue(m)) + Cardinality(InHand(m))
                  + Cardinality(Ended(m))
  BY DEF Places, InTodo, InQueue, At, InHand, Ended
<1>2. Cardinality({}) = 0 /\ \A A : Lone(A) => Cardinality(A) = 1
  BY FS_EmptySet, FS_Singleton DEF Lone
<1> QED
  BY <1>1, <1>2 DEF OnePlace, NoPlace

\* thread_pool and mpmc_blocking_queue lose no message and write none twice, through
\* overruns, discards, errors of sinks and the end of the pool.
THEOREM EveryMessageHasOneFate == Spec => []OneFate
<1>1. IInv => OneFate
  BY PlacesCounted DEF IInv, PlaceInv, OneFate
<1> QED
  BY <1>1, InitPlaces, StepPlaces, PTL DEF Spec

-----------------------------------------------------------------------------
(* III. The end of the pool                                                 *)

Inside == {"enqueue", "wait_pop", "notify"}
Ending == Inside \cup {"stop", "join"}

Entering == {c \in Clients : pc[c] \in {"enqueue", "wait_pop"}}
Stopped  == {w \in Workers : hand[w] = Terminate \/ wpc[w] = "done"}
Pending  == toStop + IF Entering = {} THEN 0 ELSE 1

\* The last k elements of s, and no others, are terminate messages.
Suffix(s, k) ==
    /\ k \in 0 .. Len(s)
    /\ \A i \in 1 .. Len(s) : s[i] = Terminate <=> i > Len(s) - k

\* While somebody holds the pool.
InUse ==
    /\ ~ gone
    /\ \A c \in Clients : c \in holders <=> pc[c] \in Ending
    /\ \A c \in Clients : pc[c] \notin {"stop", "join"}
    /\ \A c \in Clients : todo[c] # Terminate
    /\ Suffix(Items(q), 0) /\ Stopped = {}

\* In ~thread_pool.
Counted(k) ==
    /\ Suffix(Items(q), k)
    /\ k + Cardinality(Stopped) + Pending = Cardinality(Workers)
    /\ Pending < Cardinality(Workers) /\ Items(q) # <<>> => k > 0

Stopping ==
    /\ ~ gone
    /\ \A c, d \in Clients : pc[c] \in Ending /\ pc[d] \in Ending => c = d
    /\ \A c \in Clients : pc[c] \in {"enqueue", "wait_pop"} => todo[c] = Terminate /\ how[c] = "block"
    /\ \A c \in Clients : pc[c] = "stop" => toStop > 0
    /\ \A c \in Clients : pc[c] = "join" => toStop = 0
    /\ toStop \in Nat
    /\ \E k \in Nat : Counted(k)

Drained ==
    /\ gone
    /\ Items(q) = <<>>
    /\ \A w \in Workers : wpc[w] = "done"
    /\ \A c \in Clients : pc[c] \notin Ending

PoolInv ==
    /\ DOMAIN how = Clients
    /\ holders \subseteq Clients \cup {Registry}
    /\ holders # {} => InUse
    /\ holders = {} => Stopping \/ Drained

-----------------------------------------------------------------------------
(* Terminate messages in the queue                                          *)

\* A number up to n that is not n.
LEMMA BelowTop ==
    ASSUME NEW n \in Nat \ {0}, NEW k \in 0 .. n, k # n
    PROVE  k \in 0 .. n - 1
  OBVIOUS

\* A push behind them ...
LEMMA SuffixAppend ==
    ASSUME NEW S, NEW s \in Seq(S), NEW e \in S, NEW k, Suffix(s, k)
    PROVE  /\ e = Terminate => Suffix(Append(s, e), k + 1)
           /\ e # Terminate /\ k = 0 => Suffix(Append(s, e), 0)
<1>1. /\ Len(s) \in Nat /\ Len(Append(s, e)) = Len(s) + 1
      /\ Append(s, e)[Len(s) + 1] = e
      /\ \A i \in 1 .. Len(s) : Append(s, e)[i] = s[i]
  OBVIOUS
<1> QED
  BY <1>1 DEF Suffix

\* ... and a pop before them.
LEMMA SuffixTail ==
    ASSUME NEW S, NEW s \in Seq(S), s # <<>>, NEW k, Suffix(s, k)
    PROVE  /\ Head(s) = Terminate => k > 0 /\ Suffix(Tail(s), k - 1)
           /\ Head(s) # Terminate => Suffix(Tail(s), k)
           /\ Head(s) = Terminate /\ Tail(s) # <<>> => k > 1
<1>1. /\ Len(s) \in Nat \ {0} /\ Len(Tail(s)) = Len(s) - 1 /\ Head(s) = s[1]
      /\ \A i \in 1 .. Len(s) - 1 : Tail(s)[i] = s[i + 1]
      /\ Tail(s) # <<>> => Len(s) > 1
  OBVIOUS
<1>2. k \in 0 .. Len(s) /\ \A i \in 1 .. Len(s) : s[i] = Terminate <=> i > Len(s) - k
  BY DEF Suffix
<1>3. Head(s) = Terminate <=> k = Len(s)
  <2>1. s[1] = Terminate <=> 1 > Len(s) - k
    BY <1>1, <1>2
  <2>2. Head(s) = s[1]
    BY <1>1
  <2>3. 1 > Len(s) - k <=> k = Len(s)
    <3>1. k \in 0 .. Len(s) /\ Len(s) \in Nat
      BY <1>1, <1>2
    <3> QED
      BY <3>1
  <2> QED
    BY <2>1, <2>2, <2>3
<1>4. ASSUME NEW i \in 1 .. Len(Tail(s))
      PROVE  Tail(s)[i] = Terminate <=> i + 1 > Len(s) - k
  <2>1. i + 1 \in 1 .. Len(s) /\ Tail(s)[i] = s[i + 1]
    BY <1>1
  <2> QED
    BY <1>2, <2>1
<1>5. ASSUME k = Len(s)
      PROVE  k > 0 /\ Suffix(Tail(s), k - 1) /\ (Tail(s) # <<>> => k > 1)
  <2>1. k > 0 /\ k - 1 \in 0 .. Len(Tail(s)) /\ (Tail(s) # <<>> => k > 1)
    BY <1>1, <1>5
  <2>2. ASSUME NEW i \in 1 .. Len(Tail(s))
        PROVE  Tail(s)[i] = Terminate <=> i > Len(Tail(s)) - (k - 1)
    <3>1. Len(s) \in Nat \ {0} /\ Len(Tail(s)) = Len(s) - 1 /\ k = Len(s)
      BY <1>1, <1>5
    <3>2. Tail(s)[i] = Terminate <=> i + 1 > Len(s) - k
      BY <1>4
    <3>3. i \in Nat \ {0}
      OBVIOUS
    <3> QED
      BY <3>1, <3>2, <3>3
  <2> QED
    BY <2>1, <2>2 DEF Suffix
<1>6. ASSUME k # Len(s)
      PROVE  Suffix(Tail(s), k)
  <2>1. k \in 0 .. Len(Tail(s))
    <3>1. k \in 0 .. Len(s) /\ Len(s) \in Nat \ {0} /\ Len(Tail(s)) = Len(s) - 1
      BY <1>1, <1>2, Zenon
    <3>2. k \in 0 .. Len(s) - 1
      BY <1>6, <3>1, BelowTop, Zenon
    <3> QED
      BY <3>1, <3>2, Zenon
  <2>2. ASSUME NEW i \in 1 .. Len(Tail(s))
        PROVE  Tail(s)[i] = Terminate <=> i > Len(Tail(s)) - k
    <3>1. Len(s) \in Nat \ {0} /\ Len(Tail(s)) = Len(s) - 1 /\ k \in Nat
      BY <1>1, <1>2
    <3>2. Tail(s)[i] = Terminate <=> i + 1 > Len(s) - k
      BY <1>4
    <3>3. i \in Nat \ {0}
      OBVIOUS
    <3> QED
      BY <3>1, <3>2, <3>3
  <2> QED
    BY <2>1, <2>2 DEF Suffix
<1> QED
  BY <1>3, <1>5, <1>6

\* A flush request is no terminate message.
LEMMA FlushIsNotTerminate ==
    ASSUME NEW m \in Flush
    PROVE  m # Terminate
<1>1. m[1] = "flush" /\ Terminate[1] = "terminate"
  BY DEF Flush, Terminate
<1> QED
  BY <1>1

\* What PushBackFacts and MoveFrontFacts say of the queue of the pool.
LEMMA ItemsOfPool ==
    ASSUME TypeInv
    PROVE  /\ Items(q) \in Seq(Something)
           /\ IsEmpty(q) <=> Items(q) = <<>>
           /\ Full(q) => Items(q) # <<>>
<1>1. QueueSize \in Nat \ {0} /\ q \in QOf(QueueSize, Something)
  BY AsyncAssumption DEF TypeInv, Something
<1>2. Items(q) \in Seq(Something) /\ Len(Items(q)) = Size(q)
  BY <1>1, ItemsFacts
<1>3. (IsEmpty(q) <=> Size(q) = 0) /\ (Full(q) <=> Size(q) = QueueSize)
  BY <1>1, SizeFacts
<1> QED
  BY <1>1, <1>2, <1>3

\* push_back.
LEMMA PushOfPool ==
    ASSUME TypeInv, NEW m \in Item, Push(m)
    PROVE  /\ ~ Full(q) => Items(q)' = Append(Items(q), m)
           /\ Full(q) => Items(q)' = Tail(Append(Items(q), m))
<1>1. QueueSize \in Nat /\ q \in QOf(QueueSize, Something) /\ m \in Something
  BY AsyncAssumption DEF TypeInv, Something
<1>2. Items(q)' = Items(PushBack(q, m))
  BY DEF Push
<1> QED
  BY <1>1, <1>2, PushBackFacts

\* front and pop_front.
LEMMA TakeOfPool ==
    ASSUME TypeInv, ~ IsEmpty(q), q' = PopFront(MoveFront(q))
    PROVE  Items(q) # <<>> /\ Front(q) = Head(Items(q)) /\ Items(q)' = Tail(Items(q))
<1>1. QueueSize \in Nat /\ q \in QOf(QueueSize, Something) /\ NoItem \in Something
  BY AsyncAssumption DEF TypeInv, Something
<1>2. Items(q)' = Items(PopFront(MoveFront(q)))
  OBVIOUS
<1> QED
  BY <1>1, <1>2, PopFrontFacts, MoveFrontFacts

-----------------------------------------------------------------------------
(* Holders of the pool                                                      *)

\* A client whose call has ended is outside the pool.
LEMMA BackIsOutside ==
    ASSUME NEW c \in Clients
    PROVE  Back(c) \in Standing \ Ending
  BY AsyncAssumption DEF Back, Clients, Standing, Ending, Inside

\* A call ends: the pool is still held by others, or ~thread_pool begins.
LEMMA DropOfPool ==
    ASSUME IInv, PoolInv, NEW c \in Clients, NEW holder \in holders, Drop(c, holder),
           holder = c \/ (holder = Registry /\ pc[c] \notin Ending),
           UNCHANGED <<how, gone>>, Stopped' = Stopped,
           \A d \in Clients : todo'[d] # Terminate,
           Suffix(Items(q), 0)'
    PROVE  PoolInv'
<1>1. InUse /\ TypeInv /\ holders' = holders \ {holder} /\ holders \subseteq Clients \cup {Registry}
  BY DEF PoolInv, IInv, Drop
<1>2. Stopped' = {}
  BY <1>1 DEF InUse, Stopped
<1>3. Back(c) \in Standing \ Ending /\ Registry \notin Clients
  BY BackIsOutside, AsyncAssumption
<1>4. CASE holders = {holder}
  <2>1. toStop' = Cardinality(Workers) /\ pc' = [pc EXCEPT ![c] = "stop"] /\ holders' = {}
    BY <1>1, <1>4 DEF Drop
  <2>2. Cardinality(Workers) \in Nat /\ Cardinality(Workers) > 0
    BY AsyncAssumption, FS_CardinalityType, FS_EmptySet
  <2>3. \A d \in Clients : pc'[d] \in Ending => d = c /\ pc'[d] = "stop"
    BY <1>1, <1>3, <1>4, <2>1 DEF InUse, TypeInv, Ending, Inside
  <2>4. Entering' = {}
    BY <2>3 DEF Entering, Ending, Inside
  <2>5. Counted(0)'
    <3>1. Pending' = Cardinality(Workers)
      BY <2>1, <2>2, <2>4 DEF Pending
    <3>2. Cardinality(Stopped') = 0
      BY <1>2, FS_EmptySet
    <3> QED
      BY <2>2, <3>1, <3>2 DEF Counted
  <2>6. Stopping'
    BY <1>1, <2>1, <2>2, <2>3, <2>5 DEF Stopping, InUse, Ending, Inside
  <2> QED
    BY <2>1, <2>6 DEF PoolInv
<1>5. CASE holders # {holder}
  <2>1. pc' = [pc EXCEPT ![c] = Back(c)] /\ holders' # {}
    BY <1>1, <1>5 DEF Drop
  <2>2. \A d \in Clients : d \in holders' <=> pc'[d] \in Ending
    BY <1>1, <1>3, <2>1 DEF InUse, TypeInv
  <2>3. \A d \in Clients : pc'[d] \notin {"stop", "join"}
    BY <1>1, <1>3, <2>1 DEF InUse, TypeInv, Ending
  <2>4. InUse'
    BY <1>1, <1>2, <2>2, <2>3 DEF InUse
  <2> QED
    BY <1>1, <2>1, <2>4 DEF PoolInv
<1> QED
  BY <1>4, <1>5

\* A call begins: it holds the pool.
LEMMA PostOfPool ==
    ASSUME IInv, PoolInv, NEW c \in Clients, NEW m, m # Terminate, NEW policy,
           Post(c, m, policy), UNCHANGED <<q, wpc, hand>>
    PROVE  PoolInv'
<1>1. /\ InUse /\ TypeInv /\ holders \subseteq Clients \cup {Registry}
      /\ holders' = holders \cup {c} /\ pc' = [pc EXCEPT ![c] = "enqueue"]
      /\ todo' = [todo EXCEPT ![c] = m] /\ UNCHANGED gone /\ DOMAIN how' = Clients
  BY DEF PoolInv, IInv, Post
<1>2. Stopped' = {} /\ Suffix(Items(q), 0)'
  BY <1>1 DEF InUse, Stopped
<1>3. \A d \in Clients : d \in holders' <=> pc'[d] \in Ending
  BY <1>1 DEF InUse, TypeInv, Ending, Inside
<1>4. \A d \in Clients : pc'[d] \notin {"stop", "join"} /\ todo'[d] # Terminate
  BY <1>1 DEF InUse, TypeInv
<1>5. InUse'
  BY <1>1, <1>2, <1>3, <1>4 DEF InUse
<1> QED
  BY <1>1, <1>5 DEF PoolInv

\* A client that is outside the pool before and after a step changes nothing.
LEMMA OutsidePool ==
    ASSUME IInv, PoolInv, NEW c \in Clients, pc[c] \notin Ending, NEW at, at \notin Ending,
           pc' = [pc EXCEPT ![c] = at],
           UNCHANGED <<q, todo, how, wpc, hand, holders, toStop, gone>>
    PROVE  PoolInv'
<1>1. pc \in [Clients -> Standing]
  BY DEF IInv, TypeInv
<1>2. \A d \in Clients : /\ pc'[d] \in Ending <=> pc[d] \in Ending
                         /\ pc[d] \in Ending => pc'[d] = pc[d]
  BY <1>1
<1>3. Entering' = Entering
  BY <1>2 DEF Entering, Ending, Inside
<1>4. Stopped' = Stopped /\ Pending' = Pending
  BY <1>3 DEF Stopped, Pending
<1>5. InUse => InUse'
  BY <1>2, <1>4 DEF InUse, Ending
<1>6. Stopping => Stopping'
  BY <1>2, <1>4 DEF Stopping, Counted, Ending, Inside
<1>7. Drained => Drained'
  BY <1>2 DEF Drained
<1> QED
  BY <1>5, <1>6, <1>7 DEF PoolInv

\* So does a step that leaves everybody where they are.
LEMMA NothingOfPool ==
    ASSUME PoolInv, UNCHANGED <<q, pc, todo, how, holders, toStop, gone>>,
           Stopped' = Stopped, Drained => UNCHANGED wpc
    PROVE  PoolInv'
<1>1. Pending' = Pending /\ Entering' = Entering
  BY DEF Pending, Entering
<1>2. (InUse => InUse') /\ (Stopping => Stopping') /\ (Drained => Drained')
  BY <1>1 DEF InUse, Stopping, Counted, Drained
<1> QED
  BY <1>2 DEF PoolInv

-----------------------------------------------------------------------------
(* Steps of a client                                                        *)

\* A push: by a holder of the pool, or of a terminate message.
LEMMA PushInPool ==
    ASSUME IInv, PoolInv, NEW c \in Clients, pc[c] = "enqueue", Push(todo[c]),
           how[c] = "block" => ~ Full(q),
           pc' = [pc EXCEPT ![c] = "notify"], todo' = [todo EXCEPT ![c] = NoItem],
           UNCHANGED <<how, wpc, hand, holders, toStop, gone>>
    PROVE  PoolInv'
<1>1. /\ TypeInv /\ todo[c] \in Item /\ Items(q) \in Seq(Something) /\ todo[c] \in Something
      /\ Full(q) => Items(q) # <<>>
  BY ItemsOfPool DEF IInv, TypeInv, Something
<1>2. /\ ~ Full(q) => Items(q)' = Append(Items(q), todo[c])
      /\ Full(q) => Items(q)' = Tail(Append(Items(q), todo[c]))
  BY <1>1, PushOfPool
<1>3. /\ \A d \in Clients : pc'[d] \in Ending <=> pc[d] \in Ending
      /\ \A d \in Clients \ {c} : pc'[d] = pc[d] /\ todo'[d] = todo[d]
      /\ pc'[c] = "notify" /\ todo'[c] = NoItem /\ NoItem # Terminate
  BY <1>1, AsyncAssumption DEF TypeInv, Ending, Inside, Item
<1>4. Stopped' = Stopped
  BY DEF Stopped
<1>5. CASE holders # {}
  <2>1. InUse
    BY <1>5 DEF PoolInv
  <2>2. Suffix(Items(q), 0)'
    <3>1. todo[c] # Terminate /\ Suffix(Items(q), 0)
      BY <2>1 DEF InUse
    <3>2. Suffix(Append(Items(q), todo[c]), 0)
      BY <1>1, <3>1, SuffixAppend
    <3>3. Suffix(Tail(Append(Items(q), todo[c])), 0)
      <4> DEFINE t == Append(Items(q), todo[c])
      <4>1. t \in Seq(Something) /\ t # <<>>
        BY <1>1
      <4>2. Suffix(t, 0)
        BY <3>2
      <4> HIDE DEF t
      <4>3. Suffix(Tail(t), 0)
        BY <4>1, <4>2, SuffixTail
      <4> QED
        BY <4>3 DEF t
    <3> QED
      BY <1>2, <3>2, <3>3
  <2>3. InUse'
    BY <1>3, <1>4, <2>1, <2>2 DEF InUse
  <2> QED
    BY <1>5, <2>3 DEF PoolInv
<1>6. CASE holders = {}
  <2>1. Stopping
    BY <1>6 DEF PoolInv, Drained, Ending, Inside
  <2>2. todo[c] = Terminate /\ ~ Full(q)
    BY <2>1 DEF Stopping
  <2>3. PICK k \in Nat : Counted(k)
    BY <2>1 DEF Stopping
  <2>4. Entering = {c} /\ Entering' = {}
    BY <1>3, <2>1 DEF Stopping, Entering, Ending, Inside
  <2>5. Pending = toStop + 1 /\ Pending' = toStop /\ toStop \in Nat
    BY <2>1, <2>4 DEF Pending, Stopping
  <2>6. Counted(k + 1)'
    <3>1. Suffix(Items(q), k + 1)'
      BY <1>1, <1>2, <2>2, <2>3, SuffixAppend DEF Counted
    <3>2. IsFiniteSet(Stopped) /\ IsFiniteSet(Workers)
      BY AsyncAssumption, FS_Subset DEF Stopped
    <3>3. Cardinality(Stopped) \in Nat /\ Cardinality(Workers) \in Nat
      BY <3>2, FS_CardinalityType
    <3> QED
      BY <1>4, <2>3, <2>5, <3>1, <3>3 DEF Counted
  <2>7. Stopping'
    BY <1>3, <2>1, <2>6 DEF Stopping, Ending, Inside
  <2> QED
    BY <1>6, <2>7 DEF PoolInv
<1> QED
  BY <1>5, <1>6

\* A client waits for room or is woken up.
LEMMA WaitInPool ==
    ASSUME IInv, PoolInv, NEW c \in Clients, pc[c] \in {"enqueue", "wait_pop"},
           NEW at \in {"enqueue", "wait_pop"}, pc' = [pc EXCEPT ![c] = at],
           UNCHANGED <<q, todo, how, hand, holders, toStop, gone>>, Stopped' = Stopped,
           Drained => UNCHANGED wpc
    PROVE  PoolInv'
<1>1. pc \in [Clients -> Standing]
  BY DEF IInv, TypeInv
<1>2. \A d \in Clients : /\ pc'[d] \in Ending <=> pc[d] \in Ending
                         /\ pc'[d] \in {"enqueue", "wait_pop"} <=> pc[d] \in {"enqueue", "wait_pop"}
                         /\ pc'[d] \in {"stop", "join"} => pc'[d] = pc[d]
  BY <1>1 DEF Ending, Inside
<1>3. Entering' = Entering /\ Pending' = Pending
  BY <1>2 DEF Entering, Pending
<1>4. InUse => InUse'
  BY <1>2 DEF InUse
<1>5. Stopping => Stopping'
  BY <1>2, <1>3 DEF Stopping, Counted
<1>6. Drained => Drained'
  BY <1>2 DEF Drained
<1> QED
  BY <1>4, <1>5, <1>6 DEF PoolInv

\* A thread is notified of a message; nothing else changes for the pool.
LEMMA StoppedStands ==
    ASSUME IInv, UNCHANGED hand,
           UNCHANGED wpc \/ \E w \in Workers : wpc[w] = "wait_push" /\ wpc' = [wpc EXCEPT ![w] = "dequeue"]
    PROVE  Stopped' = Stopped /\ ((\A w \in Workers : wpc[w] = "done") => UNCHANGED wpc)
  BY DEF IInv, HandsInv, Stopped

\* Every step inside a call or inside ~thread_pool.
LEMMA ClientStepInPool ==
    ASSUME IInv, PoolInv, NEW c \in Clients, ClientStep(c)
    PROVE  PoolInv'
<1>1. /\ TypeInv /\ HandsInv /\ pc \in [Clients -> Standing] /\ holders \subseteq Clients \cup {Registry}
      /\ pc[c] \in {"enqueue", "wait_pop"} => todo[c] \in Item
      /\ NoItem # Terminate /\ Registry \notin Clients
  BY AsyncAssumption DEF IInv, TypeInv, PoolInv, Item
<1>2. CASE Enqueue(c)
  <2>1. pc[c] = "enqueue" /\ UNCHANGED <<how, wpc, hand, holders, toStop, gone>>
    BY <1>2 DEF Enqueue, workerVars, poolVars
  <2>2. CASE Full(q) /\ pc' = [pc EXCEPT ![c] = "wait_pop"] /\ UNCHANGED <<queueVars, todo>>
    <3>1. Stopped' = Stopped
      BY <2>1 DEF Stopped
    <3> QED
      BY <2>1, <2>2, <3>1, WaitInPool DEF queueVars
  <2>3. CASE /\ ~ Full(q) /\ Push(todo[c]) /\ pc' = [pc EXCEPT ![c] = "notify"]
             /\ todo' = [todo EXCEPT ![c] = NoItem]
    BY <2>1, <2>3, PushInPool
  <2> QED
    BY <1>2, <2>2, <2>3 DEF Enqueue
<1>3. CASE EnqueueNowait(c)
  BY <1>3, PushInPool DEF EnqueueNowait, workerVars, poolVars
<1>4. CASE EnqueueIfHaveRoom(c)
  <2>1. /\ pc[c] = "enqueue" /\ how[c] = "discard_new" /\ todo' = [todo EXCEPT ![c] = NoItem]
        /\ UNCHANGED <<how, wpc, hand, gone>>
    BY <1>4 DEF EnqueueIfHaveRoom, workerVars
  <2>2. CASE /\ ~ Full(q) /\ Push(todo[c]) /\ pc' = [pc EXCEPT ![c] = "notify"]
             /\ UNCHANGED <<holders, toStop>>
    BY <2>1, <2>2, PushInPool
  <2>3. CASE Drop(c, c) /\ UNCHANGED q
    <3>1. holders # {}
      BY <2>1 DEF PoolInv, Stopping, Drained, Ending, Inside
    <3>2. InUse /\ c \in holders
      BY <2>1, <3>1 DEF PoolInv, InUse, Ending, Inside
    <3>3. \A d \in Clients : todo'[d] # Terminate
      BY <1>1, <2>1, <3>2 DEF InUse, TypeInv
    <3>4. Suffix(Items(q), 0)'
      BY <2>3, <3>2 DEF InUse
    <3>5. Stopped' = Stopped
      BY <2>1 DEF Stopped
    <3> QED
      BY <2>1, <2>3, <3>2, <3>3, <3>4, <3>5, DropOfPool
  <2> QED
    BY <1>4, <2>2, <2>3 DEF EnqueueIfHaveRoom
<1>5. CASE NotifyPush(c)
  <2>1. /\ pc[c] = "notify" /\ UNCHANGED <<q, todo, how, hand, gone>>
        /\ \/ UNCHANGED wpc
           \/ \E w \in Workers : wpc[w] = "wait_push" /\ wpc' = [wpc EXCEPT ![w] = "dequeue"]
    BY <1>5 DEF NotifyPush, queueVars
  <2>2. Stopped' = Stopped
    BY <2>1, StoppedStands
  <2>3. CASE c \in holders /\ Drop(c, c)
    <3>1. InUse
      BY <2>3 DEF PoolInv
    <3>2. Suffix(Items(q), 0)' /\ \A d \in Clients : todo'[d] # Terminate
      BY <2>1, <3>1 DEF InUse
    <3> QED
      BY <2>1, <2>2, <2>3, <3>2, DropOfPool
  <2>4. CASE /\ holders = {} /\ UNCHANGED <<holders, toStop>>
             /\ pc' = [pc EXCEPT ![c] = IF toStop = 0 THEN "join" ELSE "stop"]
    <3>1. Stopping
      BY <2>1, <2>4 DEF PoolInv, Drained, Ending, Inside
    <3>2. /\ \A d \in Clients : pc'[d] \in Ending <=> pc[d] \in Ending
          /\ \A d \in Clients \ {c} : pc'[d] = pc[d]
          /\ pc'[c] = IF toStop = 0 THEN "join" ELSE "stop"
      BY <1>1, <2>1, <2>4 DEF Ending, Inside
    <3>3. Entering' = Entering /\ Pending' = Pending
      BY <2>1, <2>4, <3>2 DEF Entering, Pending
    <3>4. Stopping'
      BY <2>1, <2>2, <2>4, <3>1, <3>2, <3>3 DEF Stopping, Counted
    <3> QED
      BY <2>1, <2>4, <3>4 DEF PoolInv
  <2> QED
    BY <1>5, <2>3, <2>4 DEF NotifyPush
<1>6. CASE StopThread(c)
  <2>1. /\ pc[c] = "stop" /\ toStop' = toStop - 1 /\ todo' = [todo EXCEPT ![c] = Terminate]
        /\ how' = [how EXCEPT ![c] = "block"] /\ pc' = [pc EXCEPT ![c] = "enqueue"]
        /\ UNCHANGED <<q, wpc, hand, holders, gone>>
    BY <1>6 DEF StopThread, queueVars, workerVars
  <2>2. holders = {} /\ Stopping
    BY <2>1 DEF PoolInv, InUse, Drained, Ending, Inside
  <2>3. /\ \A d \in Clients : pc[d] \in Ending => d = c
        /\ \A d \in Clients : pc'[d] \in Ending => d = c
        /\ pc'[c] = "enqueue" /\ toStop \in Nat \ {0}
    BY <1>1, <2>1, <2>2 DEF Stopping, Ending, Inside
  <2>4. Entering = {} /\ Entering' = {c}
    BY <2>1, <2>3 DEF Entering, Ending, Inside
  <2>5. Pending' = Pending /\ Stopped' = Stopped
    BY <2>1, <2>3, <2>4 DEF Pending, Stopped
  <2>6. todo'[c] = Terminate /\ how'[c] = "block" /\ DOMAIN how' = Clients
    BY <1>1, <2>1 DEF TypeInv, PoolInv
  <2>7. Stopping'
    BY <2>1, <2>2, <2>3, <2>5, <2>6 DEF Stopping, Counted, Ending, Inside
  <2> QED
    BY <2>1, <2>2, <2>6, <2>7 DEF PoolInv
<1>7. CASE Join(c)
  <2>1. /\ pc[c] = "join" /\ (\A w \in Workers : wpc[w] = "done") /\ gone' = TRUE
        /\ pc' = [pc EXCEPT ![c] = Back(c)]
        /\ UNCHANGED <<q, todo, how, wpc, hand, holders, toStop>>
    BY <1>7 DEF Join, queueVars, workerVars
  <2>2. holders = {} /\ Stopping
    BY <2>1 DEF PoolInv, InUse, Drained, Ending, Inside
  <2>3. toStop = 0 /\ Entering = {}
    BY <2>1, <2>2 DEF Stopping, Entering, Ending, Inside
  <2>4. Items(q) = <<>>
    <3>1. PICK k \in Nat : Counted(k)
      BY <2>2 DEF Stopping
    <3>2. Stopped = Workers /\ Pending = 0
      BY <2>1, <2>3 DEF Stopped, Pending
    <3>3. Cardinality(Workers) \in Nat /\ Cardinality(Workers) > 0
      BY AsyncAssumption, FS_CardinalityType, FS_EmptySet
    <3> QED
      BY <3>1, <3>2, <3>3 DEF Counted
  <2>5. \A d \in Clients : pc'[d] \notin Ending
    BY <1>1, <2>1, <2>2, BackIsOutside DEF Stopping, Ending
  <2>6. Drained'
    BY <2>1, <2>4, <2>5 DEF Drained
  <2> QED
    BY <2>1, <2>2, <2>6 DEF PoolInv
<1> QED
  BY <1>2, <1>3, <1>4, <1>5, <1>6, <1>7 DEF ClientStep

-----------------------------------------------------------------------------
(* Steps of the others                                                      *)

\* A thread takes a message; it takes no more once it took a terminate message.
LEMMA TakeInPool ==
    ASSUME IInv, PoolInv, NEW w \in Workers, wpc[w] = "dequeue", ~ IsEmpty(q),
           hand' = [hand EXCEPT ![w] = Front(q)], q' = PopFront(MoveFront(q)),
           wpc' = [wpc EXCEPT ![w] = "notify"],
           UNCHANGED <<pc, todo, how, holders, toStop, gone>>
    PROVE  PoolInv'
<1> DEFINE s == Items(q)
<1>1. /\ s \in Seq(Something) /\ s # <<>> /\ Front(q) = Head(s) /\ Items(q)' = Tail(s)
  BY ItemsOfPool, TakeOfPool DEF IInv
<1>2. /\ wpc \in [Workers -> {"dequeue", "wait_push", "notify", "process", "done"}]
      /\ hand \in [Workers -> Something] /\ hand[w] = NoItem /\ NoItem # Terminate
  BY AsyncAssumption DEF IInv, HandsInv, Item
<1>3. Pending' = Pending
  BY DEF Pending, Entering
<1>4. /\ w \notin Stopped
      /\ Head(s) = Terminate => Stopped' = Stopped \cup {w}
      /\ Head(s) # Terminate => Stopped' = Stopped
  <2>1. hand'[w] = Head(s) /\ wpc'[w] = "notify"
    BY <1>1, <1>2
  <2>2. \A x \in Workers \ {w} : hand'[x] = hand[x] /\ wpc'[x] = wpc[x]
    BY <1>2
  <2> HIDE DEF s
  <2> QED
    BY <1>2, <2>1, <2>2 DEF Stopped
<1>5. IsFiniteSet(Stopped)
  BY AsyncAssumption, FS_Subset DEF Stopped
<1>6. /\ Cardinality(Stopped) \in Nat /\ Cardinality(Workers) \in Nat
      /\ Cardinality(Stopped \cup {w}) = Cardinality(Stopped) + 1
  BY <1>4, <1>5, AsyncAssumption, FS_CardinalityType, FS_AddElement
<1>7. ASSUME NEW k, Suffix(s, k)
      PROVE  /\ Head(s) = Terminate => k > 0 /\ Suffix(Tail(s), k - 1)
             /\ Head(s) # Terminate => Suffix(Tail(s), k)
             /\ Head(s) = Terminate /\ Tail(s) # <<>> => k > 1
  <2> HIDE DEF s
  <2> QED
    BY <1>1, <1>7, SuffixTail
<1>8. CASE holders # {}
  <2>1. InUse
    BY <1>8 DEF PoolInv
  <2>2. Head(s) # Terminate /\ Suffix(Tail(s), 0)
    BY <1>7, <2>1 DEF InUse
  <2>3. InUse'
    BY <1>1, <1>4, <2>1, <2>2 DEF InUse
  <2> QED
    BY <1>8, <2>3 DEF PoolInv
<1>9. CASE holders = {}
  <2>1. Stopping
    BY <1>1, <1>9 DEF PoolInv, Drained
  <2>2. PICK k \in Nat : Counted(k)
    BY <2>1 DEF Stopping
  <2>3. Suffix(s, k)
    BY <2>2 DEF Counted
  <2>4. CASE Head(s) = Terminate
    <3>1. k > 0 /\ Suffix(Tail(s), k - 1) /\ (Tail(s) # <<>> => k > 1)
      BY <1>7, <2>3, <2>4
    <3>2. Counted(k - 1)'
      <4>1. Stopped' = Stopped \cup {w}
        BY <1>4, <2>4
      <4>2. Pending \in Nat
        BY <2>1 DEF Stopping, Pending
      <4>3. k + Cardinality(Stopped) + Pending = Cardinality(Workers)
        BY <2>2 DEF Counted
      <4>4. k - 1 + Cardinality(Stopped') + Pending' = Cardinality(Workers)
        BY <1>3, <1>6, <2>2, <4>1, <4>2, <4>3
      <4>5. Suffix(Items(q), k - 1)'
        BY <1>1, <3>1
      <4>6. Items(q)' # <<>> => k - 1 > 0
        BY <1>1, <2>2, <3>1
      <4> QED
        BY <4>4, <4>5, <4>6 DEF Counted
    <3>3. k - 1 \in Nat
      BY <2>2, <3>1
    <3>4. Stopping'
      BY <2>1, <3>2, <3>3 DEF Stopping
    <3> QED
      BY <1>9, <3>4 DEF PoolInv
  <2>5. CASE Head(s) # Terminate
    <3>1. Suffix(Tail(s), k) /\ Stopped' = Stopped
      BY <1>4, <1>7, <2>3, <2>5
    <3>2. Counted(k)'
      BY <1>1, <1>3, <2>2, <3>1 DEF Counted
    <3>3. Stopping'
      BY <2>1, <2>2, <3>2 DEF Stopping
    <3> QED
      BY <1>9, <3>3 DEF PoolInv
  <2> QED
    BY <2>4, <2>5
<1> QED
  BY <1>8, <1>9

\* A thread of the pool.
LEMMA WorkerStepInPool ==
    ASSUME IInv, PoolInv, NEW w \in Workers, WorkerStep(w)
    PROVE  PoolInv'
<1>1. /\ wpc \in [Workers -> {"dequeue", "wait_push", "notify", "process", "done"}]
      /\ hand \in [Workers -> Something] /\ NoItem # Terminate
  BY AsyncAssumption DEF IInv, HandsInv, Item
<1>2. wpc[w] # "done" /\ ~ Drained
  BY DEF WorkerStep, Dequeue, NotifyPop, Process, Drained
<1>3. CASE Dequeue(w)
  <2>1. UNCHANGED <<pc, todo, how, holders, toStop, gone>> /\ wpc[w] = "dequeue"
    BY <1>3 DEF Dequeue, poolVars
  <2>2. CASE wpc' = [wpc EXCEPT ![w] = "wait_push"] /\ UNCHANGED <<q, hand>>
    <3>1. Stopped' = Stopped
      BY <1>1, <2>1, <2>2 DEF Stopped
    <3> QED
      BY <1>2, <2>1, <2>2, <3>1, NothingOfPool
  <2>3. CASE /\ ~ IsEmpty(q) /\ hand' = [hand EXCEPT ![w] = Front(q)]
             /\ q' = PopFront(MoveFront(q)) /\ wpc' = [wpc EXCEPT ![w] = "notify"]
    BY <2>1, <2>3, TakeInPool
  <2> QED
    BY <1>3, <2>2, <2>3 DEF Dequeue
<1>4. CASE NotifyPop(w)
  <2>1. /\ UNCHANGED <<q, todo, how, hand, holders, toStop, gone>> /\ wpc[w] = "notify"
        /\ wpc' = [wpc EXCEPT ![w] = "process"]
    BY <1>4 DEF NotifyPop, queueVars, poolVars
  <2>2. Stopped' = Stopped
    BY <1>1, <2>1 DEF Stopped
  <2>3. CASE UNCHANGED pc
    BY <1>2, <2>1, <2>2, <2>3, NothingOfPool
  <2>4. ASSUME NEW c \in Clients, pc[c] = "wait_pop", pc' = [pc EXCEPT ![c] = "enqueue"]
        PROVE  PoolInv'
    BY <1>2, <2>1, <2>2, <2>4, WaitInPool
  <2> QED
    BY <1>4, <2>3, <2>4 DEF NotifyPop
<1>5. CASE Process(w)
  <2>1. /\ UNCHANGED <<q, pc, todo, how, holders, toStop, gone>> /\ wpc[w] = "process"
        /\ hand' = [hand EXCEPT ![w] = NoItem]
        /\ \/ hand[w] \in Log \cup Flush /\ wpc' = [wpc EXCEPT ![w] = "dequeue"]
           \/ hand[w] = Terminate /\ wpc' = [wpc EXCEPT ![w] = "done"]
    BY <1>5 DEF Process, poolVars
  <2>2. hand[w] \in Log \cup Flush => hand[w] # Terminate
    BY LogIsNoOther, FlushIsNotTerminate
  <2>3. Stopped' = Stopped
    BY <1>1, <2>1, <2>2 DEF Stopped
  <2> QED
    BY <1>2, <2>1, <2>3, NothingOfPool
<1> QED
  BY <1>3, <1>4, <1>5 DEF WorkerStep

\* Log calls, the flusher, the main thread and wake-ups without a cause.
LEMMA OtherStepsInPool ==
    ASSUME IInv, PoolInv,
           \/ \E p \in Producers : LogCall(p)
           \/ FlusherStep \/ StartRound \/ MainStep \/ SetTp \/ Shutdown \/ Spurious
    PROVE  PoolInv'
<1>1. Producers \subseteq Clients /\ Flusher \in Clients /\ Main \in Clients
  BY DEF Clients
<1>2. UNCHANGED <<wpc, hand>> => Stopped' = Stopped
  BY DEF Stopped
<1>3. ASSUME NEW p \in Producers, LogCall(p)
      PROVE  PoolInv'
  <2>1. UNCHANGED <<q, wpc, hand>>
    BY <1>3 DEF LogCall, workerVars
  <2>2. PICK m : /\ m = <<"log", p, sent[p] + 1>>
                 /\ Post(p, m, Policy[LoggerOf[p]]) \/ Refuse(m)
    BY <1>3 DEF LogCall
  <2>3. CASE Post(p, m, Policy[LoggerOf[p]])
    <3>1. m # Terminate
      BY <2>2 DEF Terminate
    <3> QED
      BY <1>1, <2>1, <2>3, <3>1, PostOfPool
  <2>4. CASE Refuse(m)
    BY <1>2, <2>1, <2>4, NothingOfPool DEF Refuse, poolVars
  <2> QED
    BY <2>2, <2>3, <2>4
<1>4. CASE FlushLogger
  <2>1. UNCHANGED <<q, wpc, hand>>
    BY <1>4 DEF FlushLogger, workerVars
  <2>2. PICK l \in toFlush : \/ Post(Flusher, <<"flush", l>>, Policy[l])
                            \/ UNCHANGED <<pc, todo, how, poolVars, fate>>
    BY <1>4 DEF FlushLogger
  <2>3. CASE Post(Flusher, <<"flush", l>>, Policy[l])
    <3>1. <<"flush", l>> # Terminate
      BY DEF Terminate
    <3> QED
      BY <1>1, <2>1, <2>3, <3>1, PostOfPool
  <2>4. CASE UNCHANGED <<pc, todo, how, poolVars, fate>>
    BY <1>2, <2>1, <2>4, NothingOfPool DEF poolVars
  <2> QED
    BY <2>2, <2>3, <2>4
<1>5. CASE EndRound \/ StopWorking \/ StartRound
  <2>1. /\ UNCHANGED <<q, todo, how, wpc, hand, holders, toStop, gone>>
        /\ pc[Flusher] \notin Ending
        /\ \E at \in {"idle", "done", "flush_all"} : pc' = [pc EXCEPT ![Flusher] = at]
    BY <1>5 DEF EndRound, StopWorking, StartRound, queueVars, workerVars, poolVars, Ending, Inside
  <2>2. "idle" \notin Ending /\ "done" \notin Ending /\ "flush_all" \notin Ending
    BY DEF Ending, Inside
  <2> QED
    BY <1>1, <2>1, <2>2, OutsidePool
<1>6. CASE MainStep \/ SetTp \/ Shutdown
  <2>1. /\ UNCHANGED <<q, todo, how, wpc, hand, gone>>
        /\ pc[Main] \notin Ending
    BY <1>6 DEF MainStep, StopFlusher, DropAll, ResetTp, SetTp, Shutdown, queueVars, workerVars,
                poolVars, Ending, Inside
  <2>2. CASE Registry \in holders /\ Drop(Main, Registry)
    <3>1. InUse
      BY <2>2 DEF PoolInv
    <3>2. Suffix(Items(q), 0)' /\ \A d \in Clients : todo'[d] # Terminate
      BY <2>1, <3>1 DEF InUse
    <3> QED
      BY <1>1, <1>2, <2>1, <2>2, <3>2, DropOfPool
  <2>3. CASE /\ UNCHANGED <<holders, toStop>>
             /\ \E at \in {"shutdown", "join_flusher", "reset_tp", "done"} :
                   pc' = [pc EXCEPT ![Main] = at]
    <3>1. \A at \in {"shutdown", "join_flusher", "reset_tp", "done"} : at \notin Ending
      BY DEF Ending, Inside
    <3> QED
      BY <1>1, <2>1, <2>3, <3>1, OutsidePool
  <2> QED
    BY <1>6, <2>2, <2>3 DEF MainStep, StopFlusher, DropAll, ResetTp, SetTp, Shutdown, poolVars
<1>7. CASE Spurious
  <2>1. UNCHANGED <<q, todo, how, hand, holders, toStop, gone>>
    BY <1>7 DEF Spurious, queueVars, poolVars
  <2>2. ASSUME NEW c \in Clients, pc[c] = "wait_pop", pc' = [pc EXCEPT ![c] = "enqueue"],
               UNCHANGED wpc
        PROVE  PoolInv'
    BY <1>2, <2>1, <2>2, WaitInPool
  <2>3. ASSUME NEW w \in Workers, wpc[w] = "wait_push", wpc' = [wpc EXCEPT ![w] = "dequeue"],
               UNCHANGED pc
        PROVE  PoolInv'
    <3>1. Stopped' = Stopped /\ (Drained => UNCHANGED wpc)
      BY <2>1, <2>3, StoppedStands DEF Drained
    <3> QED
      BY <2>1, <2>3, <3>1, NothingOfPool
  <2> QED
    BY <1>7, <2>2, <2>3 DEF Spurious, SpuriousWakeup
<1> QED
  BY <1>3, <1>4, <1>5, <1>6, <1>7 DEF FlusherStep

-----------------------------------------------------------------------------
\* The registry holds the new pool.
LEMMA InitPool == Init => PoolInv
<1> SUFFICES ASSUME Init PROVE PoolInv
  OBVIOUS
<1>1. Items(q) = <<>>
  <2>1. QueueSize \in Nat /\ NoItem \in Something
    BY AsyncAssumption DEF Something
  <2> QED
    BY <2>1, NewQFacts DEF Init
<1>2. Suffix(Items(q), 0)
  BY <1>1 DEF Suffix
<1>3. NoItem # Terminate /\ Registry \notin Clients
  BY AsyncAssumption DEF Item
<1>4. Stopped = {}
  BY <1>3 DEF Init, Stopped
<1>5. InUse
  BY <1>2, <1>3, <1>4 DEF Init, InUse, Ending, Inside
<1> QED
  BY <1>5 DEF Init, PoolInv

\* Every step keeps the invariant.
LEMMA StepInPool == IInv /\ PoolInv /\ [Next]_vars => PoolInv'
<1> SUFFICES ASSUME IInv, PoolInv, [Next]_vars PROVE PoolInv'
  OBVIOUS
<1>1. CASE UNCHANGED vars
  <2>1. UNCHANGED <<q, pc, todo, how, wpc, hand, holders, toStop, gone>>
    BY <1>1 DEF vars
  <2>2. Stopped' = Stopped
    BY <2>1 DEF Stopped
  <2> QED
    BY <2>1, <2>2, NothingOfPool
<1> QED
  BY <1>1, ClientStepInPool, WorkerStepInPool, OtherStepsInPool DEF Next

\* ~thread_pool: "message all threads to terminate gracefully" and join them.
THEOREM PoolIsDrained == Spec => []GoneMeansDrained
<1>1. IInv /\ PoolInv => GoneMeansDrained
  <2> SUFFICES ASSUME IInv, PoolInv, gone PROVE
                 /\ IsEmpty(q)
                 /\ \A w \in Workers : wpc[w] = "done" /\ hand[w] = NoItem
                 /\ \A c \in Clients : pc[c] \notin {"enqueue", "wait_pop", "notify", "stop", "join"}
    BY DEF GoneMeansDrained
  <2>1. Drained
    BY DEF PoolInv, InUse, Stopping
  <2>2. IsEmpty(q)
    BY <2>1, ItemsOfPool DEF IInv, Drained
  <2> QED
    BY <2>1, <2>2 DEF IInv, HandsInv, Drained, Ending, Inside
<1> QED
  BY <1>1, InitPlaces, StepPlaces, InitPool, StepInPool, PTL DEF Spec

=============================================================================

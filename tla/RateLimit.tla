-------------------------------- MODULE RateLimit --------------------------------
(* The two rate limits of the AODV protocol (RoutingProtocol.java): route        *)
(* requests and route errors are counted, compared with a limit, and the counts  *)
(* are reset by timers.  SendRequest and SendRerrMessage run on the thread that  *)
(* routes a packet and on the threads of the timer pool, without a lock, so the  *)
(* model has one step for each access to a counter.                              *)
(*                                                                               *)
(* Start gives both timers the function RreqRateLimitTimerExpire, which resets   *)
(* the count of requests and schedules the timer of the requests again.          *)
EXTENDS Integers, FiniteSets

CONSTANTS Threads,
          RreqLimit,        \* m_rreqRateLimit
          RerrLimit,        \* m_rerrRateLimit
          MaxRequests,      \* bound: calls of SendRequest by the application
          MaxErrors         \* bound: calls of SendRerrMessage

ASSUME LimitAssumption ==
  /\ IsFiniteSet(Threads)
  /\ RreqLimit \in Nat \ {0} /\ RerrLimit \in Nat \ {0}
  /\ MaxRequests \in Nat /\ MaxErrors \in Nat

VARIABLES m_rreqCount, m_rerrCount,
          resets,         \* pending tasks that run RreqRateLimitTimerExpire
          deferred,       \* pending tasks that call SendRequest again
          pc,             \* per thread: the next access to a counter
          tmp,            \* per thread: the value m_rreqCount++ or m_rerrCount++ read
          requested, errors,        \* calls so far
          originated, failed        \* requests sent, requests ended by an exception

vars == <<m_rreqCount, m_rerrCount, resets, deferred, pc, tmp, requested, errors,
          originated, failed>>

Init ==
  /\ m_rreqCount = 0 /\ m_rerrCount = 0
  /\ resets = 0 /\ deferred = 0
  /\ pc = [t \in Threads |-> "idle"] /\ tmp = [t \in Threads |-> 0]
  /\ requested = 0 /\ errors = 0 /\ originated = 0 /\ failed = 0

\* Start, run once by the timer pool: two timers, one function.
Start ==
  /\ resets = 0
  /\ resets' = 2
  /\ UNCHANGED <<m_rreqCount, m_rerrCount, deferred, pc, tmp, requested, errors,
                 originated, failed>>

\* Mutant: the timer resets the count of the route errors instead.
RreqRateLimitTimerExpireErrors ==
  /\ resets > 0
  /\ m_rerrCount' = 0
  /\ UNCHANGED <<m_rreqCount, resets, deferred, pc, tmp, requested, errors,
                 originated, failed>>

\* RreqRateLimitTimerExpire: reset, and schedule the same function again.
RreqRateLimitTimerExpire ==
  /\ resets > 0
  /\ m_rreqCount' = 0
  /\ UNCHANGED <<m_rerrCount, resets, deferred, pc, tmp, requested, errors,
                 originated, failed>>

----------------------------------------------------------------------------
(* SendRequest, the rate limit *)

\* SendRequest is called for a packet without a route ...
CallSendRequest(t) ==
  /\ pc[t] = "idle" /\ requested < MaxRequests
  /\ requested' = requested + 1
  /\ pc' = [pc EXCEPT ![t] = "rreqCheck"]
  /\ UNCHANGED <<m_rreqCount, m_rerrCount, resets, deferred, tmp, errors, originated,
                 failed>>

\* ... or by a task it scheduled itself.
RunDeferred(t) ==
  /\ pc[t] = "idle" /\ deferred > 0
  /\ deferred' = deferred - 1
  /\ pc' = [pc EXCEPT ![t] = "rreqCheck"]
  /\ UNCHANGED <<m_rreqCount, m_rerrCount, resets, tmp, requested, errors, originated,
                 failed>>

\* Mutant: the request over the limit is not scheduled again.
DeferDropped(n) == n

\* Timer.Schedules of the request that met the limit.
Defer(n) == n + 1

\* The test is an equality.
AtLimit(count) == count = RreqLimit

\* The test of the count.  GetDelayLeft() of a timer that was never scheduled
\* throws.
RreqCheck(t) ==
  /\ pc[t] = "rreqCheck"
  /\ IF AtLimit(m_rreqCount)
       THEN /\ pc' = [pc EXCEPT ![t] = "idle"]
            /\ IF resets = 0
                 THEN failed' = failed + 1 /\ UNCHANGED deferred
                 ELSE deferred' = Defer(deferred) /\ UNCHANGED failed
       ELSE pc' = [pc EXCEPT ![t] = "rreqRead"] /\ UNCHANGED <<deferred, failed>>
  /\ UNCHANGED <<m_rreqCount, m_rerrCount, resets, tmp, requested, errors, originated>>

\* m_rreqCount++, its read.
RreqRead(t) ==
  /\ pc[t] = "rreqRead"
  /\ tmp' = [tmp EXCEPT ![t] = m_rreqCount]
  /\ pc' = [pc EXCEPT ![t] = "rreqWrite"]
  /\ UNCHANGED <<m_rreqCount, m_rerrCount, resets, deferred, requested, errors,
                 originated, failed>>

\* m_rreqCount++, its write; the request goes on.
RreqWrite(t) ==
  /\ pc[t] = "rreqWrite"
  /\ m_rreqCount' = tmp[t] + 1
  /\ tmp' = [tmp EXCEPT ![t] = 0]
  /\ originated' = originated + 1
  /\ pc' = [pc EXCEPT ![t] = "idle"]
  /\ UNCHANGED <<m_rerrCount, resets, deferred, requested, errors, failed>>

----------------------------------------------------------------------------
(* SendRerrMessage to one precursor *)

\* The limit of the route errors; an error over the limit is suppressed.
ErrorsAtLimit(count) == count = RerrLimit

\* SendRerrMessage: the test, then the lookup of a valid route to the precursor;
\* without one, or at the limit, it returns.
CallSendRerrMessage(t) ==
  /\ pc[t] = "idle" /\ errors < MaxErrors
  /\ errors' = errors + 1
  /\ \/ pc' = pc
     \/ ~ErrorsAtLimit(m_rerrCount) /\ pc' = [pc EXCEPT ![t] = "rerrRead"]
  /\ UNCHANGED <<m_rreqCount, m_rerrCount, resets, deferred, tmp, requested, originated,
                 failed>>

\* m_rerrCount++
RerrRead(t) ==
  /\ pc[t] = "rerrRead"
  /\ tmp' = [tmp EXCEPT ![t] = m_rerrCount]
  /\ pc' = [pc EXCEPT ![t] = "rerrWrite"]
  /\ UNCHANGED <<m_rreqCount, m_rerrCount, resets, deferred, requested, errors,
                 originated, failed>>

RerrWrite(t) ==
  /\ pc[t] = "rerrWrite"
  /\ m_rerrCount' = tmp[t] + 1
  /\ tmp' = [tmp EXCEPT ![t] = 0]
  /\ pc' = [pc EXCEPT ![t] = "idle"]
  /\ UNCHANGED <<m_rreqCount, resets, deferred, requested, errors, originated, failed>>

----------------------------------------------------------------------------

Step(t) == RreqCheck(t) \/ RreqRead(t) \/ RreqWrite(t) \/ RerrRead(t) \/ RerrWrite(t)

Next ==
  \/ Start
  \/ RreqRateLimitTimerExpire
  \/ \E t \in Threads :
       CallSendRequest(t) \/ RunDeferred(t) \/ CallSendRerrMessage(t) \/ Step(t)

\* The executor runs every task it was given, and a running thread goes on.
Fairness ==
  /\ WF_vars(Start)
  /\ WF_vars(RreqRateLimitTimerExpire)
  /\ WF_vars(\E t \in Threads : RunDeferred(t))
  /\ \A t \in Threads : WF_vars(Step(t))

Spec == Init /\ [][Next]_vars /\ Fairness

----------------------------------------------------------------------------
(* Properties *)

\* No call of SendRequest is lost or doubled: each was sent, waits for a task
\* of the pool, is being processed or ended in an exception.
NoRequestLost ==
  requested = originated + failed + deferred
                + Cardinality({t \in Threads : pc[t] \in {"rreqCheck", "rreqRead", "rreqWrite"}})

\* Every request is sent in the end, however often the limit sends it back to
\* the pool.
EveryRequestOriginated == <>[](deferred = 0)

\* A count that two threads drove past the limit, where no test finds it any
\* more, comes back below it.
BurstEnds == (m_rreqCount > RreqLimit) ~> (m_rreqCount < RreqLimit)
=============================================================================

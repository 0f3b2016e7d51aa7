----------------------------- MODULE MCRequestLimits -----------------------------
(* What holds route requests back: the ids already seen and the counts of a     *)
(* second. They share no state, so each behaviour is one of one of the two.     *)
EXTENDS RateLimit

CONSTANTS Keys, LifeTimes, MaxTicks, MaxLen

VARIABLES which, m_idCache, m_lifetime, now, recorded, last

Ids == INSTANCE IdCache

ASSUME IdsAssumption == Ids!CacheAssumption

idVars == <<m_idCache, m_lifetime, now, recorded, last>>

LimitsInit ==
    /\ which \in {"counts", "ids"}
    /\ Init /\ Ids!Init
    \* a cache that is not looked at has no choices either
    /\ which = "counts" => m_lifetime = CHOOSE lt \in LifeTimes : TRUE

LimitsNext ==
    /\ UNCHANGED which
    /\ \/ which = "counts" /\ Next /\ UNCHANGED idVars
       \/ which = "ids" /\ Ids!Next /\ UNCHANGED vars

\* The fairness of RateLimit.
LimitsSpec ==
    LimitsInit /\ [][LimitsNext]_<<which, vars, idVars>> /\ (which = "counts" => Fairness)

-----------------------------------------------------------------------------
\* IdCache: an id within its lifetime is in the cache, with the lifetime recorded.
LiveIdsKnown == Ids!LiveIdsKnown
=============================================================================

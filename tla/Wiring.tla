------------------------------- MODULE Wiring -------------------------------
(***************************************************************************)
(* Which laser terminal is attached to which optical channel, and what the *)
(* constellation helper remembers about it.                                *)
(*                                                                         *)
(* The state is one record, because a single simulator event (a link       *)
(* maintenance pass, a send that finds its link over the polar limit)      *)
(* makes several of these changes one after the other:                     *)
(*                                                                         *)
(*   channel[d]   OpticalDevice::m_channel of terminal d                   *)
(*   linkUp[d]    OpticalDevice::m_linkUp                                  *)
(*   devList[c]   OpticalChannel::dev_list, a pair                         *)
(*   unused       ConstellationHelper::unused_link, a vector used as stack *)
(*   breakedL/R   breaked_left, breaked_right                              *)
(*   overPolar    overPolar                                                *)
(*   ub           a Connect popped the empty unused_link vector            *)
(*                                                                         *)
(* Every operator takes such a record and returns the changed one.         *)
(***************************************************************************)
EXTENDS Integers, Sequences

CONSTANTS
    P,      \* number of orbital planes (WalkerParams::P)
    N,      \* satellites in a plane (satsInPlane = T / P, T % P = 0)
    NULL    \* the null pointer

\* A satellite is named by its plane and its slot: node id plane * N + slot.
Nodes == (0 .. P - 1) \X (0 .. N - 1)

\* The four terminals of a node in the order of its device list "RLFB".
Directions == {"R", "L", "F", "B"}

Devices == Nodes \X Directions

R(n) == <<n, "R">>

L(n) == <<n, "L">>

\* A channel is named after the terminal it is created for: the permanent
\* channel of a forward terminal, the temporary one of a right terminal.
Ring(n) == <<n, "F">>

Cross(n) == <<n, "R">>

HasRight(n) == n[1] # P - 1

HasLeft(n) == n[1] # 0

\* The satellite of the same slot in the next and in the previous plane, id + N
\* and id - N.
RightOf(n) == <<n[1] + 1, n[2]>>

LeftOf(n) == <<n[1] - 1, n[2]>>

RingChannels == {Ring(n) : n \in Nodes}

CrossChannels == {Cross(n) : n \in {m \in Nodes : HasRight(m)}}

Channels == RingChannels \cup CrossChannels

ASSUME ConstellationAssumption ==
    /\ P \in Nat \ {0}
    /\ N \in Nat \ {0}
    /\ NULL \notin Nodes
    /\ NULL \notin Devices
    /\ NULL \notin Channels

WiringType ==
    [channel   : [Devices -> Channels \cup {NULL}],
     linkUp    : [Devices -> BOOLEAN],
     devList   : [Channels -> (Devices \cup {NULL}) \X (Devices \cup {NULL})],
     unused    : Seq(CrossChannels),
     breakedL  : SUBSET Devices,
     breakedR  : SUBSET Devices,
     overPolar : SUBSET Nodes,
     ub        : BOOLEAN]

-----------------------------------------------------------------------------
(* Terminals and channels.                                                 *)

DevAttach(w, d, c) ==
    [w EXCEPT !.channel[d] = c, !.linkUp[d] = TRUE]

DevDetach(w, d) ==
    [w EXCEPT !.channel[d] = NULL, !.linkUp[d] = FALSE]

\* The first free place of dev_list; the second one when the first is taken.
ChAttach(w, c, d) ==
    [w EXCEPT !.devList[c] = IF @[1] # NULL THEN <<@[1], d>> ELSE <<d, @[2]>>]

ChDetach(w, c) ==
    [w EXCEPT !.devList[c] = <<NULL, NULL>>]

\* Mutant: the terminal itself instead of the other one.
GetAnotherSwapped(w, c, self) ==
    IF self = w.devList[c][1] THEN w.devList[c][1] ELSE w.devList[c][2]

GetAnother(w, c, self) ==
    IF self = w.devList[c][1] THEN w.devList[c][2] ELSE w.devList[c][1]

Ends(w, c) == {w.devList[c][1], w.devList[c][2]}

-----------------------------------------------------------------------------
(* The helper's Connect and DisConnect.                                    *)

\* Mutant: the broken terminals are not erased.
ConnectWithoutErase(w, a, b) ==
    IF w.unused = <<>>
    THEN [w EXCEPT !.ub = TRUE]
    ELSE LET c == w.unused[Len(w.unused)]
             u == [w EXCEPT !.unused = SubSeq(@, 1, Len(@) - 1)]
         IN  ChAttach(ChAttach(DevAttach(DevAttach(u, a, c), b, c), c, a), c, b)

Connect(w, a, b) ==
    IF w.unused = <<>>
    THEN [w EXCEPT !.ub = TRUE]
    ELSE LET c  == w.unused[Len(w.unused)]
             w1 == [w EXCEPT !.unused = SubSeq(@, 1, Len(@) - 1)]
             w2 == DevAttach(DevAttach(w1, a, c), b, c)
             w3 == ChAttach(ChAttach(w2, c, a), c, b)
         IN  IF a[2] = "R"
             THEN [w3 EXCEPT !.breakedR = @ \ {a}, !.breakedL = @ \ {b}]
             ELSE [w3 EXCEPT !.breakedR = @ \ {b}, !.breakedL = @ \ {a}]

\* Mutants of DisConnect: the second terminal keeps the channel; the channel
\* keeps its terminals; the channel does not go back to the pool.
DisConnectOneEnd(w, a, b, c) ==
    LET u == IF a[2] = "R"
             THEN [w EXCEPT !.breakedR = @ \cup {a}, !.breakedL = @ \cup {b}]
             ELSE [w EXCEPT !.breakedR = @ \cup {b}, !.breakedL = @ \cup {a}]
    IN  [ChDetach(DevDetach(u, a), c) EXCEPT !.unused = Append(@, c)]

DisConnectKeepsEnds(w, a, b, c) ==
    LET u == IF a[2] = "R"
             THEN [w EXCEPT !.breakedR = @ \cup {a}, !.breakedL = @ \cup {b}]
             ELSE [w EXCEPT !.breakedR = @ \cup {b}, !.breakedL = @ \cup {a}]
    IN  [DevDetach(DevDetach(u, a), b) EXCEPT !.unused = Append(@, c)]

DisConnectWithoutPush(w, a, b, c) ==
    LET u == IF a[2] = "R"
             THEN [w EXCEPT !.breakedR = @ \cup {a}, !.breakedL = @ \cup {b}]
             ELSE [w EXCEPT !.breakedR = @ \cup {b}, !.breakedL = @ \cup {a}]
    IN  ChDetach(DevDetach(DevDetach(u, a), b), c)

DisConnect(w, a, b, c) ==
    LET w1 == DevDetach(DevDetach(w, a), b)
        w2 == IF a[2] = "R"
              THEN [w1 EXCEPT !.breakedR = @ \cup {a}, !.breakedL = @ \cup {b}]
              ELSE [w1 EXCEPT !.breakedR = @ \cup {b}, !.breakedL = @ \cup {a}]
    IN  [ChDetach(w2, c) EXCEPT !.unused = Append(@, c)]

-----------------------------------------------------------------------------
(* LinkConfig.                                                             *)

\* The permanent links: every forward terminal faces the backward terminal of
\* the next satellite of its plane.
NextInPlane(n) == <<n[1], (n[2] + 1) % N>>

PrevInPlane(n) == <<n[1], (n[2] + N - 1) % N>>

RingWiring ==
    [channel   |-> [d \in Devices |->
                      CASE d[2] = "F" -> Ring(d[1])
                        [] d[2] = "B" -> Ring(PrevInPlane(d[1]))
                        [] OTHER      -> NULL],
     linkUp    |-> [d \in Devices |-> d[2] \in {"F", "B"}],
     devList   |-> [c \in Channels |->
                      IF c \in RingChannels
                      THEN <<<<c[1], "F">>, <<NextInPlane(c[1]), "B">>>>
                      ELSE <<NULL, NULL>>],
     unused    |-> <<>>,
     breakedL  |-> {},
     breakedR  |-> {},
     overPolar |-> {},
     ub        |-> FALSE]

\* The temporary link of the right terminal of n to the left terminal of its
\* neighbour in the next plane; polar is the set of nodes above the limit.
ConfigureCross(w, n, polar) ==
    LET c == Cross(n)
        m == RightOf(n)
    IN  IF {n, m} \cap polar # {}
        THEN [w EXCEPT !.unused    = Append(@, c),
                       !.breakedL  = @ \cup {L(m)},
                       !.breakedR  = @ \cup {R(n)},
                       !.overPolar = @ \cup ({n, m} \cap polar)]
        ELSE LET w1 == ChAttach(ChAttach(w, c, R(n)), c, L(m))
             IN  DevAttach(DevAttach(w1, R(n), c), L(m), c)

-----------------------------------------------------------------------------
(* The two branches of LinkMaintenance.                                    *)

\* Both channels are read before the first DisConnect.
EnterPolar(w, n) ==
    LET w0  == [w EXCEPT !.overPolar = @ \cup {n}]
        chR == w0.channel[R(n)]
        chL == w0.channel[L(n)]
        w1  == IF chR # NULL
               THEN DisConnect(w0, GetAnother(w0, chR, R(n)), R(n), chR) ELSE w0
    IN  IF chL # NULL
        THEN DisConnect(w1, GetAnother(w1, chL, L(n)), L(n), chL) ELSE w1

\* Mutant: devL and devR of the leaving satellite are mixed up.
ReconnectViaCrossed(w, n, m) ==
    LET u == IF R(m) \in w.breakedR THEN Connect(w, L(m), R(n)) ELSE w
    IN  IF L(m) \in u.breakedL THEN Connect(u, R(m), L(n)) ELSE u

\* What n does with a neighbour m that is not over the pole. The code is the
\* same for the neighbour on the left and for the one on the right.
ReconnectVia(w, n, m) ==
    LET w1 == IF R(m) \in w.breakedR THEN Connect(w, R(m), L(n)) ELSE w
    IN  IF L(m) \in w1.breakedL THEN Connect(w1, L(m), R(n)) ELSE w1

\* Mutant: the neighbour on the right is forgotten.
LeavePolarLeftOnly(w, n) ==
    LET u == [w EXCEPT !.overPolar = @ \ {n}]
    IN  IF HasLeft(n) /\ LeftOf(n) \notin u.overPolar
        THEN ReconnectVia(u, n, LeftOf(n)) ELSE u

LeavePolar(w, n) ==
    LET w0 == [w EXCEPT !.overPolar = @ \ {n}]
        w1 == IF HasLeft(n) /\ LeftOf(n) \notin w0.overPolar
              THEN ReconnectVia(w0, n, LeftOf(n)) ELSE w0
    IN  IF HasRight(n) /\ RightOf(n) \notin w0.overPolar
        THEN ReconnectVia(w1, n, RightOf(n)) ELSE w1

-----------------------------------------------------------------------------
(* What every operation above preserves, however the satellites move.      *)

\* The ends of an inter-plane link: a right and a left terminal of two
\* different satellites.
CrossPairs ==
    {<<R(p[1]), L(p[2])>> : p \in {q \in Nodes \X Nodes : q[1] # q[2]}} \cup
    {<<L(p[1]), R(p[2])>> : p \in {q \in Nodes \X Nodes : q[1] # q[2]}}

AttachedIsListed(v) ==
    \A d \in Devices :
       v.channel[d] # NULL =>
          /\ v.linkUp[d]
          /\ d \in Ends(v, v.channel[d])
          /\ NULL \notin Ends(v, v.channel[d])

UpIsAttached(v) == \A d \in Devices : v.linkUp[d] => v.channel[d] # NULL

SideTerminalsOnCross(v) ==
    \A n \in Nodes : {v.channel[R(n)], v.channel[L(n)]} \subseteq CrossChannels \cup {NULL}

CrossHoldsPair(v) ==
    \A c \in CrossChannels : v.devList[c] \in CrossPairs \cup {<<NULL, NULL>>}

PoolDistinct(v) ==
    \A i, j \in 1 .. Len(v.unused) : v.unused[i] = v.unused[j] => i = j

PoolEmpty(v) ==
    \A i \in 1 .. Len(v.unused) : v.devList[v.unused[i]] = <<NULL, NULL>>

WiringSound(v) ==
    /\ v \in WiringType
    /\ AttachedIsListed(v)
    /\ UpIsAttached(v)
    /\ SideTerminalsOnCross(v)
    /\ CrossHoldsPair(v)
    /\ PoolDistinct(v)
    /\ PoolEmpty(v)

=============================================================================

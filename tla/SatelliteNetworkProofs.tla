------------------------ MODULE SatelliteNetworkProofs ------------------------
(***************************************************************************)
(* The satellite links, for every number of planes and of satellites.      *)
(*                                                                         *)
(* I. The wiring is sound however the satellites move and whenever packets *)
(* are sent: a terminal with a channel always finds both ends on it, and   *)
(* the pool of unused channels never holds a channel twice or one in use.  *)
(*                                                                         *)
(* II. When neighbouring planes do not leave the polar region within one   *)
(* pass (StaggeredSpec), links join neighbours, the record of the broken   *)
(* terminals is exact and the pool is never exhausted.                     *)
(*                                                                         *)
(* III. The link layer put together, for every motion of the satellites    *)
(* and every set of sending terminals: a packet whose transmission started *)
(* has exactly one fate, none is put on a link over the polar limit, the   *)
(* packets drive the wiring only as module Constellation allows, and a     *)
(* terminal is a terminal of OpticalDevice. A send changes the wiring in   *)
(* one way only, SendBreaksLink of module Constellation, so its invariant  *)
(* holds here too. Of a packet the transmitter knows the number            *)
(* (StartedInOrder of OpticalDevice): it is new when ChannelSend gets it,  *)
(* and every later step moves it from one of air, got and lost to another. *)
(*                                                                         *)
(* IV. The orbits of module Orbit. When LinkMaintenance runs often enough  *)
(* for the planes (CheckedOften), the motion is the staggered one of part  *)
(* II and the links that are up after a pass are those with no satellite   *)
(* recorded as over the pole. The condition is met by every constellation  *)
(* whose figures satisfy CheckedInPhase.                                   *)
(***************************************************************************)
EXTENDS SatelliteNetwork, Orbit, SequenceTheorems, FiniteSetTheorems, TLAPS

-----------------------------------------------------------------------------
(* I. The wiring: the fields of the record after each operation.           *)

\* OpticalDevice::Attach sets the channel and the link flag of one terminal.
LEMMA DevAttachFields ==
    ASSUME NEW v \in WiringType, NEW d \in Devices, NEW c \in Channels
    PROVE  LET u == DevAttach(v, d, c)
           IN  /\ u \in WiringType
               /\ u.channel = [v.channel EXCEPT ![d] = c]
               /\ u.linkUp = [v.linkUp EXCEPT ![d] = TRUE]
               /\ u.devList = v.devList /\ u.unused = v.unused
               /\ u.overPolar = v.overPolar
  <1> USE DEF WiringType, DevAttach
  <1>1. [v.channel EXCEPT ![d] = c] \in [Devices -> Channels \cup {NULL}]
    OBVIOUS
  <1>2. [v.linkUp EXCEPT ![d] = TRUE] \in [Devices -> BOOLEAN]
    OBVIOUS
  <1>3. DevAttach(v, d, c) \in WiringType
    BY <1>1, <1>2
  <1> QED
    BY <1>3

\* OpticalDevice::Detach clears the channel and the link flag of one terminal.
LEMMA DevDetachFields ==
    ASSUME NEW v \in WiringType, NEW d \in Devices
    PROVE  LET u == DevDetach(v, d)
           IN  /\ u \in WiringType
               /\ u.channel = [v.channel EXCEPT ![d] = NULL]
               /\ u.linkUp = [v.linkUp EXCEPT ![d] = FALSE]
               /\ u.devList = v.devList /\ u.unused = v.unused
               /\ u.overPolar = v.overPolar
  <1> USE DEF WiringType, DevDetach
  <1>1. [v.channel EXCEPT ![d] = NULL] \in [Devices -> Channels \cup {NULL}]
    OBVIOUS
  <1>2. [v.linkUp EXCEPT ![d] = FALSE] \in [Devices -> BOOLEAN]
    OBVIOUS
  <1>3. DevDetach(v, d) \in WiringType
    BY <1>1, <1>2
  <1> QED
    BY <1>3

\* What DisConnect does to the fields that soundness speaks of.
Broken(v, u, a, b, c) ==
    /\ u \in WiringType
    /\ u.channel = [v.channel EXCEPT ![a] = NULL, ![b] = NULL]
    /\ u.linkUp = [v.linkUp EXCEPT ![a] = FALSE, ![b] = FALSE]
    /\ u.devList = [v.devList EXCEPT ![c] = <<NULL, NULL>>]
    /\ u.unused = Append(v.unused, c)
    /\ u.overPolar = v.overPolar

\* ConstellationHelper::DisConnect detaches both terminals, empties the channel
\* and pushes it on unused_link.
LEMMA DisConnectFields ==
    ASSUME NEW v \in WiringType, NEW a \in Devices, NEW b \in Devices,
           NEW c \in CrossChannels
    PROVE  Broken(v, DisConnect(v, a, b, c), a, b, c)
  <1> DEFINE w0 == DevDetach(v, a)
             w1 == DevDetach(w0, b)
             w2 == IF a[2] = "R"
                   THEN [w1 EXCEPT !.breakedR = @ \cup {a}, !.breakedL = @ \cup {b}]
                   ELSE [w1 EXCEPT !.breakedR = @ \cup {b}, !.breakedL = @ \cup {a}]
             w3 == ChDetach(w2, c)
             u  == [w3 EXCEPT !.unused = Append(@, c)]
  <1>1. /\ w1 \in WiringType
        /\ w1.channel = [v.channel EXCEPT ![a] = NULL, ![b] = NULL]
        /\ w1.linkUp = [v.linkUp EXCEPT ![a] = FALSE, ![b] = FALSE]
        /\ w1.devList = v.devList /\ w1.unused = v.unused
        /\ w1.overPolar = v.overPolar
    <2>1. /\ w0 \in WiringType
          /\ w0.channel = [v.channel EXCEPT ![a] = NULL]
          /\ w0.linkUp = [v.linkUp EXCEPT ![a] = FALSE]
          /\ w0.devList = v.devList /\ w0.unused = v.unused
          /\ w0.overPolar = v.overPolar
      BY DevDetachFields
    <2> HIDE DEF w0
    <2>2. /\ w1 \in WiringType
          /\ w1.channel = [w0.channel EXCEPT ![b] = NULL]
          /\ w1.linkUp = [w0.linkUp EXCEPT ![b] = FALSE]
          /\ w1.devList = w0.devList /\ w1.unused = w0.unused
          /\ w1.overPolar = w0.overPolar
      BY <2>1, DevDetachFields
    <2> QED
      BY <2>1, <2>2
  <1> HIDE DEF w1
  <1>2. /\ w2 \in WiringType /\ w2.channel = w1.channel /\ w2.linkUp = w1.linkUp
        /\ w2.devList = w1.devList /\ w2.unused = w1.unused
        /\ w2.overPolar = w1.overPolar
    <2>1. /\ w1.breakedR \cup {a} \in SUBSET Devices
          /\ w1.breakedL \cup {b} \in SUBSET Devices
          /\ w1.breakedR \cup {b} \in SUBSET Devices
          /\ w1.breakedL \cup {a} \in SUBSET Devices
      BY <1>1 DEF WiringType
    <2>2. CASE a[2] = "R"
      BY <1>1, <2>1, <2>2 DEF WiringType
    <2>3. CASE a[2] # "R"
      BY <1>1, <2>1, <2>3 DEF WiringType
    <2> QED
      BY <2>2, <2>3
  <1> HIDE DEF w2
  <1>3. c \in Channels
    BY DEF Channels
  <1>4. [w2.devList EXCEPT ![c] = <<NULL, NULL>>]
           \in [Channels -> (Devices \cup {NULL}) \X (Devices \cup {NULL})]
    BY <1>2, <1>3 DEF WiringType
  <1>5. /\ w3 \in WiringType /\ w3.channel = w2.channel /\ w3.linkUp = w2.linkUp
        /\ w3.devList = [w2.devList EXCEPT ![c] = <<NULL, NULL>>]
        /\ w3.unused = w2.unused /\ w3.overPolar = w2.overPolar
    BY <1>2, <1>4 DEF WiringType, ChDetach
  <1> HIDE DEF w3
  <1>6. Append(w3.unused, c) \in Seq(CrossChannels)
    BY <1>5 DEF WiringType
  <1>7. /\ u \in WiringType /\ u.channel = w3.channel /\ u.linkUp = w3.linkUp
        /\ u.devList = w3.devList /\ u.unused = Append(w3.unused, c)
        /\ u.overPolar = w3.overPolar
    BY <1>5, <1>6 DEF WiringType
  <1>8. u = DisConnect(v, a, b, c)
    BY DEF u, w3, w2, w1, w0, DisConnect
  <1> HIDE DEF u
  <1> QED
    BY <1>1, <1>2, <1>5, <1>7, <1>8 DEF Broken

\* Both terminals of a link are attached to the same channel.
LEMMA DevAttachTwice ==
    ASSUME NEW v \in WiringType, NEW a \in Devices, NEW b \in Devices,
           NEW c \in Channels
    PROVE  LET u == DevAttach(DevAttach(v, a, c), b, c)
           IN  /\ u \in WiringType
               /\ u.channel = [v.channel EXCEPT ![a] = c, ![b] = c]
               /\ u.linkUp = [v.linkUp EXCEPT ![a] = TRUE, ![b] = TRUE]
               /\ u.devList = v.devList /\ u.unused = v.unused
               /\ u.overPolar = v.overPolar
  <1> DEFINE u0 == DevAttach(v, a, c)
             u1 == DevAttach(u0, b, c)
  <1>1. /\ u0 \in WiringType
        /\ u0.channel = [v.channel EXCEPT ![a] = c]
        /\ u0.linkUp = [v.linkUp EXCEPT ![a] = TRUE]
        /\ u0.devList = v.devList /\ u0.unused = v.unused
        /\ u0.overPolar = v.overPolar
    BY DevAttachFields
  <1> HIDE DEF u0
  <1>2. /\ u1 \in WiringType
        /\ u1.channel = [u0.channel EXCEPT ![b] = c]
        /\ u1.linkUp = [u0.linkUp EXCEPT ![b] = TRUE]
        /\ u1.devList = u0.devList /\ u1.unused = u0.unused
        /\ u1.overPolar = u0.overPolar
    <2>1. u0 \in WiringType
      BY <1>1
    <2> QED
      BY <2>1, DevAttachFields
  <1> HIDE DEF u1
  <1>3. /\ u1 \in WiringType
        /\ u1.channel = [v.channel EXCEPT ![a] = c, ![b] = c]
        /\ u1.linkUp = [v.linkUp EXCEPT ![a] = TRUE, ![b] = TRUE]
        /\ u1.devList = v.devList /\ u1.unused = v.unused
        /\ u1.overPolar = v.overPolar
    BY <1>1, <1>2
  <1> QED
    BY <1>3 DEF u0, u1

\* OpticalChannel::Attach fills the first place, or the second if it is taken.
LEMMA ChAttachFields ==
    ASSUME NEW v \in WiringType, NEW d \in Devices, NEW c \in Channels
    PROVE  LET u  == ChAttach(v, c, d)
               pr == IF v.devList[c][1] # NULL THEN <<v.devList[c][1], d>>
                                               ELSE <<d, v.devList[c][2]>>
           IN  /\ u \in WiringType
               /\ u.devList = [v.devList EXCEPT ![c] = pr]
               /\ u.channel = v.channel /\ u.linkUp = v.linkUp
               /\ u.unused = v.unused /\ u.overPolar = v.overPolar
  <1> DEFINE pr == IF v.devList[c][1] # NULL THEN <<v.devList[c][1], d>>
                                             ELSE <<d, v.devList[c][2]>>
             dl == [v.devList EXCEPT ![c] = pr]
  <1>1. pr \in (Devices \cup {NULL}) \X (Devices \cup {NULL})
    BY DEF WiringType
  <1>2. ChAttach(v, c, d) = [v EXCEPT !.devList = dl]
    BY DEF ChAttach
  <1> HIDE DEF pr
  <1>3. dl \in [Channels -> (Devices \cup {NULL}) \X (Devices \cup {NULL})]
    BY <1>1 DEF WiringType
  <1> HIDE DEF dl
  <1>4. /\ [v EXCEPT !.devList = dl] \in WiringType
        /\ [v EXCEPT !.devList = dl].devList = dl
        /\ [v EXCEPT !.devList = dl].channel = v.channel
        /\ [v EXCEPT !.devList = dl].linkUp = v.linkUp
        /\ [v EXCEPT !.devList = dl].unused = v.unused
        /\ [v EXCEPT !.devList = dl].overPolar = v.overPolar
    BY <1>3 DEF WiringType
  <1> QED
    BY <1>2, <1>4 DEF dl, pr

\* Two ChAttach calls on a channel with no terminal give it the pair <<a, b>>.
ChAttachedPair(v, u, c, a, b) ==
    /\ u \in WiringType
    /\ u.devList = [v.devList EXCEPT ![c] = <<a, b>>]
    /\ u.channel = v.channel /\ u.linkUp = v.linkUp
    /\ u.unused = v.unused /\ u.overPolar = v.overPolar

\* OpticalChannel::Attach called twice on an empty channel fills both places.
LEMMA ChAttachTwice ==
    ASSUME NEW v \in WiringType, NEW a \in Devices, NEW b \in Devices,
           NEW c \in Channels, v.devList[c] = <<NULL, NULL>>
    PROVE  ChAttachedPair(v, ChAttach(ChAttach(v, c, a), c, b), c, a, b)
  <1> DEFINE t0 == ChAttach(v, c, a)
             t1 == ChAttach(t0, c, b)
  <1>0. v.devList[c][1] = NULL /\ v.devList[c][2] = NULL /\ a # NULL
    BY ConstellationAssumption
  <1>1. /\ t0 \in WiringType
        /\ t0.devList = [v.devList EXCEPT ![c] = <<a, NULL>>]
        /\ t0.channel = v.channel /\ t0.linkUp = v.linkUp
        /\ t0.unused = v.unused /\ t0.overPolar = v.overPolar
    BY <1>0, ChAttachFields
  <1> HIDE DEF t0
  <1>2. t0.devList[c][1] = a
    BY <1>1 DEF WiringType
  <1>3. /\ t1 \in WiringType
        /\ t1.devList = [t0.devList EXCEPT ![c] = <<a, b>>]
        /\ t1.channel = t0.channel /\ t1.linkUp = t0.linkUp
        /\ t1.unused = t0.unused /\ t1.overPolar = t0.overPolar
    BY <1>0, <1>1, <1>2, ChAttachFields
  <1> HIDE DEF t1
  <1>4. [t0.devList EXCEPT ![c] = <<a, b>>] = [v.devList EXCEPT ![c] = <<a, b>>]
    BY <1>1 DEF WiringType
  <1> QED
    BY <1>1, <1>3, <1>4 DEF t0, t1, ChAttachedPair

\* What Connect does to the fields that soundness speaks of.
Joined(v, u, a, b, c) ==
    /\ u \in WiringType
    /\ u.channel = [v.channel EXCEPT ![a] = c, ![b] = c]
    /\ u.linkUp = [v.linkUp EXCEPT ![a] = TRUE, ![b] = TRUE]
    /\ u.devList = [v.devList EXCEPT ![c] = <<a, b>>]
    /\ u.unused = SubSeq(v.unused, 1, Len(v.unused) - 1)
    /\ u.overPolar = v.overPolar

\* ConstellationHelper::Connect pops the last channel of unused_link and puts
\* both terminals on it.
LEMMA ConnectFields ==
    ASSUME NEW v \in WiringType, NEW a \in Devices, NEW b \in Devices,
           v.unused # <<>>,
           v.devList[v.unused[Len(v.unused)]] = <<NULL, NULL>>
    PROVE  Joined(v, Connect(v, a, b), a, b, v.unused[Len(v.unused)])
  <1> DEFINE c  == v.unused[Len(v.unused)]
             q  == SubSeq(v.unused, 1, Len(v.unused) - 1)
             w1 == [v EXCEPT !.unused = q]
             w2 == DevAttach(DevAttach(w1, a, c), b, c)
             w3 == ChAttach(ChAttach(w2, c, a), c, b)
             u  == IF a[2] = "R"
                   THEN [w3 EXCEPT !.breakedR = @ \ {a}, !.breakedL = @ \ {b}]
                   ELSE [w3 EXCEPT !.breakedR = @ \ {b}, !.breakedL = @ \ {a}]
  <1>0. u = Connect(v, a, b)
    BY DEF Connect
  <1>1. v.unused \in Seq(CrossChannels)
    BY DEF WiringType
  <1>2. c \in CrossChannels /\ c \in Channels /\ q \in Seq(CrossChannels)
    BY <1>1 DEF Channels
  <1> HIDE DEF c, q
  <1>3. /\ w1 \in WiringType /\ w1.channel = v.channel /\ w1.linkUp = v.linkUp
        /\ w1.devList = v.devList /\ w1.unused = q /\ w1.overPolar = v.overPolar
    BY <1>2 DEF WiringType
  <1> HIDE DEF w1
  <1>4. /\ w2 \in WiringType
        /\ w2.channel = [w1.channel EXCEPT ![a] = c, ![b] = c]
        /\ w2.linkUp = [w1.linkUp EXCEPT ![a] = TRUE, ![b] = TRUE]
        /\ w2.devList = w1.devList /\ w2.unused = w1.unused
        /\ w2.overPolar = w1.overPolar
    <2>1. w1 \in WiringType
      BY <1>3
    <2> QED
      BY <2>1, <1>2, DevAttachTwice
  <1> HIDE DEF w2
  <1>5. w2.devList[c] = <<NULL, NULL>> /\ w2 \in WiringType
    BY <1>3, <1>4 DEF c
  <1>6. /\ w3 \in WiringType
        /\ w3.devList = [w2.devList EXCEPT ![c] = <<a, b>>]
        /\ w3.channel = w2.channel /\ w3.linkUp = w2.linkUp
        /\ w3.unused = w2.unused /\ w3.overPolar = w2.overPolar
    <2>1. c \in Channels
      BY <1>2
    <2>2. w2 \in WiringType
      BY <1>5
    <2>3. w2.devList[c] = <<NULL, NULL>>
      BY <1>5
    <2>4. ChAttachedPair(w2, w3, c, a, b)
      BY <2>1, <2>2, <2>3, ChAttachTwice
    <2> HIDE DEF w3
    <2> QED
      BY <2>4 DEF ChAttachedPair
  <1> HIDE DEF w3
  <1>7. /\ u \in WiringType /\ u.devList = w3.devList /\ u.channel = w3.channel
        /\ u.linkUp = w3.linkUp /\ u.unused = w3.unused /\ u.overPolar = w3.overPolar
    BY <1>6 DEF WiringType
  <1> HIDE DEF u
  <1>8. /\ u.channel = [v.channel EXCEPT ![a] = c, ![b] = c]
        /\ u.linkUp = [v.linkUp EXCEPT ![a] = TRUE, ![b] = TRUE]
        /\ u.devList = [v.devList EXCEPT ![c] = <<a, b>>]
        /\ u.unused = q /\ u.overPolar = v.overPolar
    BY <1>3, <1>4, <1>6, <1>7
  <1> QED
    BY <1>0, <1>7, <1>8 DEF c, q, Joined

-----------------------------------------------------------------------------
(* Facts about names.                                                      *)

\* The right and the left terminal of a satellite are two terminals.
LEMMA SideTerminals ==
    ASSUME NEW n \in Nodes
    PROVE  R(n) \in Devices /\ L(n) \in Devices /\ R(n) # L(n)
  BY DEF R, L, Devices, Directions

\* The ends of an inter-plane link are terminals of two satellites.
LEMMA CrossPairFacts ==
    ASSUME NEW pr \in CrossPairs
    PROVE  /\ pr = <<pr[1], pr[2]>>
           /\ pr[1] \in Devices /\ pr[2] \in Devices
           /\ pr[1] # NULL /\ pr[2] # NULL /\ pr[1] # pr[2]
           /\ pr[1][1] # pr[2][1]
           /\ pr[1][2] \in {"R", "L"} /\ pr[2][2] \in {"R", "L"}
           /\ pr[1][1] \in Nodes /\ pr[2][1] \in Nodes
           /\ pr # <<NULL, NULL>>
           /\ <<pr[2], pr[1]>> \in CrossPairs
  <1>1. PICK p \in Nodes \X Nodes :
           p[1] # p[2] /\ (pr = <<R(p[1]), L(p[2])>> \/ pr = <<L(p[1]), R(p[2])>>)
    BY DEF CrossPairs
  <1>2. p[1] \in Nodes /\ p[2] \in Nodes
    OBVIOUS
  <1>3. /\ R(p[1]) \in Devices /\ L(p[1]) \in Devices
        /\ R(p[2]) \in Devices /\ L(p[2]) \in Devices
    BY <1>2, SideTerminals
  <1>4. /\ R(p[1])[1] = p[1] /\ R(p[1])[2] = "R" /\ L(p[1])[1] = p[1] /\ L(p[1])[2] = "L"
        /\ R(p[2])[1] = p[2] /\ R(p[2])[2] = "R" /\ L(p[2])[1] = p[2] /\ L(p[2])[2] = "L"
    BY DEF R, L
  <1>5. <<pr[2], pr[1]>> \in CrossPairs
    <2>1. <<p[2], p[1]>> \in {q \in Nodes \X Nodes : q[1] # q[2]}
      BY <1>1, <1>2
    <2>2. <<pr[2], pr[1]>> \in {<<L(p[2]), R(p[1])>>, <<R(p[2]), L(p[1])>>}
      BY <1>1
    <2> QED
      BY <2>1, <2>2 DEF CrossPairs
  <1>6. NULL \notin Devices
    BY ConstellationAssumption
  <1>7. CASE pr = <<R(p[1]), L(p[2])>>
    BY <1>1, <1>2, <1>3, <1>4, <1>5, <1>6, <1>7
  <1>8. CASE pr = <<L(p[1]), R(p[2])>>
    BY <1>1, <1>2, <1>3, <1>4, <1>5, <1>6, <1>8
  <1> QED
    BY <1>1, <1>7, <1>8

-----------------------------------------------------------------------------
(* The operations keep the wiring sound.                                   *)

\* The channel of a side terminal is an inter-plane one and holds a pair of
\* terminals of two satellites, the terminal among them.
LEMMA AttachedSideTerminal ==
    ASSUME NEW v, WiringSound(v), NEW d \in Devices, d[2] \in {"R", "L"},
           NEW c, c = v.channel[d], c # NULL
    PROVE  /\ c \in CrossChannels
           /\ v.devList[c] \in CrossPairs
           /\ d \in Ends(v, c)
  <1>1. d[1] \in Nodes /\ d = <<d[1], d[2]>>
    BY DEF Devices
  <1>2. d \in {R(d[1]), L(d[1])}
    BY <1>1 DEF R, L
  <1>3. c \in CrossChannels
    BY <1>1, <1>2 DEF WiringSound, SideTerminalsOnCross
  <1>4. d \in Ends(v, c) /\ NULL \notin Ends(v, c)
    BY DEF WiringSound, AttachedIsListed
  <1>5. v.devList[c] # <<NULL, NULL>>
    BY <1>4 DEF Ends
  <1> QED
    BY <1>3, <1>4, <1>5 DEF WiringSound, CrossHoldsPair

\* Breaking the link of a channel that holds a pair keeps the wiring sound.
LEMMA DisConnectSound ==
    ASSUME NEW v, WiringSound(v), NEW c \in CrossChannels, NEW a, NEW b,
           v.devList[c] \in CrossPairs,
           v.devList[c] = <<a, b>> \/ v.devList[c] = <<b, a>>
    PROVE  WiringSound(DisConnect(v, a, b, c))
  <1> DEFINE u == DisConnect(v, a, b, c)
  <1>1. a \in Devices /\ b \in Devices /\ Ends(v, c) = {a, b}
    <2> DEFINE pr == v.devList[c]
    <2>1. pr \in CrossPairs /\ (pr = <<a, b>> \/ pr = <<b, a>>)
      OBVIOUS
    <2>2. Ends(v, c) = {pr[1], pr[2]}
      BY DEF Ends
    <2> HIDE DEF pr
    <2>3. pr[1] \in Devices /\ pr[2] \in Devices
      BY <2>1, CrossPairFacts
    <2>4. (a = pr[1] /\ b = pr[2]) \/ (b = pr[1] /\ a = pr[2])
      BY <2>1
    <2> QED
      BY <2>2, <2>3, <2>4
  <1>2. v \in WiringType /\ c \in Channels
    BY DEF WiringSound, Channels
  <1>3. Broken(v, u, a, b, c)
    BY <1>1, <1>2, DisConnectFields
  <1> HIDE DEF u
  <1>4. /\ u \in WiringType
        /\ \A d \in Devices \ {a, b} : u.channel[d] = v.channel[d] /\ u.linkUp[d] = v.linkUp[d]
        /\ u.channel[a] = NULL /\ u.channel[b] = NULL /\ ~ u.linkUp[a] /\ ~ u.linkUp[b]
        /\ u.devList[c] = <<NULL, NULL>>
        /\ \A e \in Channels \ {c} : u.devList[e] = v.devList[e]
    BY <1>1, <1>2, <1>3 DEF Broken, WiringType
  <1>5. AttachedIsListed(u)
    <2> SUFFICES ASSUME NEW d \in Devices, u.channel[d] # NULL
                 PROVE  /\ u.linkUp[d]
                        /\ d \in Ends(u, u.channel[d])
                        /\ NULL \notin Ends(u, u.channel[d])
      BY DEF AttachedIsListed
    <2>1. d \notin {a, b} /\ u.channel[d] = v.channel[d] /\ u.linkUp[d] = v.linkUp[d]
      BY <1>4
    <2>2. /\ v.linkUp[d]
          /\ d \in Ends(v, v.channel[d])
          /\ NULL \notin Ends(v, v.channel[d])
      BY <2>1 DEF WiringSound, AttachedIsListed
    <2>3. v.channel[d] # c /\ v.channel[d] \in Channels
      BY <1>1, <1>2, <2>1, <2>2 DEF WiringType
    <2>4. u.devList[v.channel[d]] = v.devList[v.channel[d]]
      BY <2>3, <1>4
    <2> QED
      BY <2>1, <2>2, <2>4 DEF Ends
  <1>6. SideTerminalsOnCross(u)
    <2> SUFFICES ASSUME NEW n \in Nodes
                 PROVE  {u.channel[R(n)], u.channel[L(n)]} \subseteq CrossChannels \cup {NULL}
      BY DEF SideTerminalsOnCross
    <2>1. {v.channel[R(n)], v.channel[L(n)]} \subseteq CrossChannels \cup {NULL}
      BY DEF WiringSound, SideTerminalsOnCross
    <2>2. R(n) \in Devices /\ L(n) \in Devices
      BY SideTerminals
    <2> QED
      BY <1>4, <2>1, <2>2
  <1>7. CrossHoldsPair(u)
    BY <1>4 DEF WiringSound, CrossHoldsPair, Channels
  <1>8. v.unused \in Seq(CrossChannels) /\ u.unused = Append(v.unused, c)
    BY <1>2, <1>3 DEF WiringType, Broken
  <1>9. \A i \in 1 .. Len(v.unused) : v.unused[i] # c
    BY CrossPairFacts DEF WiringSound, PoolEmpty
  <1>10. /\ Len(u.unused) = Len(v.unused) + 1 /\ Len(v.unused) \in Nat
         /\ u.unused[Len(v.unused) + 1] = c
         /\ \A i \in 1 .. Len(v.unused) : u.unused[i] = v.unused[i] /\ v.unused[i] \in Channels
    BY <1>8 DEF Channels
  <1>11. PoolDistinct(u)
    BY <1>9, <1>10 DEF WiringSound, PoolDistinct
  <1>12. PoolEmpty(u)
    <2> SUFFICES ASSUME NEW i \in 1 .. Len(u.unused)
                 PROVE  u.devList[u.unused[i]] = <<NULL, NULL>>
      BY DEF PoolEmpty
    <2>1. CASE i = Len(v.unused) + 1
      <3>1. u.unused[i] = c
        BY <2>1, <1>10
      <3> QED
        BY <3>1, <1>4
    <2>2. CASE i \in 1 .. Len(v.unused)
      <3>1. u.unused[i] = v.unused[i] /\ v.unused[i] \in Channels /\ v.unused[i] # c
        BY <2>2, <1>9, <1>10
      <3>2. v.devList[v.unused[i]] = <<NULL, NULL>>
        BY <2>2 DEF WiringSound, PoolEmpty
      <3> QED
        BY <3>1, <3>2, <1>4
    <2> QED
      BY <2>1, <2>2, <1>10
  <1>13. UpIsAttached(u)
    BY <1>4 DEF WiringSound, UpIsAttached
  <1> QED
    BY <1>4, <1>5, <1>6, <1>7, <1>11, <1>12, <1>13 DEF WiringSound, u

\* The helper's own lists do not matter to soundness.
LEMMA ListsDoNotMatter ==
    ASSUME NEW v, WiringSound(v), NEW u \in WiringType,
           u.channel = v.channel, u.linkUp = v.linkUp,
           u.devList = v.devList, u.unused = v.unused
    PROVE  WiringSound(u)
  BY DEF WiringSound, AttachedIsListed, UpIsAttached, SideTerminalsOnCross,
         CrossHoldsPair, PoolDistinct, PoolEmpty, Ends

\* Connecting a right and a left terminal of two satellites keeps the wiring
\* sound, whatever channel they were on before; popping an empty pool only
\* records the undefined behaviour.
LEMMA ConnectSound ==
    ASSUME NEW v, WiringSound(v), NEW a, NEW b, <<a, b>> \in CrossPairs
    PROVE  WiringSound(Connect(v, a, b))
  <1> DEFINE u == Connect(v, a, b)
             c == v.unused[Len(v.unused)]
  <1>1. a \in Devices /\ b \in Devices /\ a # NULL /\ b # NULL
    <2> DEFINE pr == <<a, b>>
    <2>1. pr \in CrossPairs /\ a = pr[1] /\ b = pr[2]
      OBVIOUS
    <2> HIDE DEF pr
    <2> QED
      BY <2>1, CrossPairFacts
  <1>2. v \in WiringType
    BY DEF WiringSound
  <1>3. CASE v.unused = <<>>
    <2>1. u = [v EXCEPT !.ub = TRUE]
      BY <1>3 DEF Connect
    <2>2. /\ u \in WiringType /\ u.channel = v.channel /\ u.linkUp = v.linkUp
          /\ u.devList = v.devList /\ u.unused = v.unused
      BY <1>2, <2>1 DEF WiringType
    <2> QED
      BY <2>2, ListsDoNotMatter
  <1>4. CASE v.unused # <<>>
    <2>1. v.unused \in Seq(CrossChannels)
      BY <1>2 DEF WiringType
    <2>2. Len(v.unused) \in 1 .. Len(v.unused) /\ Len(v.unused) \in Nat
      BY <1>4, <2>1
    <2>a. v.devList[c] = <<NULL, NULL>>
      BY <2>2 DEF WiringSound, PoolEmpty
    <2>b. c \in CrossChannels
      BY <2>1, <2>2
    <2>3. v.devList[c] = <<NULL, NULL>> /\ c \in CrossChannels /\ c \in Channels
      BY <2>a, <2>b DEF Channels
    <2>4. Joined(v, u, a, b, c)
      BY <1>1, <1>2, <1>4, <2>3, ConnectFields
    <2>5. \A i \in 1 .. Len(v.unused) - 1 : v.unused[i] # c
      BY <2>2 DEF WiringSound, PoolDistinct
    <2> HIDE DEF u, c
    <2>6. /\ u \in WiringType
          /\ \A d \in Devices \ {a, b} : u.channel[d] = v.channel[d] /\ u.linkUp[d] = v.linkUp[d]
          /\ u.channel[a] = c /\ u.channel[b] = c /\ u.linkUp[a] /\ u.linkUp[b]
          /\ u.devList[c] = <<a, b>>
          /\ \A e \in Channels \ {c} : u.devList[e] = v.devList[e]
      <3>1. /\ v.channel \in [Devices -> Channels \cup {NULL}]
            /\ v.linkUp \in [Devices -> BOOLEAN]
            /\ v.devList \in [Channels -> (Devices \cup {NULL}) \X (Devices \cup {NULL})]
        BY <1>2 DEF WiringType
      <3>2. /\ u \in WiringType
            /\ u.channel = [v.channel EXCEPT ![a] = c, ![b] = c]
            /\ u.linkUp = [v.linkUp EXCEPT ![a] = TRUE, ![b] = TRUE]
            /\ u.devList = [v.devList EXCEPT ![c] = <<a, b>>]
        BY <2>4 DEF Joined
      <3>3. /\ \A d \in Devices \ {a, b} :
                   u.channel[d] = v.channel[d] /\ u.linkUp[d] = v.linkUp[d]
            /\ u.channel[a] = c /\ u.channel[b] = c /\ u.linkUp[a] /\ u.linkUp[b]
        BY <1>1, <3>1, <3>2
      <3>4. /\ u.devList[c] = <<a, b>>
            /\ \A e \in Channels \ {c} : u.devList[e] = v.devList[e]
        BY <2>3, <3>1, <3>2
      <3> QED
        BY <3>2, <3>3, <3>4
    <2>7. AttachedIsListed(u)
      <3> SUFFICES ASSUME NEW d \in Devices, u.channel[d] # NULL
                   PROVE  /\ u.linkUp[d]
                          /\ d \in Ends(u, u.channel[d])
                          /\ NULL \notin Ends(u, u.channel[d])
        BY DEF AttachedIsListed
      <3>1. CASE d \in {a, b}
        BY <3>1, <1>1, <2>6 DEF Ends
      <3>2. CASE d \notin {a, b}
        <4>1. u.channel[d] = v.channel[d] /\ u.linkUp[d] = v.linkUp[d]
          BY <3>2, <2>6
        <4>2. /\ v.linkUp[d]
              /\ d \in Ends(v, v.channel[d])
              /\ NULL \notin Ends(v, v.channel[d])
          BY <4>1 DEF WiringSound, AttachedIsListed
        <4>3. v.channel[d] # c /\ v.channel[d] \in Channels
          BY <1>2, <2>3, <4>1, <4>2 DEF WiringType, Ends
        <4>4. u.devList[v.channel[d]] = v.devList[v.channel[d]]
          BY <4>3, <2>6
        <4> QED
          BY <4>1, <4>2, <4>4 DEF Ends
      <3> QED
        BY <3>1, <3>2
    <2>8. SideTerminalsOnCross(u)
      <3> SUFFICES ASSUME NEW n \in Nodes
                   PROVE  {u.channel[R(n)], u.channel[L(n)]} \subseteq CrossChannels \cup {NULL}
        BY DEF SideTerminalsOnCross
      <3>1. {v.channel[R(n)], v.channel[L(n)]} \subseteq CrossChannels \cup {NULL}
        BY DEF WiringSound, SideTerminalsOnCross
      <3>2. R(n) \in Devices /\ L(n) \in Devices
        BY SideTerminals
      <3> QED
        BY <2>3, <2>6, <3>1, <3>2
    <2>9. CrossHoldsPair(u)
      BY <2>6 DEF WiringSound, CrossHoldsPair, Channels
    <2>10. u.unused = SubSeq(v.unused, 1, Len(v.unused) - 1)
      BY <2>4 DEF Joined
    <2>11. /\ Len(u.unused) = Len(v.unused) - 1
           /\ \A i \in 1 .. Len(v.unused) - 1 : u.unused[i] = v.unused[i] /\ v.unused[i] \in Channels
      BY <2>1, <2>2, <2>10 DEF Channels
    <2>12. PoolDistinct(u)
      BY <2>2, <2>11 DEF WiringSound, PoolDistinct
    <2>13. PoolEmpty(u)
      <3> SUFFICES ASSUME NEW i \in 1 .. Len(v.unused) - 1
                   PROVE  u.devList[u.unused[i]] = <<NULL, NULL>>
        BY <2>11 DEF PoolEmpty
      <3>1. u.unused[i] = v.unused[i] /\ v.unused[i] \in Channels /\ v.unused[i] # c
        BY <2>5, <2>11
      <3>2. v.devList[v.unused[i]] = <<NULL, NULL>>
        BY <2>2 DEF WiringSound, PoolEmpty
      <3> QED
        BY <3>1, <3>2, <2>6
    <2>14. UpIsAttached(u)
      BY <2>3, <2>6, ConstellationAssumption DEF WiringSound, UpIsAttached
    <2> QED
      BY <2>6, <2>7, <2>8, <2>9, <2>12, <2>13, <2>14 DEF WiringSound, u
  <1> QED
    BY <1>3, <1>4

\* Breaking the link of a side terminal d keeps the wiring sound and does not
\* touch the other terminals of its satellite.
LEMMA BreakTerminal ==
    ASSUME NEW v, WiringSound(v), NEW d \in Devices, d[2] \in {"R", "L"},
           NEW c, c = v.channel[d], c # NULL
    PROVE  /\ WiringSound(DisConnect(v, GetAnother(v, c, d), d, c))
           /\ \A e \in Devices : e # d /\ e[1] = d[1] =>
                 DisConnect(v, GetAnother(v, c, d), d, c).channel[e] = v.channel[e]
  <1> DEFINE pr == v.devList[c]
             a  == GetAnother(v, c, d)
  <1>1. c \in CrossChannels /\ pr \in CrossPairs /\ d \in Ends(v, c)
    BY AttachedSideTerminal
  <1>2. d = pr[1] \/ d = pr[2]
    BY <1>1 DEF Ends
  <1>3. a = IF d = pr[1] THEN pr[2] ELSE pr[1]
    BY DEF GetAnother
  <1> HIDE DEF pr, a
  <1>4. /\ pr = <<pr[1], pr[2]>> /\ pr[1] \in Devices /\ pr[2] \in Devices
        /\ pr[1][1] # pr[2][1]
    BY <1>1, CrossPairFacts
  <1>5. (pr = <<a, d>> \/ pr = <<d, a>>) /\ a \in Devices /\ a[1] # d[1]
    BY <1>2, <1>3, <1>4
  <1>6. WiringSound(DisConnect(v, a, d, c))
    <2>1. v.devList[c] \in CrossPairs /\ (v.devList[c] = <<a, d>> \/ v.devList[c] = <<d, a>>)
      BY <1>1, <1>5 DEF pr
    <2> QED
      BY <1>1, <2>1, DisConnectSound
  <1>7. v \in WiringType
    BY DEF WiringSound
  <1>8. Broken(v, DisConnect(v, a, d, c), a, d, c)
    BY <1>1, <1>5, <1>7, DisConnectFields
  <1>9. \A e \in Devices : e # d /\ e[1] = d[1] => DisConnect(v, a, d, c).channel[e] = v.channel[e]
    BY <1>5, <1>7, <1>8 DEF Broken, WiringType
  <1> QED
    BY <1>6, <1>9 DEF a

\* The "enter polar region" branch of LinkMaintenance keeps the wiring sound:
\* both channels are read before the first DisConnect, and that one never takes
\* the second away.
LEMMA EnterPolarSound ==
    ASSUME NEW v, WiringSound(v), NEW n \in Nodes
    PROVE  WiringSound(EnterPolar(v, n))
  <1> DEFINE w0  == [v EXCEPT !.overPolar = @ \cup {n}]
             chR == w0.channel[R(n)]
             chL == w0.channel[L(n)]
             w1  == IF chR # NULL
                    THEN DisConnect(w0, GetAnother(w0, chR, R(n)), R(n), chR) ELSE w0
             w2  == IF chL # NULL
                    THEN DisConnect(w1, GetAnother(w1, chL, L(n)), L(n), chL) ELSE w1
  <1>1. EnterPolar(v, n) = w2
    BY DEF EnterPolar
  <1>2. WiringSound(w0)
    <2>1. /\ w0 \in WiringType /\ w0.channel = v.channel /\ w0.linkUp = v.linkUp
          /\ w0.devList = v.devList /\ w0.unused = v.unused
      BY DEF WiringSound, WiringType
    <2> HIDE DEF w0
    <2> QED
      BY <2>1, ListsDoNotMatter
  <1>3. /\ R(n) \in Devices /\ L(n) \in Devices /\ R(n) # L(n)
        /\ R(n)[2] = "R" /\ L(n)[2] = "L" /\ L(n)[1] = R(n)[1]
    BY SideTerminals DEF R, L
  <1> HIDE DEF w0
  <1>4. WiringSound(w1) /\ w1.channel[L(n)] = chL
    <2>1. CASE chR # NULL
      <3> DEFINE u == DisConnect(w0, GetAnother(w0, chR, R(n)), R(n), chR)
      <3>1. /\ WiringSound(u)
            /\ \A e \in Devices : e # R(n) /\ e[1] = R(n)[1] => u.channel[e] = w0.channel[e]
        BY <1>2, <1>3, <2>1, BreakTerminal
      <3>2. w1 = u
        BY <2>1
      <3> HIDE DEF u, w1
      <3> QED
        BY <1>3, <3>1, <3>2
    <2>2. CASE chR = NULL
      BY <1>2, <2>2
    <2> QED
      BY <2>1, <2>2
  <1> HIDE DEF w1, chL
  <1>5. WiringSound(w2)
    <2>1. CASE chL # NULL
      <3>1. WiringSound(DisConnect(w1, GetAnother(w1, chL, L(n)), L(n), chL))
        BY <1>3, <1>4, <2>1, BreakTerminal
      <3> QED
        BY <2>1, <3>1
    <2>2. CASE chL = NULL
      BY <1>4, <2>2
    <2> QED
      BY <2>1, <2>2
  <1> QED
    BY <1>1, <1>5

\* Restoring the links to one neighbour keeps the wiring sound.
LEMMA ReconnectViaSound ==
    ASSUME NEW v, WiringSound(v), NEW n \in Nodes, NEW m \in Nodes, m # n
    PROVE  WiringSound(ReconnectVia(v, n, m))
  <1> DEFINE w1 == IF R(m) \in v.breakedR THEN Connect(v, R(m), L(n)) ELSE v
             w2 == IF L(m) \in w1.breakedL THEN Connect(w1, L(m), R(n)) ELSE w1
  <1>1. ReconnectVia(v, n, m) = w2
    BY DEF ReconnectVia
  <1>2. <<R(m), L(n)>> \in CrossPairs /\ <<L(m), R(n)>> \in CrossPairs
    <2> DEFINE p == <<m, n>>
    <2>1. p \in {q \in Nodes \X Nodes : q[1] # q[2]} /\ p[1] = m /\ p[2] = n
      OBVIOUS
    <2> HIDE DEF p
    <2> QED
      BY <2>1 DEF CrossPairs
  <1>3. WiringSound(w1)
    <2>1. WiringSound(Connect(v, R(m), L(n)))
      BY <1>2, ConnectSound
    <2> QED
      BY <2>1
  <1> HIDE DEF w1
  <1>4. WiringSound(w2)
    <2>1. WiringSound(Connect(w1, L(m), R(n)))
      BY <1>2, <1>3, ConnectSound
    <2> QED
      BY <1>3, <2>1
  <1> QED
    BY <1>1, <1>4

\* The "leave polar region" branch of LinkMaintenance keeps the wiring sound.
LEMMA LeavePolarSound ==
    ASSUME NEW v, WiringSound(v), NEW n \in Nodes
    PROVE  WiringSound(LeavePolar(v, n))
  <1> DEFINE w0 == [v EXCEPT !.overPolar = @ \ {n}]
             w1 == IF HasLeft(n) /\ LeftOf(n) \notin w0.overPolar
                   THEN ReconnectVia(w0, n, LeftOf(n)) ELSE w0
             w2 == IF HasRight(n) /\ RightOf(n) \notin w0.overPolar
                   THEN ReconnectVia(w1, n, RightOf(n)) ELSE w1
  <1>1. LeavePolar(v, n) = w2
    BY DEF LeavePolar
  <1>2. WiringSound(w0)
    <2>1. /\ w0 \in WiringType /\ w0.channel = v.channel /\ w0.linkUp = v.linkUp
          /\ w0.devList = v.devList /\ w0.unused = v.unused
      BY DEF WiringSound, WiringType
    <2> HIDE DEF w0
    <2> QED
      BY <2>1, ListsDoNotMatter
  <1> HIDE DEF w0
  <1>3. /\ HasLeft(n) => LeftOf(n) \in Nodes /\ LeftOf(n) # n
        /\ HasRight(n) => RightOf(n) \in Nodes /\ RightOf(n) # n
    BY ConstellationAssumption DEF HasLeft, HasRight, LeftOf, RightOf, Nodes
  <1>4. WiringSound(w1)
    <2>1. CASE HasLeft(n) /\ LeftOf(n) \notin w0.overPolar
      <3>1. WiringSound(ReconnectVia(w0, n, LeftOf(n)))
        BY <1>2, <1>3, <2>1, ReconnectViaSound
      <3> QED
        BY <2>1, <3>1
    <2>2. CASE ~ (HasLeft(n) /\ LeftOf(n) \notin w0.overPolar)
      BY <1>2, <2>2
    <2> QED
      BY <2>1, <2>2
  <1> HIDE DEF w1
  <1>5. WiringSound(w2)
    <2>1. CASE HasRight(n) /\ RightOf(n) \notin w0.overPolar
      <3>1. WiringSound(ReconnectVia(w1, n, RightOf(n)))
        BY <1>3, <1>4, <2>1, ReconnectViaSound
      <3> QED
        BY <2>1, <3>1
    <2>2. CASE ~ (HasRight(n) /\ RightOf(n) \notin w0.overPolar)
      BY <1>4, <2>2
    <2> QED
      BY <2>1, <2>2
  <1> QED
    BY <1>1, <1>5

-----------------------------------------------------------------------------
(* LinkConfig.                                                             *)

\* The link between n and its right neighbour has not been built yet.
Untouched(v, n) ==
    /\ v.devList[Cross(n)] = <<NULL, NULL>>
    /\ v.channel[R(n)] = NULL /\ v.channel[L(RightOf(n))] = NULL
    /\ \A i \in 1 .. Len(v.unused) : v.unused[i] # Cross(n)

\* The neighbour on the right, and the names made from it.
LEMMA RightNeighbour ==
    ASSUME NEW n \in Nodes, HasRight(n)
    PROVE  /\ RightOf(n) \in Nodes /\ RightOf(n) # n
           /\ R(n) \in Devices /\ L(RightOf(n)) \in Devices
           /\ R(n) # L(RightOf(n))
           /\ Cross(n) \in CrossChannels /\ Cross(n) \in Channels
           /\ <<R(n), L(RightOf(n))>> \in CrossPairs
  <1>1. RightOf(n) \in Nodes /\ RightOf(n) # n
    BY ConstellationAssumption DEF HasRight, RightOf, Nodes
  <1>2. R(n) \in Devices /\ L(RightOf(n)) \in Devices /\ R(n) # L(RightOf(n))
    BY <1>1, SideTerminals DEF R, L
  <1>3. Cross(n) \in CrossChannels /\ Cross(n) \in Channels
    BY DEF CrossChannels, Channels
  <1>4. <<R(n), L(RightOf(n))>> \in CrossPairs
    <2> DEFINE p == <<n, RightOf(n)>>
    <2>1. p \in {q \in Nodes \X Nodes : q[1] # q[2]} /\ p[1] = n /\ p[2] = RightOf(n)
      BY <1>1
    <2> HIDE DEF p
    <2> QED
      BY <2>1 DEF CrossPairs
  <1> QED
    BY <1>1, <1>2, <1>3, <1>4

\* One iteration of LinkConfig's loop over the temporary links: the wiring
\* stays sound and the links that are not built yet stay untouched.
LEMMA ConfigureCrossSound ==
    ASSUME NEW v, WiringSound(v), NEW n \in Nodes, HasRight(n), Untouched(v, n),
           NEW polar
    PROVE  /\ WiringSound(ConfigureCross(v, n, polar))
           /\ \A k \in Nodes : HasRight(k) /\ k # n /\ Untouched(v, k) =>
                 Untouched(ConfigureCross(v, n, polar), k)
  <1> DEFINE c == Cross(n)
             m == RightOf(n)
             a == R(n)
             b == L(m)
             u == ConfigureCross(v, n, polar)
  <1>1. /\ m \in Nodes /\ m # n /\ a \in Devices /\ b \in Devices /\ a # b
        /\ c \in CrossChannels /\ c \in Channels /\ <<a, b>> \in CrossPairs
    BY RightNeighbour
  <1>2. v \in WiringType /\ v.unused \in Seq(CrossChannels)
    BY DEF WiringSound, WiringType
  <1>3. /\ v.devList[c] = <<NULL, NULL>> /\ v.channel[a] = NULL /\ v.channel[b] = NULL
        /\ \A i \in 1 .. Len(v.unused) : v.unused[i] # c
    BY DEF Untouched
  <1>4. \A k \in Nodes : HasRight(k) /\ k # n =>
           /\ Cross(k) \in Channels /\ Cross(k) # c
           /\ R(k) \in Devices \ {a, b} /\ L(RightOf(k)) \in Devices \ {a, b}
    <2> SUFFICES ASSUME NEW k \in Nodes, HasRight(k), k # n
                 PROVE  /\ Cross(k) \in Channels /\ Cross(k) # c
                        /\ R(k) \in Devices \ {a, b} /\ L(RightOf(k)) \in Devices \ {a, b}
      OBVIOUS
    <2>1. Cross(k) \in Channels /\ R(k) \in Devices /\ L(RightOf(k)) \in Devices
      BY RightNeighbour
    <2>2. RightOf(k) # RightOf(n)
      BY DEF RightOf, Nodes
    <2> QED
      BY <2>1, <2>2 DEF Cross, R, L
  <1>5. CASE {n, m} \cap polar # {}
    <2>1. n \in Nodes /\ {n, m} \cap polar \subseteq Nodes /\ Append(v.unused, c) \in Seq(CrossChannels)
      BY <1>1, <1>2
    <2>2. u = [v EXCEPT !.unused    = Append(v.unused, c),
                        !.breakedL  = v.breakedL \cup {b},
                        !.breakedR  = v.breakedR \cup {a},
                        !.overPolar = v.overPolar \cup ({n, m} \cap polar)]
      BY <1>5 DEF ConfigureCross
    <2>3. /\ u \in WiringType /\ u.channel = v.channel /\ u.linkUp = v.linkUp
          /\ u.devList = v.devList /\ u.unused = Append(v.unused, c)
      <3> HIDE DEF a, b, c, m, u
      <3> QED
        BY <1>1, <1>2, <2>1, <2>2 DEF WiringType
    <2> HIDE DEF a, b, c, m, u
    <2>4. /\ Len(u.unused) = Len(v.unused) + 1 /\ Len(v.unused) \in Nat
          /\ u.unused[Len(v.unused) + 1] = c
          /\ \A i \in 1 .. Len(v.unused) : u.unused[i] = v.unused[i]
      BY <1>1, <1>2, <2>3
    <2>5. /\ AttachedIsListed(u) /\ UpIsAttached(u)
          /\ SideTerminalsOnCross(u) /\ CrossHoldsPair(u)
      BY <2>3 DEF WiringSound, AttachedIsListed, UpIsAttached, SideTerminalsOnCross,
         CrossHoldsPair, Ends
    <2>6. PoolDistinct(u)
      <3>1. /\ \A i, j \in 1 .. Len(v.unused) : i # j => v.unused[i] # v.unused[j]
            /\ Len(v.unused) \in Nat
        BY <2>4 DEF WiringSound, PoolDistinct
      <3>2. \A i \in 1 .. Len(u.unused) :
               i = Len(v.unused) + 1 \/ i \in 1 .. Len(v.unused)
        BY <2>4
      <3>3. SUFFICES ASSUME NEW i \in 1 .. Len(u.unused), NEW j \in 1 .. Len(u.unused),
                            i # j
                     PROVE  u.unused[i] # u.unused[j]
        BY DEF PoolDistinct
      <3>4. CASE i \in 1 .. Len(v.unused) /\ j \in 1 .. Len(v.unused)
        BY <2>4, <3>1, <3>3, <3>4
      <3>5. CASE i = Len(v.unused) + 1 \/ j = Len(v.unused) + 1
        BY <1>3, <2>4, <3>2, <3>3, <3>5
      <3> QED
        BY <3>2, <3>4, <3>5
    <2>7. PoolEmpty(u)
      <3> SUFFICES ASSUME NEW i \in 1 .. Len(v.unused) + 1
                   PROVE  v.devList[u.unused[i]] = <<NULL, NULL>>
        BY <2>3, <2>4 DEF PoolEmpty
      <3>1. CASE i = Len(v.unused) + 1
        BY <3>1, <1>3, <2>4
      <3>2. CASE i \in 1 .. Len(v.unused)
        <4>1. v.devList[v.unused[i]] = <<NULL, NULL>>
          BY <3>2 DEF WiringSound, PoolEmpty
        <4> QED
          BY <3>2, <4>1, <2>4
      <3> QED
        BY <3>1, <3>2, <2>4
    <2>8. \A k \in Nodes : HasRight(k) /\ k # n /\ Untouched(v, k) => Untouched(u, k)
      BY <1>4, <2>3, <2>4 DEF Untouched
    <2> QED
      BY <2>3, <2>5, <2>6, <2>7, <2>8 DEF WiringSound, u
  <1>6. CASE {n, m} \cap polar = {}
    <2> DEFINE w1 == ChAttach(ChAttach(v, c, a), c, b)
               w2 == DevAttach(DevAttach(w1, a, c), b, c)
    <2>1. u = w2
      BY <1>6 DEF ConfigureCross
    <2> HIDE DEF a, b, c, m, u
    <2>2. ChAttachedPair(v, w1, c, a, b)
      BY <1>1, <1>2, <1>3, ChAttachTwice
    <2> HIDE DEF w1
    <2>3. w1 \in WiringType
      BY <2>2 DEF ChAttachedPair
    <2>4. /\ w2 \in WiringType
          /\ w2.channel = [w1.channel EXCEPT ![a] = c, ![b] = c]
          /\ w2.linkUp = [w1.linkUp EXCEPT ![a] = TRUE, ![b] = TRUE]
          /\ w2.devList = w1.devList /\ w2.unused = w1.unused
      BY <1>1, <2>3, DevAttachTwice
    <2> HIDE DEF w2
    <2>5. /\ u \in WiringType
          /\ \A d \in Devices \ {a, b} : u.channel[d] = v.channel[d] /\ u.linkUp[d] = v.linkUp[d]
          /\ u.channel[a] = c /\ u.channel[b] = c /\ u.linkUp[a] /\ u.linkUp[b]
          /\ u.devList[c] = <<a, b>>
          /\ \A e \in Channels \ {c} : u.devList[e] = v.devList[e]
          /\ u.unused = v.unused
      <3>1. /\ w1.channel = v.channel /\ w1.linkUp = v.linkUp /\ w1.unused = v.unused
            /\ w1.devList = [v.devList EXCEPT ![c] = <<a, b>>]
        BY <2>2 DEF ChAttachedPair
      <3>2. /\ u \in WiringType
            /\ u.channel = [v.channel EXCEPT ![a] = c, ![b] = c]
            /\ u.linkUp = [v.linkUp EXCEPT ![a] = TRUE, ![b] = TRUE]
            /\ u.devList = [v.devList EXCEPT ![c] = <<a, b>>]
            /\ u.unused = v.unused
        BY <3>1, <2>1, <2>4
      <3>3. /\ v.channel \in [Devices -> Channels \cup {NULL}]
            /\ v.linkUp \in [Devices -> BOOLEAN]
            /\ v.devList \in [Channels -> (Devices \cup {NULL}) \X (Devices \cup {NULL})]
        BY <1>2 DEF WiringType
      <3> QED
        BY <1>1, <3>2, <3>3
    <2>6. AttachedIsListed(u)
      <3> SUFFICES ASSUME NEW d \in Devices, u.channel[d] # NULL
                   PROVE  /\ u.linkUp[d]
                          /\ d \in Ends(u, u.channel[d])
                          /\ NULL \notin Ends(u, u.channel[d])
        BY DEF AttachedIsListed
      <3>1. CASE d \in {a, b}
        BY <3>1, <1>1, <2>5, ConstellationAssumption DEF Ends
      <3>2. CASE d \notin {a, b}
        <4>1. u.channel[d] = v.channel[d] /\ u.linkUp[d] = v.linkUp[d]
          BY <3>2, <2>5
        <4>2. /\ v.linkUp[d]
              /\ d \in Ends(v, v.channel[d])
              /\ NULL \notin Ends(v, v.channel[d])
          BY <4>1 DEF WiringSound, AttachedIsListed
        <4>3. v.channel[d] # c /\ v.channel[d] \in Channels
          BY <1>2, <1>3, <4>1, <4>2 DEF WiringType, Ends
        <4>4. u.devList[v.channel[d]] = v.devList[v.channel[d]]
          BY <4>3, <2>5
        <4> QED
          BY <4>1, <4>2, <4>4 DEF Ends
      <3> QED
        BY <3>1, <3>2
    <2>7. SideTerminalsOnCross(u)
      <3> SUFFICES ASSUME NEW k \in Nodes
                   PROVE  {u.channel[R(k)], u.channel[L(k)]} \subseteq CrossChannels \cup {NULL}
        BY DEF SideTerminalsOnCross
      <3>1. {v.channel[R(k)], v.channel[L(k)]} \subseteq CrossChannels \cup {NULL}
        BY DEF WiringSound, SideTerminalsOnCross
      <3>2. R(k) \in Devices /\ L(k) \in Devices
        BY SideTerminals
      <3> QED
        BY <1>1, <2>5, <3>1, <3>2
    <2>8. CrossHoldsPair(u)
      BY <1>1, <2>5 DEF WiringSound, CrossHoldsPair, Channels
    <2>9. PoolDistinct(u)
      BY <2>5 DEF WiringSound, PoolDistinct
    <2>10. PoolEmpty(u)
      <3> SUFFICES ASSUME NEW i \in 1 .. Len(v.unused)
                   PROVE  u.devList[v.unused[i]] = <<NULL, NULL>>
        BY <2>5 DEF PoolEmpty
      <3>1. v.unused[i] \in Channels /\ v.unused[i] # c
        BY <1>2, <1>3 DEF Channels
      <3>2. v.devList[v.unused[i]] = <<NULL, NULL>>
        BY DEF WiringSound, PoolEmpty
      <3> QED
        BY <3>1, <3>2, <2>5
    <2>11. \A k \in Nodes : HasRight(k) /\ k # n /\ Untouched(v, k) => Untouched(u, k)
      BY <1>4, <2>5 DEF Untouched
    <2>12. UpIsAttached(u)
      BY <1>1, <2>5, ConstellationAssumption DEF WiringSound, UpIsAttached
    <2> QED
      BY <2>5, <2>6, <2>7, <2>8, <2>9, <2>10, <2>11, <2>12 DEF WiringSound, u
  <1> QED
    BY <1>5, <1>6

\* The backward terminal of a satellite is what the forward terminal of its
\* predecessor faces: LinkConfig closes every plane into a ring.
LEMMA RingCloses ==
    ASSUME NEW n \in Nodes
    PROVE  /\ PrevInPlane(n) \in Nodes /\ NextInPlane(n) \in Nodes
           /\ NextInPlane(PrevInPlane(n)) = n
  <1>1. N \in Nat \ {0} /\ n[1] \in 0 .. P - 1 /\ n[2] \in 0 .. N - 1 /\ n = <<n[1], n[2]>>
    BY ConstellationAssumption DEF Nodes
  <1>2. (n[2] + 1) % N = IF n[2] = N - 1 THEN 0 ELSE n[2] + 1
    BY <1>1
  <1>3. (n[2] + N - 1) % N = IF n[2] = 0 THEN N - 1 ELSE n[2] - 1
    BY <1>1
  <1> DEFINE p == (n[2] + N - 1) % N
  <1>4. p \in 0 .. N - 1
    BY <1>1, <1>3
  <1>5. (p + 1) % N = IF p = N - 1 THEN 0 ELSE p + 1
    <2> HIDE DEF p
    <2> QED
      BY <1>1, <1>4
  <1>6. (p + 1) % N = n[2]
    BY <1>1, <1>3, <1>5
  <1> QED
    BY <1>1, <1>2, <1>4, <1>6 DEF PrevInPlane, NextInPlane, Nodes

\* What LinkConfig leaves when its ring loop ends is sound.
LEMMA RingWiringSound == WiringSound(RingWiring)
  <1> DEFINE v  == RingWiring
             ch == [d \in Devices |-> CASE d[2] = "F" -> Ring(d[1])
                                        [] d[2] = "B" -> Ring(PrevInPlane(d[1]))
                                        [] OTHER      -> NULL]
             dl == [c \in Channels |-> IF c \in RingChannels
                                       THEN <<<<c[1], "F">>, <<NextInPlane(c[1]), "B">>>>
                                       ELSE <<NULL, NULL>>]
             up == [d \in Devices |-> d[2] \in {"F", "B"}]
  <1>1. /\ v.channel = ch /\ v.devList = dl /\ v.linkUp = up /\ v.unused = <<>>
        /\ v.breakedL = {} /\ v.breakedR = {} /\ v.overPolar = {} /\ v.ub = FALSE
    BY DEF RingWiring
  <1>2. ASSUME NEW n \in Nodes
        PROVE  /\ Ring(n) \in RingChannels /\ Ring(n) \in Channels /\ Ring(n) \notin CrossChannels
               /\ Ring(n)[1] = n
               /\ <<n, "F">> \in Devices /\ <<n, "B">> \in Devices
    BY DEF Ring, RingChannels, Channels, CrossChannels, Cross, Devices, Directions
  <1>3. ASSUME NEW d \in Devices
        PROVE  /\ d[1] \in Nodes /\ d = <<d[1], d[2]>> /\ d[2] \in Directions
               /\ PrevInPlane(d[1]) \in Nodes
    BY RingCloses DEF Devices
  <1>4. ch \in [Devices -> Channels \cup {NULL}]
    BY <1>2, <1>3
  <1>5. dl \in [Channels -> (Devices \cup {NULL}) \X (Devices \cup {NULL})]
    <2> SUFFICES ASSUME NEW c \in RingChannels
                 PROVE  /\ <<c[1], "F">> \in Devices
                        /\ <<NextInPlane(c[1]), "B">> \in Devices
      OBVIOUS
    <2>1. PICK n \in Nodes : c = Ring(n)
      BY DEF RingChannels
    <2>2. c[1] = n /\ NextInPlane(n) \in Nodes
      BY <2>1, <1>2, RingCloses
    <2> QED
      BY <2>2, <1>2
  <1>6. up \in [Devices -> BOOLEAN]
    OBVIOUS
  <1> HIDE DEF ch, dl, up
  <1>7. v \in WiringType
    BY <1>4, <1>5, <1>6 DEF WiringType, RingWiring, ch, dl, up
  <1> HIDE DEF v
  <1>8. AttachedIsListed(v)
    <2> SUFFICES ASSUME NEW d \in Devices, ch[d] # NULL
                 PROVE  /\ up[d]
                        /\ d \in Ends(v, ch[d])
                        /\ NULL \notin Ends(v, ch[d])
      BY <1>1 DEF AttachedIsListed
    <2>1. d[1] \in Nodes /\ d = <<d[1], d[2]>> /\ d[2] \in Directions /\ PrevInPlane(d[1]) \in Nodes
      BY <1>3
    <2>2. ASSUME NEW n \in Nodes
          PROVE  /\ Ends(v, Ring(n)) = {<<n, "F">>, <<NextInPlane(n), "B">>}
                 /\ NULL \notin Ends(v, Ring(n))
      <3>1. dl[Ring(n)] = <<<<n, "F">>, <<NextInPlane(n), "B">>>>
        BY <1>2 DEF dl
      <3>2. Ends(v, Ring(n)) = {<<n, "F">>, <<NextInPlane(n), "B">>}
        BY <3>1, <1>1 DEF Ends
      <3>3. <<n, "F">> \in Devices /\ <<NextInPlane(n), "B">> \in Devices
        BY <1>2, RingCloses
      <3> QED
        BY <3>2, <3>3, ConstellationAssumption
    <2>3. CASE d[2] = "F"
      <3>1. ch[d] = Ring(d[1]) /\ up[d]
        BY <2>3 DEF ch, up
      <3>2. /\ Ends(v, Ring(d[1])) = {<<d[1], "F">>, <<NextInPlane(d[1]), "B">>}
            /\ NULL \notin Ends(v, Ring(d[1]))
        BY <2>1, <2>2
      <3> QED
        BY <2>1, <2>3, <3>1, <3>2
    <2>4. CASE d[2] = "B"
      <3> DEFINE p == PrevInPlane(d[1])
      <3>1. ch[d] = Ring(p) /\ up[d]
        BY <2>4 DEF ch, up
      <3>2. p \in Nodes /\ NextInPlane(p) = d[1]
        BY <2>1, RingCloses
      <3>3. /\ Ends(v, Ring(p)) = {<<p, "F">>, <<NextInPlane(p), "B">>}
            /\ NULL \notin Ends(v, Ring(p))
        BY <3>2, <2>2
      <3> QED
        BY <2>1, <2>4, <3>1, <3>2, <3>3
    <2>5. CASE d[2] \notin {"F", "B"}
      BY <2>5 DEF ch
    <2> QED
      BY <2>3, <2>4, <2>5
  <1>9. SideTerminalsOnCross(v)
    BY <1>1, SideTerminals DEF SideTerminalsOnCross, ch, R, L
  <1>10. ASSUME NEW c \in CrossChannels
         PROVE  c \in Channels /\ dl[c] = <<NULL, NULL>>
    <2>1. c \notin RingChannels
      BY <1>2 DEF RingChannels
    <2> QED
      BY <2>1 DEF dl, Channels
  <1>11. CrossHoldsPair(v)
    BY <1>1, <1>10 DEF CrossHoldsPair
  <1>12. PoolDistinct(v) /\ PoolEmpty(v)
    BY <1>1 DEF PoolDistinct, PoolEmpty
  <1>13. UpIsAttached(v)
    <2> SUFFICES ASSUME NEW d \in Devices, d[2] \in {"F", "B"}
                 PROVE  ch[d] # NULL
      BY <1>1 DEF UpIsAttached, up
    <2>1. Ring(d[1]) \in Channels /\ Ring(PrevInPlane(d[1])) \in Channels
      BY <1>2, <1>3
    <2> QED
      BY <2>1, ConstellationAssumption DEF ch
  <1> QED
    BY <1>7, <1>8, <1>9, <1>11, <1>12, <1>13 DEF WiringSound, v

\* No inter-plane link exists when LinkConfig's ring loop ends.
LEMMA RingWiringUntouched ==
    ASSUME NEW n \in Nodes, HasRight(n)
    PROVE  Untouched(RingWiring, n)
  <1>1. /\ R(n) \in Devices /\ L(RightOf(n)) \in Devices /\ Cross(n) \in Channels
        /\ Cross(n) \notin RingChannels
    BY RightNeighbour DEF Cross, RingChannels, Ring
  <1>2. R(n)[2] = "R" /\ L(RightOf(n))[2] = "L"
    BY DEF R, L
  <1> QED
    BY <1>1, <1>2 DEF RingWiring, Untouched

-----------------------------------------------------------------------------
(* The invariant and its consequences.                                     *)

\* IInv with the part about pending links in terms of Untouched.
LEMMA PendingIsUntouched ==
    ASSUME phase = "config", cursor # NULL
    PROVE  PendingUntouched <=>
              /\ HasRight(cursor)
              /\ \A n \in Nodes : HasRight(n) /\ Pending(n) => Untouched(w, n)
  BY DEF PendingUntouched, Untouched

\* The order in which LinkConfig walks over the constellation: the next
\* satellite has a right neighbour, and what is pending there was pending here.
LEMMA ConfigOrder ==
    ASSUME NEW n \in Nodes, HasRight(n), NEW m, m = AfterInConfig(n), m # NULL
    PROVE  /\ m \in Nodes /\ HasRight(m)
           /\ \A k \in Nodes :
                 HasRight(k) /\ (k[2] > m[2] \/ (k[2] = m[2] /\ k[1] >= m[1])) =>
                       k # n /\ (k[2] > n[2] \/ (k[2] = n[2] /\ k[1] >= n[1]))
  <1>1. /\ P \in Nat \ {0} /\ N \in Nat \ {0}
        /\ n[1] \in 0 .. P - 1 /\ n[2] \in 0 .. N - 1 /\ n = <<n[1], n[2]>>
        /\ n[1] # P - 1
    BY ConstellationAssumption DEF Nodes, HasRight
  <1>2. CASE n[1] < P - 2
    <2>1. m = <<n[1] + 1, n[2]>>
      BY <1>1, <1>2 DEF AfterInConfig
    <2>2. m \in Nodes /\ HasRight(m)
      BY <1>1, <1>2, <2>1 DEF Nodes, HasRight
    <2> QED
      BY <1>1, <2>1, <2>2 DEF Nodes
  <1>3. CASE n[1] >= P - 2 /\ n[2] < N - 1
    <2>1. m = <<0, n[2] + 1>>
      BY <1>1, <1>3 DEF AfterInConfig
    <2>2. m \in Nodes /\ HasRight(m)
      BY <1>1, <1>3, <2>1 DEF Nodes, HasRight
    <2> QED
      BY <1>1, <2>1, <2>2 DEF Nodes
  <1>4. CASE ~ (n[1] < P - 2) /\ ~ (n[1] >= P - 2 /\ n[2] < N - 1)
    BY <1>4 DEF AfterInConfig
  <1> QED
    BY <1>2, <1>3, <1>4

\* The order in which LinkMaintenance walks over the satellites stays inside.
LEMMA ScanOrder ==
    ASSUME NEW n \in Nodes
    PROVE  AfterInScan(n) \in Nodes \cup {NULL}
  <1>1. /\ P \in Nat \ {0} /\ N \in Nat \ {0}
        /\ n[1] \in 0 .. P - 1 /\ n[2] \in 0 .. N - 1
    BY ConstellationAssumption DEF Nodes
  <1>2. CASE n[2] < N - 1
    BY <1>1, <1>2 DEF AfterInScan, Nodes
  <1>3. CASE ~ (n[2] < N - 1) /\ n[2] = N - 1 /\ n[1] < P - 1
    BY <1>1, <1>3 DEF AfterInScan, Nodes
  <1>4. CASE ~ (n[2] < N - 1) /\ ~ (n[2] = N - 1 /\ n[1] < P - 1)
    BY <1>4 DEF AfterInScan
  <1> QED
    BY <1>2, <1>3, <1>4

\* The state in which LinkConfig enters its second loop satisfies IInv.
LEMMA ConstellationInitInv == Init => IInv
  <1> SUFFICES ASSUME Init
               PROVE  IInv
    OBVIOUS
  <1>1. WiringSound(w) /\ w \in WiringType
    BY RingWiringSound DEF Init, Start, WiringSound
  <1>2. cursor \in Nodes \cup {NULL} /\ (cursor # NULL => cursor = <<0, 0>> /\ P > 1)
    BY ConstellationAssumption DEF Init, Start, Nodes
  <1>3. TypeOK
    BY <1>1, <1>2 DEF TypeOK, Phases, Init, Start
  <1>4. PendingUntouched
    <2> SUFFICES ASSUME cursor # NULL
                 PROVE  PendingUntouched
      BY DEF PendingUntouched
    <2>1. HasRight(cursor)
      BY <1>2, ConstellationAssumption DEF HasRight
    <2>2. \A n \in Nodes : HasRight(n) => Untouched(w, n)
      BY RingWiringUntouched DEF Init, Start
    <2> QED
      BY <2>1, <2>2, PendingIsUntouched DEF Init, Start
  <1> QED
    BY <1>1, <1>3, <1>4 DEF IInv, Init, Start

\* Every step of the helper, of a sender and of the satellites keeps IInv.
LEMMA ConstellationStepInv == IInv /\ [Next]_vars => IInv'
  <1> SUFFICES ASSUME IInv, [Next]_vars
               PROVE  IInv'
    OBVIOUS
  <1> USE DEF IInv, TypeOK
  <1>0. w \in WiringType /\ WiringSound(w) /\ lat \in [Nodes -> 0 .. MaxLat]
    OBVIOUS
  <1>1. ASSUME WiringSound(w'), lat' \in [Nodes -> 0 .. MaxLat], phase' \in Phases,
               cursor' \in Nodes \cup {NULL}, PendingUntouched',
               phase' = "idle" => cursor' = NULL
        PROVE  IInv'
    BY <1>1 DEF WiringSound
  <1>2. CASE LinkConfig
    <2>1. /\ phase = "config" /\ phase' = "config" /\ lat' = lat
          /\ cursor \in Nodes /\ cursor # NULL
          /\ w' = ConfigureCross(w, cursor, Polar)
          /\ cursor' = AfterInConfig(cursor)
      BY <1>2 DEF LinkConfig
    <2>2. /\ HasRight(cursor)
          /\ \A n \in Nodes : HasRight(n) /\ Pending(n) => Untouched(w, n)
      BY <2>1, PendingIsUntouched
    <2>3. Untouched(w, cursor)
      BY <2>1, <2>2, ConstellationAssumption DEF Pending, Nodes
    <2>4. /\ WiringSound(w')
          /\ \A k \in Nodes : HasRight(k) /\ k # cursor /\ Untouched(w, k) => Untouched(w', k)
      BY <2>1, <2>2, <2>3, ConfigureCrossSound
    <2>5. CASE cursor' = NULL
      <3>1. PendingUntouched'
        BY <2>5 DEF PendingUntouched
      <3> QED
        BY <1>0, <1>1, <2>1, <2>4, <2>5, <3>1 DEF Phases
    <2>6. CASE cursor' # NULL
      <3>1. /\ cursor' \in Nodes /\ HasRight(cursor')
            /\ \A k \in Nodes :
                  HasRight(k) /\ (k[2] > cursor'[2] \/ (k[2] = cursor'[2] /\ k[1] >= cursor'[1])) =>
                        k # cursor /\ (k[2] > cursor[2] \/ (k[2] = cursor[2] /\ k[1] >= cursor[1]))
        BY <2>1, <2>2, <2>6, ConfigOrder
      <3>2. \A k \in Nodes : HasRight(k) /\ Pending(k)' => Untouched(w', k)
        BY <2>2, <2>4, <3>1 DEF Pending
      <3>3. PendingUntouched'
        BY <2>1, <3>1, <3>2 DEF PendingUntouched, Untouched
      <3> QED
        BY <1>0, <1>1, <2>1, <2>4, <3>1, <3>3 DEF Phases
    <2> QED
      BY <2>5, <2>6
  <1>3. CASE LinkMaintenance
    <2>1. /\ phase' = "scan" /\ cursor' = <<0, 0>> /\ w' = w /\ lat' = lat
      BY <1>3 DEF LinkMaintenance
    <2>2. cursor' \in Nodes
      BY <2>1, ConstellationAssumption DEF Nodes
    <2>3. PendingUntouched'
      BY <2>1 DEF PendingUntouched
    <2> QED
      BY <1>0, <1>1, <2>1, <2>2, <2>3 DEF Phases
  <1>4. ASSUME Visiting, Advance, WiringSound(w')
        PROVE  IInv'
    <2>1. phase' = "scan" /\ lat' = lat /\ cursor \in Nodes /\ cursor' = AfterInScan(cursor)
      BY <1>4 DEF Visiting, Advance
    <2>2. cursor' \in Nodes \cup {NULL}
      BY <2>1, ScanOrder
    <2>3. PendingUntouched'
      BY <2>1 DEF PendingUntouched
    <2> QED
      BY <1>0, <1>1, <1>4, <2>1, <2>2, <2>3 DEF Phases
  <1>5. Visiting => cursor \in Nodes
    BY DEF Visiting
  <1>6. CASE VisitEntering
    <2>1. WiringSound(w')
      BY <1>0, <1>5, <1>6, EnterPolarSound DEF VisitEntering
    <2> QED
      BY <1>4, <1>6, <2>1 DEF VisitEntering
  <1>7. CASE VisitLeaving
    <2>1. WiringSound(w')
      BY <1>0, <1>5, <1>7, LeavePolarSound DEF VisitLeaving
    <2> QED
      BY <1>4, <1>7, <2>1 DEF VisitLeaving
  <1>8. CASE VisitUnchanged
    BY <1>0, <1>4, <1>8 DEF VisitUnchanged
  <1>9. CASE EndOfEvent
    <2>1. phase' = "idle" /\ w' = w /\ lat' = lat /\ cursor' = NULL
      BY <1>9 DEF EndOfEvent
    <2>2. PendingUntouched'
      BY <2>1 DEF PendingUntouched
    <2> QED
      BY <1>0, <1>1, <2>1, <2>2 DEF Phases
  <1>10. ASSUME NEW d \in Devices, SendBreaksLink(d)
         PROVE  IInv'
    <2> DEFINE c == w.channel[d]
    <2>1. /\ phase = "idle" /\ phase' = "idle" /\ lat' = lat /\ cursor' = cursor
          /\ c \in CrossChannels
          /\ w' = DisConnect(w, w.devList[c][1], w.devList[c][2], c)
      BY <1>10 DEF SendBreaksLink
    <2>2. w.devList[c] \in CrossPairs
      <3>1. c # NULL
        BY <2>1, ConstellationAssumption DEF Channels
      <3>2. NULL \notin Ends(w, c)
        BY <1>0, <3>1 DEF WiringSound, AttachedIsListed
      <3>3. w.devList[c] # <<NULL, NULL>>
        BY <3>2 DEF Ends
      <3> QED
        BY <1>0, <2>1, <3>3 DEF WiringSound, CrossHoldsPair
    <2>3. w.devList[c] = <<w.devList[c][1], w.devList[c][2]>>
      BY <2>2, CrossPairFacts, Zenon
    <2>4. WiringSound(w')
      <3> DEFINE a == w.devList[c][1]
                 b == w.devList[c][2]
      <3>1. <<a, b>> \in CrossPairs /\ w.devList[c] = <<a, b>>
        BY <2>2, <2>3, Zenon
      <3>2. w' = DisConnect(w, a, b, c) /\ c \in CrossChannels
        BY <2>1, Zenon
      <3>3. WiringSound(w)
        BY <1>0
      <3> HIDE DEF a, b, c
      <3>4. WiringSound(DisConnect(w, a, b, c))
        BY <3>1, <3>2, <3>3, DisConnectSound
      <3> QED
        BY <3>2, <3>4, Zenon
    <2>5. PendingUntouched'
      BY <2>1, Zenon DEF PendingUntouched
    <2> QED
      BY <1>0, <1>1, <2>1, <2>4, <2>5 DEF Phases
  <1>11. CASE Move
    <2>1. phase = "idle" /\ phase' = "idle" /\ w' = w /\ cursor' = cursor
          /\ lat' \in [Nodes -> 0 .. MaxLat]
      BY <1>11 DEF Move
    <2>2. PendingUntouched'
      BY <2>1 DEF PendingUntouched
    <2> QED
      BY <1>0, <1>1, <2>1, <2>2 DEF Phases
  <1>12. CASE UNCHANGED vars
    <2>1. w' = w /\ lat' = lat /\ phase' = phase /\ cursor' = cursor
      BY <1>12 DEF vars
    <2>2. PendingUntouched'
      BY <2>1 DEF PendingUntouched, Pending, HasRight
    <2> QED
      BY <1>0, <1>1, <2>1, <2>2
  <1> QED
    BY <1>2, <1>3, <1>6, <1>7, <1>8, <1>9, <1>10, <1>11, <1>12 DEF Next, Maintenance, Undefined

\* IInv holds in every reachable state, for every size of the constellation and
\* every motion of its satellites.
THEOREM ConstellationInvariant == Spec => []IInv
  <1>1. Init => IInv
    BY ConstellationInitInv
  <1>2. IInv /\ [Next]_vars => IInv'
    BY ConstellationStepInv
  <1> QED
    BY <1>1, <1>2, PTL DEF Spec

\* Type correctness: what the helper pops, attaches and records is always a
\* channel, a terminal or a satellite of the constellation.
THEOREM ConstellationTypeCorrect == Spec => []TypeOK
  <1>1. IInv => TypeOK
    BY DEF IInv
  <1> QED
    BY <1>1, ConstellationInvariant, PTL

\* A terminal with a channel finds both ends on it: the unchecked dereferences
\* of OpticalChannel::Send, LatitudeCheck and GetDelay and of LinkMaintenance
\* never meet a null terminal.
THEOREM SendIsSafe == Spec => []SendFindsBothEnds
  <1>1. IInv => SendFindsBothEnds
    <2> SUFFICES ASSUME IInv, NEW d \in Devices, w.channel[d] # NULL
                 PROVE  /\ w.linkUp[d]
                        /\ d \in Ends(w, w.channel[d])
                        /\ NULL \notin Ends(w, w.channel[d])
                        /\ \A i \in 1 .. Len(w.unused) : w.unused[i] # w.channel[d]
      BY DEF SendFindsBothEnds
    <2>1. /\ w.linkUp[d]
          /\ d \in Ends(w, w.channel[d])
          /\ NULL \notin Ends(w, w.channel[d])
      BY DEF IInv, WiringSound, AttachedIsListed
    <2>2. ASSUME NEW i \in 1 .. Len(w.unused), w.unused[i] = w.channel[d]
          PROVE  FALSE
      <3>1. w.devList[w.channel[d]] = <<NULL, NULL>>
        BY <2>2 DEF IInv, WiringSound, PoolEmpty
      <3> QED
        BY <2>1, <3>1 DEF Ends
    <2> QED
      BY <2>1, <2>2
  <1> QED
    BY <1>1, ConstellationInvariant, PTL

\* unused_link never holds a channel twice and never one in use, so that a
\* Connect never puts two links on one channel.
THEOREM PoolHoldsFreeChannels == Spec => []PoolIsFree
  <1>1. IInv => PoolIsFree
    <2> SUFFICES ASSUME IInv
                 PROVE  PoolIsFree
      OBVIOUS
    <2>1. \A i, j \in 1 .. Len(w.unused) : w.unused[i] = w.unused[j] => i = j
      BY DEF IInv, WiringSound, PoolDistinct
    <2>2. \A i \in 1 .. Len(w.unused) : Ends(w, w.unused[i]) = {NULL}
      <3> SUFFICES ASSUME NEW i \in 1 .. Len(w.unused)
                   PROVE  Ends(w, w.unused[i]) = {NULL}
        OBVIOUS
      <3>1. w.devList[w.unused[i]] = <<NULL, NULL>>
        BY DEF IInv, WiringSound, PoolEmpty
      <3> QED
        BY <3>1 DEF Ends
    <2> QED
      BY <2>1, <2>2 DEF PoolIsFree
  <1> QED
    BY <1>1, ConstellationInvariant, PTL

-----------------------------------------------------------------------------
(* II. The links of a constellation whose motion is staggered.             *)

\* A link is up, down and recorded as broken, or not built yet.
LinkUp(v, n) ==
    /\ v.channel[R(n)] # NULL
    /\ v.channel[R(n)] = v.channel[L(RightOf(n))]
    /\ R(n) \notin v.breakedR /\ L(RightOf(n)) \notin v.breakedL

LinkDown(v, n) ==
    /\ v.channel[R(n)] = NULL /\ v.channel[L(RightOf(n))] = NULL
    /\ R(n) \in v.breakedR /\ L(RightOf(n)) \in v.breakedL

LinkUnbuilt(v, n) ==
    /\ v.channel[R(n)] = NULL /\ v.channel[L(RightOf(n))] = NULL
    /\ R(n) \notin v.breakedR /\ L(RightOf(n)) \notin v.breakedL

EdgesUnlinked(v) ==
    \A n \in Nodes :
       /\ ~ HasRight(n) => v.channel[R(n)] = NULL /\ R(n) \notin v.breakedR
       /\ ~ HasLeft(n)  => v.channel[L(n)] = NULL /\ L(n) \notin v.breakedL

NoChannelLost(v, todo) ==
    \A c \in CrossChannels :
       \/ \E i \in 1 .. Len(v.unused) : v.unused[i] = c
       \/ \E n \in Nodes : HasRight(n) /\ v.channel[R(n)] = c
       \/ \E n \in todo : c = Cross(n)

\* The permanent links are as LinkConfig made them.
RingIntact(v) ==
    /\ \A d \in Devices : d[2] \in {"F", "B"} => v.channel[d] = RingWiring.channel[d]
    /\ \A c \in RingChannels : v.devList[c] = RingWiring.devList[c]

Wired(v, todo) ==
    /\ WiringSound(v)
    /\ RingIntact(v)
    /\ \A n \in Nodes : HasRight(n) =>
          IF n \in todo THEN LinkUnbuilt(v, n) ELSE LinkUp(v, n) \/ LinkDown(v, n)
    /\ EdgesUnlinked(v)
    /\ NoChannelLost(v, todo)
    /\ ~ v.ub


-----------------------------------------------------------------------------
(* The records of broken terminals after each operation.                   *)

SameLists(v, u) ==
    u.breakedR = v.breakedR /\ u.breakedL = v.breakedL /\ u.ub = v.ub

LEMMA DevLists ==
    ASSUME NEW v \in WiringType, NEW d, NEW c
    PROVE  SameLists(v, DevAttach(v, d, c)) /\ SameLists(v, DevDetach(v, d))
  BY DEF WiringType, DevAttach, DevDetach, SameLists

LEMMA ChLists ==
    ASSUME NEW v \in WiringType, NEW d, NEW c
    PROVE  SameLists(v, ChAttach(v, c, d)) /\ SameLists(v, ChDetach(v, c))
  BY DEF WiringType, ChAttach, ChDetach, SameLists

\* DisConnect records both terminals as broken, each on its side.
LEMMA DisConnectLists ==
    ASSUME NEW v \in WiringType, NEW a \in Devices, NEW b \in Devices,
           NEW c \in CrossChannels
    PROVE  LET u == DisConnect(v, a, b, c)
           IN  /\ u.ub = v.ub
               /\ a[2] = "R" => /\ u.breakedR = v.breakedR \cup {a}
                                /\ u.breakedL = v.breakedL \cup {b}
               /\ a[2] # "R" => /\ u.breakedR = v.breakedR \cup {b}
                                /\ u.breakedL = v.breakedL \cup {a}
  <1> DEFINE w0 == DevDetach(v, a)
             w1 == DevDetach(w0, b)
             w2 == IF a[2] = "R"
                   THEN [w1 EXCEPT !.breakedR = @ \cup {a}, !.breakedL = @ \cup {b}]
                   ELSE [w1 EXCEPT !.breakedR = @ \cup {b}, !.breakedL = @ \cup {a}]
             w3 == ChDetach(w2, c)
             u  == [w3 EXCEPT !.unused = Append(@, c)]
  <1>1. w0 \in WiringType /\ SameLists(v, w0)
    BY DevDetachFields, DevLists
  <1> HIDE DEF w0
  <1>2. w1 \in WiringType /\ SameLists(w0, w1)
    BY <1>1, DevDetachFields, DevLists
  <1> HIDE DEF w1
  <1>3. /\ w2 \in WiringType /\ w2.ub = w1.ub
        /\ a[2] = "R" => /\ w2.breakedR = w1.breakedR \cup {a}
                         /\ w2.breakedL = w1.breakedL \cup {b}
        /\ a[2] # "R" => /\ w2.breakedR = w1.breakedR \cup {b}
                         /\ w2.breakedL = w1.breakedL \cup {a}
    BY <1>2 DEF WiringType
  <1> HIDE DEF w2
  <1>4. c \in Channels
    BY DEF Channels
  <1>5. SameLists(w2, w3)
    BY <1>3, ChLists
  <1>6. SameLists(w2, u)
    BY <1>3, <1>5 DEF WiringType, ChDetach, SameLists
  <1>7. u = DisConnect(v, a, b, c)
    BY DEF u, w3, w2, w1, w0, DisConnect
  <1> HIDE DEF u, w3
  <1>8. QED
    BY <1>1, <1>2, <1>3, <1>6, <1>7 DEF SameLists

\* Connect erases both.
LEMMA ConnectLists ==
    ASSUME NEW v \in WiringType, NEW a \in Devices, NEW b \in Devices,
           v.unused # <<>>
    PROVE  LET u == Connect(v, a, b)
           IN  /\ u.ub = v.ub
               /\ a[2] = "R" => /\ u.breakedR = v.breakedR \ {a}
                                /\ u.breakedL = v.breakedL \ {b}
               /\ a[2] # "R" => /\ u.breakedR = v.breakedR \ {b}
                                /\ u.breakedL = v.breakedL \ {a}
  <1> DEFINE c  == v.unused[Len(v.unused)]
             q  == SubSeq(v.unused, 1, Len(v.unused) - 1)
             w1 == [v EXCEPT !.unused = q]
             w2 == DevAttach(w1, a, c)
             w3 == DevAttach(w2, b, c)
             w4 == ChAttach(w3, c, a)
             w5 == ChAttach(w4, c, b)
             u  == IF a[2] = "R"
                   THEN [w5 EXCEPT !.breakedR = @ \ {a}, !.breakedL = @ \ {b}]
                   ELSE [w5 EXCEPT !.breakedR = @ \ {b}, !.breakedL = @ \ {a}]
  <1>0. u = Connect(v, a, b)
    BY DEF Connect
  <1>1. v.unused \in Seq(CrossChannels)
    BY DEF WiringType
  <1>2. c \in Channels /\ q \in Seq(CrossChannels)
    BY <1>1 DEF Channels
  <1> HIDE DEF c, q
  <1>3. w1 \in WiringType /\ SameLists(v, w1)
    BY <1>2 DEF WiringType, SameLists
  <1> HIDE DEF w1
  <1>4. w2 \in WiringType /\ SameLists(w1, w2)
    BY <1>2, <1>3, DevAttachFields, DevLists
  <1> HIDE DEF w2
  <1>5. w3 \in WiringType /\ SameLists(w2, w3)
    BY <1>2, <1>4, DevAttachFields, DevLists
  <1> HIDE DEF w3
  <1>6. w4 \in WiringType /\ SameLists(w3, w4)
    BY <1>2, <1>5, ChAttachFields, ChLists
  <1> HIDE DEF w4
  <1>7. w5 \in WiringType /\ SameLists(w4, w5)
    BY <1>2, <1>6, ChAttachFields, ChLists
  <1> HIDE DEF w5
  <1>8. /\ u.ub = w5.ub
        /\ a[2] = "R" => u.breakedR = w5.breakedR \ {a} /\ u.breakedL = w5.breakedL \ {b}
        /\ a[2] # "R" => u.breakedR = w5.breakedR \ {b} /\ u.breakedL = w5.breakedL \ {a}
    BY <1>7 DEF WiringType
  <1> HIDE DEF u
  <1>9. QED
    BY <1>0, <1>3, <1>4, <1>5, <1>6, <1>7, <1>8 DEF SameLists

-----------------------------------------------------------------------------
(* One link of the constellation changes.                                  *)

\* The names of neighbours and of the terminals of two links.
LEMMA LeftNeighbour ==
    ASSUME NEW n \in Nodes, HasLeft(n)
    PROVE  /\ LeftOf(n) \in Nodes /\ LeftOf(n) # n /\ HasRight(LeftOf(n))
           /\ RightOf(LeftOf(n)) = n
  BY ConstellationAssumption DEF HasLeft, HasRight, LeftOf, RightOf, Nodes

LEMMA OtherLink ==
    ASSUME NEW n \in Nodes, HasRight(n), NEW k \in Nodes
    PROVE  /\ R(k) # L(RightOf(n)) /\ L(k) # R(n)
           /\ k # n => R(k) # R(n)
           /\ HasRight(k) /\ k # n => L(RightOf(k)) # L(RightOf(n))
           /\ ~ HasLeft(k) => L(k) # L(RightOf(n))
  <1>1. n[1] \in 0 .. P - 1 /\ n = <<n[1], n[2]>> /\ k = <<k[1], k[2]>>
    BY DEF Nodes
  <1>2. RightOf(n)[1] = n[1] + 1 /\ RightOf(n)[2] = n[2]
    BY DEF RightOf
  <1>3. HasRight(k) /\ k # n => RightOf(k) # RightOf(n)
    BY ConstellationAssumption DEF RightOf, Nodes
  <1>4. ~ HasLeft(k) => k # RightOf(n)
    BY <1>1, <1>2, ConstellationAssumption DEF HasLeft
  <1>5. QED
    BY <1>3, <1>4 DEF R, L

LEMMA CrossIsNotRing ==
    ASSUME NEW c \in CrossChannels, NEW e \in RingChannels
    PROVE  c # e /\ e \in Channels
  BY DEF CrossChannels, RingChannels, Channels, Cross, Ring

\* Nothing but the link on the right of n changes.
OnlyLink(v, u, n) ==
    /\ \A d \in Devices \ {R(n), L(RightOf(n))} :
          /\ u.channel[d] = v.channel[d]
          /\ d \in u.breakedR <=> d \in v.breakedR
          /\ d \in u.breakedL <=> d \in v.breakedL
    /\ \A c \in RingChannels : u.devList[c] = v.devList[c]

SameLink(v, u, k) ==
    \A d \in {R(k), L(RightOf(k))} :
       /\ u.channel[d] = v.channel[d]
       /\ d \in u.breakedR <=> d \in v.breakedR
       /\ d \in u.breakedL <=> d \in v.breakedL

LEMMA OtherLinksStay ==
    ASSUME NEW n \in Nodes, HasRight(n), NEW v, NEW u, OnlyLink(v, u, n),
           NEW k \in Nodes, HasRight(k), k # n
    PROVE  SameLink(v, u, k)
  <1>1. R(k) \in Devices /\ L(RightOf(k)) \in Devices
    BY RightNeighbour
  <1>2. RightOf(k) \in Nodes
    BY RightNeighbour
  <1>3. {R(k), L(RightOf(k))} \cap {R(n), L(RightOf(n))} = {}
    BY <1>2, OtherLink
  <1>4. QED
    BY <1>1, <1>3 DEF OnlyLink, SameLink

LEMMA OneLinkChanged ==
    ASSUME NEW v, NEW u, NEW todo, NEW n \in Nodes, HasRight(n), Wired(v, todo),
           WiringSound(u), OnlyLink(v, u, n), LinkUp(u, n) \/ LinkDown(u, n),
           NoChannelLost(u, todo \ {n}), ~ u.ub
    PROVE  Wired(u, todo \ {n})
  <1>1. ASSUME NEW k \in Nodes, HasRight(k), k # n
        PROVE  IF k \in todo \ {n} THEN LinkUnbuilt(u, k) ELSE LinkUp(u, k) \/ LinkDown(u, k)
    <2>1. SameLink(v, u, k)
      BY <1>1, OtherLinksStay
    <2>2. IF k \in todo THEN LinkUnbuilt(v, k) ELSE LinkUp(v, k) \/ LinkDown(v, k)
      BY <1>1 DEF Wired
    <2>3. QED
      BY <1>1, <2>1, <2>2 DEF SameLink, LinkUnbuilt, LinkUp, LinkDown
  <1>2. ASSUME NEW k \in Nodes
        PROVE  /\ ~ HasRight(k) => u.channel[R(k)] = NULL /\ R(k) \notin u.breakedR
               /\ ~ HasLeft(k)  => u.channel[L(k)] = NULL /\ L(k) \notin u.breakedL
    <2>1. R(k) \in Devices /\ L(k) \in Devices
      BY SideTerminals
    <2>2. /\ ~ HasRight(k) => v.channel[R(k)] = NULL /\ R(k) \notin v.breakedR
          /\ ~ HasLeft(k)  => v.channel[L(k)] = NULL /\ L(k) \notin v.breakedL
      BY DEF Wired, EdgesUnlinked
    <2>3. /\ ~ HasRight(k) => R(k) \notin {R(n), L(RightOf(n))}
          /\ ~ HasLeft(k)  => L(k) \notin {R(n), L(RightOf(n))}
      BY OtherLink
    <2>4. QED
      BY <2>1, <2>2, <2>3 DEF OnlyLink
  <1>3. RingIntact(u)
    <2>1. RingIntact(v)
      BY DEF Wired
    <2>2. R(n)[2] = "R" /\ L(RightOf(n))[2] = "L"
      BY DEF R, L
    <2>3. QED
      BY <2>1, <2>2 DEF RingIntact, OnlyLink
  <1>4. QED
    BY <1>1, <1>2, <1>3 DEF Wired, EdgesUnlinked

\* The polar record is no part of it.
LEMMA OverPolarDoesNotMatter ==
    ASSUME NEW v, NEW todo, Wired(v, todo), NEW S \in SUBSET Nodes
    PROVE  LET u == [v EXCEPT !.overPolar = S]
           IN  /\ Wired(u, todo) /\ u.overPolar = S
               /\ u.channel = v.channel /\ u.devList = v.devList
               /\ u.breakedR = v.breakedR /\ u.breakedL = v.breakedL
  <1> DEFINE u == [v EXCEPT !.overPolar = S]
  <1>1. v \in WiringType
    BY DEF Wired, WiringSound
  <1>2. /\ u \in WiringType /\ u.overPolar = S
        /\ u.channel = v.channel /\ u.devList = v.devList /\ u.linkUp = v.linkUp
        /\ u.unused = v.unused
        /\ u.breakedR = v.breakedR /\ u.breakedL = v.breakedL /\ u.ub = v.ub
    BY <1>1 DEF WiringType
  <1> HIDE DEF u
  <1>3. WiringSound(u)
    BY <1>2, ListsDoNotMatter DEF Wired
  <1>4. QED
    BY <1>2, <1>3 DEF Wired, RingIntact, LinkUp, LinkDown, LinkUnbuilt, EdgesUnlinked,
       NoChannelLost, u

\* A link with a channel is up, and its two terminals are the ends of the
\* channel.
LEMMA ChannelOfLink ==
    ASSUME NEW v, NEW todo, Wired(v, todo), NEW n \in Nodes, HasRight(n),
           NEW c, c \in {v.channel[R(n)], v.channel[L(RightOf(n))]}, c # NULL
    PROVE  /\ LinkUp(v, n) /\ v.channel[R(n)] = c /\ v.channel[L(RightOf(n))] = c
           /\ c \in CrossChannels /\ v.devList[c] \in CrossPairs
           /\ \/ v.devList[c] = <<R(n), L(RightOf(n))>>
              \/ v.devList[c] = <<L(RightOf(n)), R(n)>>
  <1> DEFINE a == R(n)
             b == L(RightOf(n))
             pr == v.devList[c]
  <1>1. /\ a \in Devices /\ b \in Devices /\ a # b /\ a[2] = "R" /\ b[2] = "L"
    BY RightNeighbour DEF R, L
  <1>2. LinkUp(v, n) /\ v.channel[a] = c /\ v.channel[b] = c
    BY DEF Wired, LinkUp, LinkDown, LinkUnbuilt
  <1>3. WiringSound(v)
    BY DEF Wired
  <1> HIDE DEF a, b, pr
  <1>4. c \in CrossChannels /\ pr \in CrossPairs /\ a \in Ends(v, c)
    BY <1>1, <1>2, <1>3, AttachedSideTerminal DEF pr
  <1>5. b \in Ends(v, c)
    BY <1>1, <1>2, <1>3, AttachedSideTerminal
  <1>6. pr = <<a, b>> \/ pr = <<b, a>>
    BY <1>1, <1>4, <1>5, CrossPairFacts DEF Ends, pr
  <1>7. QED
    BY <1>2, <1>4, <1>6 DEF a, b, pr

\* DisConnect of the link on the right of n, in either order of its ends.
LEMMA BreakLink ==
    ASSUME NEW v, Wired(v, {}), NEW n \in Nodes, HasRight(n),
           NEW c, c = v.channel[R(n)], c # NULL, NEW a, NEW b,
           \/ a = R(n) /\ b = L(RightOf(n))
           \/ a = L(RightOf(n)) /\ b = R(n)
    PROVE  LET u == DisConnect(v, a, b, c)
           IN  /\ Wired(u, {}) /\ OnlyLink(v, u, n) /\ LinkDown(u, n)
               /\ u.overPolar = v.overPolar
  <1> DEFINE u == DisConnect(v, a, b, c)
             r == R(n)
             l == L(RightOf(n))
  <1>1. /\ LinkUp(v, n) /\ c \in CrossChannels /\ v.devList[c] \in CrossPairs
        /\ v.devList[c] = <<a, b>> \/ v.devList[c] = <<b, a>>
    BY ChannelOfLink
  <1>2. r \in Devices /\ l \in Devices /\ r # l /\ r[2] = "R" /\ l[2] # "R"
    BY RightNeighbour DEF R, L
  <1>3. WiringSound(v) /\ v \in WiringType /\ ~ v.ub /\ NoChannelLost(v, {})
    BY DEF Wired, WiringSound
  <1>4. a \in Devices /\ b \in Devices /\ {a, b} = {r, l}
    BY <1>2
  <1>5. WiringSound(u)
    BY <1>1, <1>3, DisConnectSound
  <1>6. Broken(v, u, a, b, c)
    BY <1>1, <1>3, <1>4, DisConnectFields
  <1>7. u.ub = v.ub /\ u.breakedR = v.breakedR \cup {r} /\ u.breakedL = v.breakedL \cup {l}
    BY <1>1, <1>2, <1>3, <1>4, DisConnectLists
  <1> HIDE DEF u, r, l
  <1>8. /\ \A d \in Devices : u.channel[d] = IF d \in {r, l} THEN NULL ELSE v.channel[d]
        /\ u.unused = Append(v.unused, c) /\ u.overPolar = v.overPolar
    BY <1>3, <1>4, <1>6 DEF Broken, WiringType
  <1>9. OnlyLink(v, u, n)
    <2>1. \A e \in RingChannels : u.devList[e] = v.devList[e]
      BY <1>1, <1>3, <1>6, CrossIsNotRing DEF Broken, WiringType
    <2>2. QED
      BY <1>7, <1>8, <2>1 DEF OnlyLink, r, l
  <1>10. LinkDown(u, n)
    BY <1>2, <1>7, <1>8 DEF LinkDown, r, l
  <1>11. NoChannelLost(u, {})
    <2> SUFFICES ASSUME NEW e \in CrossChannels
                 PROVE  \/ \E i \in 1 .. Len(u.unused) : u.unused[i] = e
                        \/ \E k \in Nodes : HasRight(k) /\ u.channel[R(k)] = e
      BY DEF NoChannelLost
    <2>1. v.unused \in Seq(CrossChannels) /\ Len(v.unused) \in Nat
      BY <1>3 DEF WiringType
    <2>2. /\ Len(u.unused) = Len(v.unused) + 1
          /\ \A i \in 1 .. Len(v.unused) : u.unused[i] = v.unused[i]
          /\ u.unused[Len(v.unused) + 1] = c
      BY <1>1, <1>8, <2>1, AppendProperties
    <2>3. CASE e = c
      BY <2>1, <2>2, <2>3
    <2>4. CASE \E i \in 1 .. Len(v.unused) : v.unused[i] = e
      BY <2>1, <2>2, <2>4
    <2>5. ASSUME NEW k \in Nodes, HasRight(k), v.channel[R(k)] = e, e # c
          PROVE  u.channel[R(k)] = e
      <3>1. k # n /\ R(k) \in Devices /\ R(k) \notin {r, l}
        BY <1>2, <2>5, OtherLink, SideTerminals DEF r, l
      <3>2. QED
        BY <1>8, <2>5, <3>1
    <2>6. QED
      BY <1>3, <2>3, <2>4, <2>5 DEF NoChannelLost
  <1>12. {} \ {n} = {}
    OBVIOUS
  <1>13. Wired(u, {})
    BY <1>3, <1>5, <1>7, <1>9, <1>10, <1>11, <1>12, OneLinkChanged
  <1>14. QED
    BY <1>8, <1>9, <1>10, <1>13 DEF u

\* As many channels were made as there are links, so when one of them is down a
\* channel is in the pool.
LEMMA PoolNotEmpty ==
    ASSUME NEW v, Wired(v, {}), NEW n \in Nodes, HasRight(n), v.channel[R(n)] = NULL
    PROVE  v.unused # <<>>
  <1> SUFFICES ASSUME v.unused = <<>>
               PROVE  FALSE
    OBVIOUS
  <1> DEFINE Links == {k \in Nodes : HasRight(k)}
             f == [c \in CrossChannels |-> CHOOSE k \in Links : v.channel[R(k)] = c]
             g == [k \in Links |-> Cross(k)]
  <1>1. IsFiniteSet(Links) /\ n \in Links
    <2>1. IsFiniteSet(0 .. P - 1) /\ IsFiniteSet(0 .. N - 1)
      BY ConstellationAssumption, FS_Interval
    <2>2. IsFiniteSet(Nodes)
      BY <2>1, FS_Product DEF Nodes
    <2>3. QED
      BY <2>2, FS_Subset
  <1>2. IsFiniteSet(Links \ {n}) /\ Cardinality(Links \ {n}) = Cardinality(Links) - 1
    BY <1>1, FS_RemoveElement
  <1>3. \A c \in CrossChannels : f[c] \in Links /\ v.channel[R(f[c])] = c
    <2> SUFFICES ASSUME NEW c \in CrossChannels
                 PROVE  \E k \in Links : v.channel[R(k)] = c
      OBVIOUS
    <2>1. Len(v.unused) = 0
      OBVIOUS
    <2>2. QED
      BY <2>1 DEF Wired, NoChannelLost
  <1>4. f \in Injection(CrossChannels, Links \ {n})
    <2>1. NULL \notin CrossChannels
      BY ConstellationAssumption DEF Channels
    <2>2. \A c \in CrossChannels : f[c] \in Links \ {n}
      BY <1>3, <2>1
    <2>3. \A c, e \in CrossChannels : f[c] = f[e] => c = e
      BY <1>3
    <2> HIDE DEF f
    <2>4. f \in [CrossChannels -> Links \ {n}]
      BY <2>2 DEF f
    <2>5. QED
      BY <2>3, <2>4 DEF Injection, IsInjective
  <1>5. g \in Injection(Links, CrossChannels)
    <2>1. \A k \in Links : g[k] \in CrossChannels
      BY DEF CrossChannels
    <2>2. \A k, j \in Links : g[k] = g[j] => k = j
      BY DEF Cross
    <2>3. QED
      BY <2>1, <2>2 DEF Injection, IsInjective
  <1> HIDE DEF f, g, Links
  <1>6. IsFiniteSet(CrossChannels) /\ Cardinality(CrossChannels) <= Cardinality(Links \ {n})
    BY <1>2, <1>4, FS_Injection
  <1>7. Cardinality(Links) <= Cardinality(CrossChannels)
    BY <1>5, <1>6, FS_Injection
  <1>8. Cardinality(Links) \in Nat /\ Cardinality(CrossChannels) \in Nat
    BY <1>1, <1>6, FS_CardinalityType
  <1>9. QED
    BY <1>2, <1>6, <1>7, <1>8

\* Connect of the terminals of a link that is down.
LEMMA JoinLink ==
    ASSUME NEW v, Wired(v, {}), NEW n \in Nodes, HasRight(n), LinkDown(v, n),
           NEW a, NEW b,
           \/ a = R(n) /\ b = L(RightOf(n))
           \/ a = L(RightOf(n)) /\ b = R(n)
    PROVE  LET u == Connect(v, a, b)
           IN  /\ Wired(u, {}) /\ OnlyLink(v, u, n) /\ LinkUp(u, n)
               /\ u.overPolar = v.overPolar
               /\ u.breakedR = v.breakedR \ {R(n)}
               /\ u.breakedL = v.breakedL \ {L(RightOf(n))}
  <1> DEFINE u == Connect(v, a, b)
             r == R(n)
             l == L(RightOf(n))
             c == v.unused[Len(v.unused)]
  <1>1. v.unused # <<>>
    BY PoolNotEmpty DEF LinkDown
  <1>2. /\ r \in Devices /\ l \in Devices /\ r # l /\ r[2] = "R" /\ l[2] # "R"
        /\ RightOf(n) \in Nodes /\ RightOf(n) # n
    BY RightNeighbour DEF R, L
  <1>3. WiringSound(v) /\ v \in WiringType /\ ~ v.ub /\ NoChannelLost(v, {})
    BY DEF Wired, WiringSound
  <1>4. a \in Devices /\ b \in Devices /\ {a, b} = {r, l}
    BY <1>2
  <1>5. <<a, b>> \in CrossPairs
    <2>1. <<R(n), L(RightOf(n))>> \in CrossPairs
      BY RightNeighbour
    <2>2. <<L(RightOf(n)), R(n)>> \in CrossPairs
      <3> DEFINE p == <<RightOf(n), n>>
      <3>1. p \in {q \in Nodes \X Nodes : q[1] # q[2]} /\ p[1] = RightOf(n) /\ p[2] = n
        BY <1>2
      <3> HIDE DEF p
      <3>2. QED
        BY <3>1 DEF CrossPairs
    <2>3. QED
      BY <2>1, <2>2
  <1>6. WiringSound(u)
    BY <1>3, <1>5, ConnectSound
  <1>7. v.unused \in Seq(CrossChannels) /\ Len(v.unused) \in Nat \ {0}
    <2>1. v.unused \in Seq(CrossChannels)
      BY <1>3 DEF WiringType
    <2>2. QED
      BY <1>1, <2>1, EmptySeq
  <1>8. c \in CrossChannels /\ v.devList[c] = <<NULL, NULL>>
    <2>1. Len(v.unused) \in 1 .. Len(v.unused)
      BY <1>7
    <2>2. \A i \in 1 .. Len(v.unused) : v.devList[v.unused[i]] = <<NULL, NULL>>
      BY <1>3 DEF WiringSound, PoolEmpty
    <2>3. c \in CrossChannels
      BY <1>7, <2>1
    <2>4. QED
      BY <2>1, <2>2, <2>3
  <1>9. Joined(v, u, a, b, c)
    BY <1>1, <1>3, <1>4, <1>8, ConnectFields
  <1>10. u.ub = v.ub /\ u.breakedR = v.breakedR \ {r} /\ u.breakedL = v.breakedL \ {l}
    BY <1>1, <1>2, <1>3, <1>4, ConnectLists
  <1> HIDE DEF u, r, l
  <1> HIDE DEF c
  <1>11. \A d \in Devices : u.channel[d] = IF d \in {r, l} THEN c ELSE v.channel[d]
    <2>1. /\ v.channel \in [Devices -> Channels \cup {NULL}]
          /\ u.channel = [v.channel EXCEPT ![a] = c, ![b] = c]
      BY <1>3, <1>9 DEF Joined, WiringType
    <2>2. QED
      BY <1>4, <2>1
  <1>12. OnlyLink(v, u, n)
    <2>1. \A e \in RingChannels : u.devList[e] = v.devList[e]
      BY <1>3, <1>8, <1>9, CrossIsNotRing DEF Joined, WiringType
    <2>2. QED
      BY <1>10, <1>11, <2>1 DEF OnlyLink, r, l
  <1>13. LinkUp(u, n)
    <2>1. c # NULL
      BY <1>8, ConstellationAssumption DEF Channels
    <2>2. QED
      BY <1>2, <1>10, <1>11, <2>1 DEF LinkUp, r, l
  <1>14. NoChannelLost(u, {})
    <2> SUFFICES ASSUME NEW e \in CrossChannels
                 PROVE  \/ \E i \in 1 .. Len(u.unused) : u.unused[i] = e
                        \/ \E k \in Nodes : HasRight(k) /\ u.channel[R(k)] = e
      BY DEF NoChannelLost
    <2>1. u.unused = SubSeq(v.unused, 1, Len(v.unused) - 1)
      BY <1>9 DEF Joined
    <2>2. /\ Len(u.unused) = Len(v.unused) - 1
          /\ \A i \in 1 .. Len(v.unused) - 1 : u.unused[i] = v.unused[i]
      BY <1>7, <2>1
    <2>3. CASE e = c
      <3>1. u.channel[R(n)] = e
        BY <1>2, <1>11, <2>3 DEF r
      <3>2. QED
        BY <3>1
    <2>4. ASSUME NEW i \in 1 .. Len(v.unused), v.unused[i] = e, e # c
          PROVE  i \in 1 .. Len(u.unused) /\ u.unused[i] = e
      BY <1>7, <2>2, <2>4 DEF c
    <2>5. ASSUME NEW k \in Nodes, HasRight(k), v.channel[R(k)] = e
          PROVE  u.channel[R(k)] = e
      <3>1. v.channel[R(n)] = NULL /\ e # NULL
        BY ConstellationAssumption DEF LinkDown, Channels
      <3>2. k # n /\ R(k) \in Devices /\ R(k) \notin {r, l}
        BY <1>2, <2>5, <3>1, OtherLink, SideTerminals DEF r, l
      <3>3. QED
        BY <1>11, <2>5, <3>2
    <2>6. QED
      BY <1>3, <2>3, <2>4, <2>5 DEF NoChannelLost
  <1>15. {} \ {n} = {}
    OBVIOUS
  <1>16. Wired(u, {})
    BY <1>3, <1>6, <1>10, <1>12, <1>13, <1>14, <1>15, OneLinkChanged
  <1>17. u.overPolar = v.overPolar
    BY <1>9 DEF Joined
  <1>18. QED
    BY <1>10, <1>12, <1>13, <1>16, <1>17 DEF u, r, l

\* What one iteration of LinkConfig does to the links and to the polar record.
Configured(v, u, n, polar) ==
    /\ OnlyLink(v, u, n)
    /\ IF {n, RightOf(n)} \cap polar # {} THEN LinkDown(u, n) ELSE LinkUp(u, n)
    /\ u.overPolar = v.overPolar \cup ({n, RightOf(n)} \cap polar)

\* One iteration of LinkConfig builds the link of satellite n, or leaves it
\* broken with its channel in the pool.
LEMMA BuildLink ==
    ASSUME NEW v, NEW todo, Wired(v, todo), NEW n \in Nodes, HasRight(n), n \in todo,
           Untouched(v, n), NEW polar
    PROVE  LET u == ConfigureCross(v, n, polar)
           IN  Wired(u, todo \ {n}) /\ Configured(v, u, n, polar)
  <1> DEFINE c == Cross(n)
             m == RightOf(n)
             a == R(n)
             b == L(m)
             u == ConfigureCross(v, n, polar)
  <1>1. /\ m \in Nodes /\ m # n /\ a \in Devices /\ b \in Devices /\ a # b
        /\ c \in CrossChannels /\ c \in Channels
    BY RightNeighbour
  <1>2. /\ WiringSound(v) /\ v \in WiringType /\ v.unused \in Seq(CrossChannels)
        /\ ~ v.ub /\ NoChannelLost(v, todo)
    BY DEF Wired, WiringSound, WiringType
  <1>3. LinkUnbuilt(v, n) /\ v.devList[c] = <<NULL, NULL>>
    BY DEF Wired, Untouched
  <1>4. WiringSound(u)
    BY <1>2, ConfigureCrossSound
  <1>5. ASSUME OnlyLink(v, u, n), LinkUp(u, n) \/ LinkDown(u, n), ~ u.ub,
               \A i \in 1 .. Len(v.unused) : i \in 1 .. Len(u.unused) /\ u.unused[i] = v.unused[i],
               u.channel[R(n)] = c \/ \E j \in 1 .. Len(u.unused) : u.unused[j] = c
        PROVE  Wired(u, todo \ {n})
    <2>1. NoChannelLost(u, todo \ {n})
      <3> SUFFICES ASSUME NEW e \in CrossChannels
                   PROVE  \/ \E i \in 1 .. Len(u.unused) : u.unused[i] = e
                          \/ \E k \in Nodes : HasRight(k) /\ u.channel[R(k)] = e
                          \/ \E k \in todo \ {n} : e = Cross(k)
        BY DEF NoChannelLost
      <3> HIDE DEF u
      <3>1. CASE \E i \in 1 .. Len(v.unused) : v.unused[i] = e
        BY <1>5, <3>1
      <3>2. ASSUME NEW k \in Nodes, HasRight(k), v.channel[R(k)] = e
            PROVE  u.channel[R(k)] = e
        <4>1. k # n
          BY <1>3, <3>2, ConstellationAssumption DEF LinkUnbuilt, Channels
        <4>2. SameLink(v, u, k)
          BY <1>5, <3>2, <4>1, OtherLinksStay
        <4>3. QED
          BY <3>2, <4>2 DEF SameLink
      <3>3. CASE \E k \in todo : e = Cross(k)
        BY <1>5, <3>3
      <3>4. QED
        BY <1>2, <3>1, <3>2, <3>3 DEF NoChannelLost
    <2>2. QED
      BY <1>4, <1>5, <2>1, OneLinkChanged
  <1>6. CASE {n, m} \cap polar # {}
    <2>1. /\ n \in Nodes /\ {n, m} \cap polar \subseteq Nodes
          /\ Append(v.unused, c) \in Seq(CrossChannels)
      BY <1>1, <1>2
    <2>2. u = [v EXCEPT !.unused    = Append(v.unused, c),
                        !.breakedL  = v.breakedL \cup {b},
                        !.breakedR  = v.breakedR \cup {a},
                        !.overPolar = v.overPolar \cup ({n, m} \cap polar)]
      BY <1>6 DEF ConfigureCross
    <2>3. /\ u.channel = v.channel /\ u.devList = v.devList
          /\ u.unused = Append(v.unused, c) /\ u.ub = v.ub
          /\ u.breakedL = v.breakedL \cup {b} /\ u.breakedR = v.breakedR \cup {a}
      <3> HIDE DEF a, b, c, m, u
      <3> QED
        BY <1>1, <1>2, <2>1, <2>2 DEF WiringType
    <2> HIDE DEF u
    <2>4. /\ \A i \in 1 .. Len(v.unused) : i \in 1 .. Len(u.unused) /\ u.unused[i] = v.unused[i]
          /\ \E j \in 1 .. Len(u.unused) : u.unused[j] = c
      <3> HIDE DEF c
      <3>1. /\ Len(u.unused) = Len(v.unused) + 1 /\ Len(v.unused) \in Nat
            /\ u.unused[Len(v.unused) + 1] = c
            /\ \A i \in 1 .. Len(v.unused) : u.unused[i] = v.unused[i]
        BY <1>1, <1>2, <2>3
      <3>2. QED
        BY <3>1
    <2>5. OnlyLink(v, u, n)
      BY <2>3 DEF OnlyLink
    <2>6. LinkDown(u, n)
      BY <1>3, <2>3 DEF LinkDown, LinkUnbuilt
    <2>7. ~ u.ub
      BY <1>2, <2>3
    <2> HIDE DEF c
    <2>8. Wired(u, todo \ {n})
      BY <1>5, <2>4, <2>5, <2>6, <2>7
    <2>9. u.overPolar = v.overPolar \cup ({n, m} \cap polar)
      <3> HIDE DEF a, b, m
      <3>1. u = [v EXCEPT !.unused    = Append(v.unused, c),
                          !.breakedL  = v.breakedL \cup {b},
                          !.breakedR  = v.breakedR \cup {a},
                          !.overPolar = v.overPolar \cup ({n, m} \cap polar)]
        BY <2>2
      <3>2. QED
        BY <1>2, <3>1 DEF WiringType
    <2>10. Configured(v, u, n, polar)
      BY <1>6, <2>5, <2>6, <2>9 DEF Configured
    <2>11. QED
      BY <2>8, <2>10 DEF u
  <1>7. CASE {n, m} \cap polar = {}
    <2> DEFINE t1 == ChAttach(v, c, a)
               t2 == ChAttach(t1, c, b)
               t3 == DevAttach(t2, a, c)
               t4 == DevAttach(t3, b, c)
    <2>1. u = t4
      BY <1>7 DEF ConfigureCross
    <2> HIDE DEF a, b, c, m, u
    <2>2. ChAttachedPair(v, t2, c, a, b)
      BY <1>1, <1>2, <1>3, ChAttachTwice
    <2>3. /\ t2 \in WiringType /\ t2.channel = v.channel /\ t2.unused = v.unused
      BY <2>2 DEF ChAttachedPair
    <2>4. SameLists(v, t1) /\ t1 \in WiringType
      BY <1>1, <1>2, ChAttachFields, ChLists
    <2> HIDE DEF t1
    <2>5. SameLists(t1, t2)
      BY <2>4, ChLists
    <2> HIDE DEF t2
    <2>6. /\ t4 \in WiringType
          /\ t4.channel = [t2.channel EXCEPT ![a] = c, ![b] = c]
          /\ t4.linkUp = [t2.linkUp EXCEPT ![a] = TRUE, ![b] = TRUE]
          /\ t4.devList = t2.devList /\ t4.unused = t2.unused
          /\ t4.overPolar = t2.overPolar
      <3>1. t2 \in WiringType /\ a \in Devices /\ b \in Devices /\ c \in Channels
        BY <1>1, <2>3
      <3>2. QED
        BY <3>1, DevAttachTwice
    <2>7. SameLists(t2, t4)
      <3>1. SameLists(t2, t3) /\ t3 \in WiringType
        BY <1>1, <2>3, DevAttachFields, DevLists
      <3> HIDE DEF t3
      <3>2. SameLists(t3, t4)
        BY <3>1, DevLists
      <3>3. QED
        BY <3>1, <3>2 DEF SameLists
    <2> HIDE DEF t3, t4
    <2>8. SameLists(v, u) /\ u.unused = v.unused
      BY <2>1, <2>3, <2>4, <2>5, <2>6, <2>7 DEF SameLists
    <2>9. \A d \in Devices : u.channel[d] = IF d \in {a, b} THEN c ELSE v.channel[d]
      BY <1>1, <1>2, <2>1, <2>3, <2>6, <2>7 DEF WiringType
    <2>10. OnlyLink(v, u, n)
      <3>1. u.devList = [v.devList EXCEPT ![c] = <<a, b>>]
        BY <2>1, <2>2, <2>6 DEF ChAttachedPair
      <3>2. \A e \in RingChannels : u.devList[e] = v.devList[e]
        BY <1>1, <1>2, <3>1, CrossIsNotRing DEF WiringType
      <3>3. QED
        BY <2>8, <2>9, <3>2 DEF OnlyLink, SameLists, a, b, m
    <2>11. LinkUp(u, n) /\ u.channel[R(n)] = c
      <3>1. c # NULL
        BY <1>1, ConstellationAssumption
      <3>2. u.channel[a] = c /\ u.channel[b] = c
        BY <1>1, <2>9
      <3>3. QED
        BY <1>3, <2>8, <3>1, <3>2 DEF LinkUp, LinkUnbuilt, SameLists, a, b, m
    <2>12. ~ u.ub
      BY <1>2, <2>8 DEF SameLists
    <2>13. \A i \in 1 .. Len(v.unused) : i \in 1 .. Len(u.unused) /\ u.unused[i] = v.unused[i]
      BY <2>8
    <2>14. Wired(u, todo \ {n})
      BY <1>5, <2>10, <2>11, <2>12, <2>13
    <2>15. Configured(v, u, n, polar)
      <3>1. u.overPolar = v.overPolar
        BY <2>1, <2>2, <2>6 DEF ChAttachedPair
      <3>2. u.overPolar = v.overPolar \cup ({n, m} \cap polar)
        BY <1>7, <3>1
      <3>3. QED
        BY <1>7, <2>10, <2>11, <3>2 DEF Configured, m
    <2>16. QED
      BY <2>14, <2>15 DEF u
  <1>8. QED
    BY <1>6, <1>7

-----------------------------------------------------------------------------
(* The branches of LinkMaintenance, and a send over the pole.              *)

\* DisConnect as EnterPolar calls it, from terminal d of link n.
LEMMA BreakFromTerminal ==
    ASSUME NEW v, Wired(v, {}), NEW n \in Nodes, HasRight(n),
           NEW d \in {R(n), L(RightOf(n))}, NEW c, c = v.channel[d], c # NULL
    PROVE  LET u == DisConnect(v, GetAnother(v, c, d), d, c)
           IN  /\ Wired(u, {}) /\ OnlyLink(v, u, n) /\ LinkDown(u, n)
               /\ u.overPolar = v.overPolar
  <1> DEFINE a == GetAnother(v, c, d)
  <1>1. /\ v.channel[R(n)] = c
        /\ \/ v.devList[c] = <<R(n), L(RightOf(n))>>
           \/ v.devList[c] = <<L(RightOf(n)), R(n)>>
    BY ChannelOfLink
  <1>2. R(n) # L(RightOf(n))
    BY RightNeighbour
  <1>3. \/ d = R(n) /\ a = L(RightOf(n))
        \/ d = L(RightOf(n)) /\ a = R(n)
    BY <1>1, <1>2 DEF GetAnother
  <1> HIDE DEF a
  <1>4. /\ Wired(DisConnect(v, a, d, c), {}) /\ OnlyLink(v, DisConnect(v, a, d, c), n)
        /\ LinkDown(DisConnect(v, a, d, c), n)
        /\ DisConnect(v, a, d, c).overPolar = v.overPolar
    BY <1>1, <1>3, BreakLink
  <1>5. QED
    BY <1>4 DEF a

\* Nothing but the links of n changes, and those are down; n is recorded.
Entered(v, u, n) ==
    /\ u.overPolar = v.overPolar \cup {n}
    /\ \A k \in Nodes : HasRight(k) =>
          IF n \in {k, RightOf(k)} THEN LinkDown(u, k) ELSE SameLink(v, u, k)

LEMMA SameLinkTwice ==
    ASSUME NEW v, NEW u, NEW x, NEW k, SameLink(v, u, k), SameLink(u, x, k)
    PROVE  SameLink(v, x, k)
  BY DEF SameLink

LEMMA SameLinkStays ==
    ASSUME NEW v, NEW u, NEW k, SameLink(v, u, k)
    PROVE  (LinkUp(v, k) <=> LinkUp(u, k)) /\ (LinkDown(v, k) <=> LinkDown(u, k))
  BY DEF SameLink, LinkUp, LinkDown

\* A satellite has a link on its right and one on its left.
LEMMA LinksOfNode ==
    ASSUME NEW n \in Nodes, NEW k \in Nodes, HasRight(k)
    PROVE  /\ n = RightOf(k) <=> HasLeft(n) /\ k = LeftOf(n)
           /\ HasLeft(n) => LeftOf(n) # n
  BY ConstellationAssumption DEF Nodes, HasRight, HasLeft, RightOf, LeftOf

LEMMA EnterPolarWired ==
    ASSUME NEW v, Wired(v, {}), NEW n \in Nodes
    PROVE  Wired(EnterPolar(v, n), {}) /\ Entered(v, EnterPolar(v, n), n)
  <1> DEFINE w0  == [v EXCEPT !.overPolar = @ \cup {n}]
             chR == w0.channel[R(n)]
             chL == w0.channel[L(n)]
             w1  == IF chR # NULL
                    THEN DisConnect(w0, GetAnother(w0, chR, R(n)), R(n), chR) ELSE w0
             w2  == IF chL # NULL
                    THEN DisConnect(w1, GetAnother(w1, chL, L(n)), L(n), chL) ELSE w1
  <1>1. EnterPolar(v, n) = w2
    BY DEF EnterPolar
  <1>2. /\ Wired(w0, {}) /\ w0.overPolar = v.overPolar \cup {n}
        /\ \A k \in Nodes : SameLink(v, w0, k)
    <2>1. v.overPolar \cup {n} \in SUBSET Nodes
      BY DEF Wired, WiringSound, WiringType
    <2>2. QED
      BY <2>1, OverPolarDoesNotMatter DEF SameLink
  <1> HIDE DEF w0
  <1>3. /\ chR # NULL => HasRight(n)
        /\ chL # NULL => HasLeft(n)
    BY <1>2 DEF Wired, EdgesUnlinked
  <1>4. /\ Wired(w1, {}) /\ (chL # NULL => w1.channel[L(n)] = chL)
        /\ w1.overPolar = w0.overPolar
        /\ HasRight(n) => LinkDown(w1, n)
        /\ \A k \in Nodes : HasRight(k) /\ k # n => SameLink(w0, w1, k)
    <2>1. CASE chR # NULL
      <3>1. /\ Wired(w1, {}) /\ OnlyLink(w0, w1, n) /\ LinkDown(w1, n)
            /\ w1.overPolar = w0.overPolar
        BY <1>2, <1>3, <2>1, BreakFromTerminal
      <3>2. L(n) \in Devices /\ L(n) # R(n) /\ L(n) # L(RightOf(n))
        BY <1>3, <2>1, SideTerminals, RightNeighbour DEF L
      <3>3. \A k \in Nodes : HasRight(k) /\ k # n => SameLink(w0, w1, k)
        BY <1>3, <2>1, <3>1, OtherLinksStay
      <3>4. QED
        BY <3>1, <3>2, <3>3 DEF OnlyLink
    <2>2. CASE chR = NULL
      <3>1. HasRight(n) => LinkDown(w0, n)
        BY <1>2, <2>2 DEF Wired, LinkUp
      <3>2. QED
        BY <1>2, <2>2, <3>1 DEF SameLink
    <2>3. QED
      BY <2>1, <2>2
  <1> HIDE DEF w1
  <1>5. /\ Wired(w2, {}) /\ w2.overPolar = w0.overPolar
        /\ HasLeft(n) => LinkDown(w2, LeftOf(n))
        /\ \A k \in Nodes : HasRight(k) /\ n # RightOf(k) => SameLink(w1, w2, k)
    <2>1. CASE chL # NULL
      <3> DEFINE k == LeftOf(n)
      <3>1. k \in Nodes /\ HasRight(k) /\ L(RightOf(k)) = L(n) /\ RightOf(k) = n
        BY <1>3, <2>1, LeftNeighbour
      <3>2. L(n) \in {R(k), L(RightOf(k))} /\ w1.channel[L(n)] = chL
        BY <1>4, <2>1, <3>1
      <3> HIDE DEF k, chL
      <3>3. LET u == DisConnect(w1, GetAnother(w1, chL, L(n)), L(n), chL)
            IN  /\ Wired(u, {}) /\ OnlyLink(w1, u, k) /\ LinkDown(u, k)
                /\ u.overPolar = w1.overPolar
        BY <1>4, <2>1, <3>1, <3>2, BreakFromTerminal
      <3>4. Wired(w2, {}) /\ OnlyLink(w1, w2, k) /\ LinkDown(w2, k) /\ w2.overPolar = w1.overPolar
        BY <2>1, <3>3
      <3> HIDE DEF w2
      <3>5. \A m \in Nodes : HasRight(m) /\ n # RightOf(m) => SameLink(w1, w2, m)
        BY <3>1, <3>4, OtherLinksStay
      <3>6. QED
        BY <1>4, <3>4, <3>5 DEF k
    <2>2. CASE chL = NULL
      <3>1. ASSUME HasLeft(n)
            PROVE  LinkDown(w1, LeftOf(n))
        <4>1. LeftOf(n) \in Nodes /\ HasRight(LeftOf(n)) /\ RightOf(LeftOf(n)) = n /\ LeftOf(n) # n
          BY <3>1, LeftNeighbour
        <4>2. w0.channel[L(RightOf(LeftOf(n)))] = NULL
          BY <2>2, <4>1
        <4>3. LinkDown(w0, LeftOf(n))
          BY <1>2, <4>1, <4>2 DEF Wired, LinkUp
        <4>4. QED
          BY <1>4, <4>1, <4>3, SameLinkStays
      <3>2. QED
        BY <1>4, <2>2, <3>1 DEF SameLink
    <2>3. QED
      BY <2>1, <2>2
  <1> HIDE DEF w2
  <1>6. Entered(v, w2, n)
    <2> SUFFICES ASSUME NEW k \in Nodes, HasRight(k)
                 PROVE  IF n \in {k, RightOf(k)} THEN LinkDown(w2, k) ELSE SameLink(v, w2, k)
      BY <1>2, <1>5 DEF Entered
    <2>1. CASE n = k
      <3>1. n # RightOf(k)
        BY <2>1, RightNeighbour
      <3>2. LinkDown(w1, k) /\ SameLink(w1, w2, k)
        BY <1>4, <1>5, <2>1, <3>1
      <3>3. QED
        BY <2>1, <3>2, SameLinkStays
    <2>2. CASE n = RightOf(k)
      BY <1>5, <2>2, LinksOfNode
    <2>3. CASE n \notin {k, RightOf(k)}
      <3>1. SameLink(v, w0, k) /\ SameLink(w0, w1, k) /\ SameLink(w1, w2, k)
        BY <1>2, <1>4, <1>5, <2>3
      <3>2. QED
        BY <2>3, <3>1, SameLinkTwice
    <2>4. QED
      BY <2>1, <2>2, <2>3
  <1>7. QED
    BY <1>1, <1>5, <1>6

\* What a satellite that leaves the polar region does with a neighbour whose
\* other link is not broken: it restores the link between the two.
LEMMA ReconnectLeft ==
    ASSUME NEW v, Wired(v, {}), NEW n \in Nodes, HasLeft(n),
           L(LeftOf(n)) \notin v.breakedL
    PROVE  LET u == ReconnectVia(v, n, LeftOf(n))
           IN  /\ Wired(u, {}) /\ OnlyLink(v, u, LeftOf(n)) /\ LinkUp(u, LeftOf(n))
               /\ u.breakedR \subseteq v.breakedR /\ u.overPolar = v.overPolar
  <1> DEFINE k  == LeftOf(n)
             t1 == IF R(k) \in v.breakedR THEN Connect(v, R(k), L(n)) ELSE v
             u  == ReconnectVia(v, n, k)
  <1>1. k \in Nodes /\ HasRight(k) /\ RightOf(k) = n
    BY LeftNeighbour
  <1>2. /\ Wired(t1, {}) /\ OnlyLink(v, t1, k) /\ LinkUp(t1, k)
        /\ t1.overPolar = v.overPolar
        /\ t1.breakedR \subseteq v.breakedR /\ t1.breakedL \subseteq v.breakedL
    <2>1. CASE R(k) \in v.breakedR
      <3>1. LinkDown(v, k)
        BY <1>1, <2>1 DEF Wired, LinkUp
      <3>2. L(n) = L(RightOf(k))
        BY <1>1
      <3> HIDE DEF k
      <3>3. LET z == Connect(v, R(k), L(n))
            IN  /\ Wired(z, {}) /\ OnlyLink(v, z, k) /\ LinkUp(z, k)
                /\ z.overPolar = v.overPolar
                /\ z.breakedR = v.breakedR \ {R(k)}
                /\ z.breakedL = v.breakedL \ {L(RightOf(k))}
        BY <1>1, <3>1, <3>2, JoinLink
      <3>4. QED
        BY <2>1, <3>3
    <2>2. CASE R(k) \notin v.breakedR
      <3>1. LinkUp(v, k) /\ OnlyLink(v, v, k)
        BY <1>1, <2>2 DEF Wired, LinkDown, OnlyLink
      <3>2. QED
        BY <2>2, <3>1
    <2>3. QED
      BY <2>1, <2>2
  <1> HIDE DEF t1
  <1>3. L(k) \notin t1.breakedL
    BY <1>2
  <1>4. u = t1
    BY <1>3 DEF ReconnectVia, t1
  <1>5. QED
    BY <1>2, <1>4

LEMMA ReconnectRight ==
    ASSUME NEW v, Wired(v, {}), NEW n \in Nodes, HasRight(n),
           R(RightOf(n)) \notin v.breakedR
    PROVE  LET u == ReconnectVia(v, n, RightOf(n))
           IN  /\ Wired(u, {}) /\ OnlyLink(v, u, n) /\ LinkUp(u, n)
               /\ u.overPolar = v.overPolar
  <1> DEFINE m == RightOf(n)
             u == ReconnectVia(v, n, m)
  <1>1. u = IF L(m) \in v.breakedL THEN Connect(v, L(m), R(n)) ELSE v
    BY DEF ReconnectVia
  <1>2. CASE L(m) \in v.breakedL
    <2>1. LinkDown(v, n)
      BY <1>2 DEF Wired, LinkUp
    <2>2. LET z == Connect(v, L(m), R(n))
          IN  /\ Wired(z, {}) /\ OnlyLink(v, z, n) /\ LinkUp(z, n)
              /\ z.overPolar = v.overPolar
      BY <2>1, JoinLink
    <2>3. QED
      BY <1>1, <1>2, <2>2
  <1>3. CASE L(m) \notin v.breakedL
    <2>1. LinkUp(v, n) /\ OnlyLink(v, v, n)
      BY <1>3 DEF Wired, LinkDown, OnlyLink
    <2>2. QED
      BY <1>1, <1>3, <2>1
  <1>4. QED
    BY <1>2, <1>3

\* The links of n to satellites that are not recorded are up and no other link
\* changes; n is not recorded.
Departed(v, u, n) ==
    /\ u.overPolar = v.overPolar \ {n}
    /\ \A k \in Nodes : HasRight(k) =>
          IF n \in {k, RightOf(k)} /\ {k, RightOf(k)} \cap u.overPolar = {}
          THEN LinkUp(u, k) ELSE SameLink(v, u, k)

LEMMA LeavePolarWired ==
    ASSUME NEW v, Wired(v, {}), NEW n \in Nodes,
           HasLeft(n) /\ LeftOf(n) \notin v.overPolar => L(LeftOf(n)) \notin v.breakedL,
           HasRight(n) /\ RightOf(n) \notin v.overPolar => R(RightOf(n)) \notin v.breakedR
    PROVE  Wired(LeavePolar(v, n), {}) /\ Departed(v, LeavePolar(v, n), n)
  <1> DEFINE w0 == [v EXCEPT !.overPolar = @ \ {n}]
             w1 == IF HasLeft(n) /\ LeftOf(n) \notin w0.overPolar
                   THEN ReconnectVia(w0, n, LeftOf(n)) ELSE w0
             w2 == IF HasRight(n) /\ RightOf(n) \notin w0.overPolar
                   THEN ReconnectVia(w1, n, RightOf(n)) ELSE w1
  <1>1. LeavePolar(v, n) = w2
    BY DEF LeavePolar
  <1>2. /\ Wired(w0, {}) /\ w0.overPolar = v.overPolar \ {n}
        /\ w0.breakedR = v.breakedR /\ w0.breakedL = v.breakedL
        /\ \A k \in Nodes : SameLink(v, w0, k)
    <2>1. v.overPolar \ {n} \in SUBSET Nodes
      BY DEF Wired, WiringSound, WiringType
    <2>2. QED
      BY <2>1, OverPolarDoesNotMatter DEF SameLink
  <1> HIDE DEF w0
  <1>3. /\ HasLeft(n) => LeftOf(n) # n
        /\ HasRight(n) => RightOf(n) # n
    BY LeftNeighbour, RightNeighbour
  <1>4. /\ Wired(w1, {}) /\ w1.breakedR \subseteq v.breakedR
        /\ w1.overPolar = w0.overPolar
        /\ HasLeft(n) /\ LeftOf(n) \notin w0.overPolar => LinkUp(w1, LeftOf(n))
        /\ \A k \in Nodes : HasRight(k) /\ (n = RightOf(k) => k \in w0.overPolar) =>
              SameLink(w0, w1, k)
    <2>1. CASE HasLeft(n) /\ LeftOf(n) \notin w0.overPolar
      <3>1. L(LeftOf(n)) \notin w0.breakedL
        BY <1>2, <1>3, <2>1
      <3>2. LET u == ReconnectVia(w0, n, LeftOf(n))
            IN  /\ Wired(u, {}) /\ OnlyLink(w0, u, LeftOf(n)) /\ LinkUp(u, LeftOf(n))
                /\ u.breakedR \subseteq w0.breakedR /\ u.overPolar = w0.overPolar
        BY <1>2, <2>1, <3>1, ReconnectLeft
      <3>3. /\ Wired(w1, {}) /\ OnlyLink(w0, w1, LeftOf(n)) /\ LinkUp(w1, LeftOf(n))
            /\ w1.breakedR \subseteq w0.breakedR /\ w1.overPolar = w0.overPolar
        BY <2>1, <3>2
      <3> HIDE DEF w1
      <3>4. LeftOf(n) \in Nodes /\ HasRight(LeftOf(n)) /\ RightOf(LeftOf(n)) = n
        BY <2>1, LeftNeighbour
      <3>5. \A k \in Nodes : HasRight(k) /\ (n = RightOf(k) => k \in w0.overPolar) =>
               SameLink(w0, w1, k)
        BY <2>1, <3>3, <3>4, OtherLinksStay
      <3>6. QED
        BY <1>2, <3>3, <3>5
    <2>2. CASE ~ (HasLeft(n) /\ LeftOf(n) \notin w0.overPolar)
      <3>1. w1 = w0
        BY <2>2
      <3>2. QED
        BY <1>2, <2>2, <3>1 DEF SameLink
    <2>3. QED
      BY <2>1, <2>2
  <1> HIDE DEF w1
  <1>5. /\ Wired(w2, {}) /\ w2.overPolar = w0.overPolar
        /\ HasRight(n) /\ RightOf(n) \notin w0.overPolar => LinkUp(w2, n)
        /\ \A k \in Nodes : HasRight(k) /\ (n = k => RightOf(k) \in w0.overPolar) =>
              SameLink(w1, w2, k)
    <2>1. CASE HasRight(n) /\ RightOf(n) \notin w0.overPolar
      <3>1. R(RightOf(n)) \notin w1.breakedR
        BY <1>2, <1>3, <1>4, <2>1
      <3>2. LET u == ReconnectVia(w1, n, RightOf(n))
            IN  /\ Wired(u, {}) /\ OnlyLink(w1, u, n) /\ LinkUp(u, n)
                /\ u.overPolar = w1.overPolar
        BY <1>4, <2>1, <3>1, ReconnectRight
      <3>3. /\ Wired(w2, {}) /\ OnlyLink(w1, w2, n) /\ LinkUp(w2, n)
            /\ w2.overPolar = w1.overPolar
        BY <2>1, <3>2
      <3> HIDE DEF w2
      <3>4. \A k \in Nodes : HasRight(k) /\ (n = k => RightOf(k) \in w0.overPolar) =>
               SameLink(w1, w2, k)
        BY <2>1, <3>3, OtherLinksStay
      <3>5. QED
        BY <1>4, <3>3, <3>4
    <2>2. CASE ~ (HasRight(n) /\ RightOf(n) \notin w0.overPolar)
      <3>1. w2 = w1
        BY <2>2
      <3>2. QED
        BY <1>4, <2>2, <3>1 DEF SameLink
    <2>3. QED
      BY <2>1, <2>2
  <1> HIDE DEF w2
  <1>6. Departed(v, w2, n)
    <2> SUFFICES ASSUME NEW k \in Nodes, HasRight(k)
                 PROVE  IF n \in {k, RightOf(k)} /\ {k, RightOf(k)} \cap w0.overPolar = {}
                        THEN LinkUp(w2, k) ELSE SameLink(v, w2, k)
      BY <1>2, <1>5 DEF Departed
    <2>1. n = RightOf(k) <=> HasLeft(n) /\ k = LeftOf(n)
      BY LinksOfNode
    <2>2. k # RightOf(k) /\ SameLink(v, w0, k)
      BY <1>2, RightNeighbour
    <2>3. CASE n = RightOf(k) /\ k \notin w0.overPolar
      <3>1. LinkUp(w1, k) /\ SameLink(w1, w2, k)
        BY <1>4, <1>5, <2>1, <2>2, <2>3
      <3>2. {k, RightOf(k)} \cap w0.overPolar = {}
        BY <1>2, <2>3
      <3>3. QED
        BY <2>3, <3>1, <3>2, SameLinkStays
    <2>4. CASE n = k /\ RightOf(k) \notin w0.overPolar
      BY <1>2, <1>5, <2>4
    <2>5. CASE /\ n = RightOf(k) => k \in w0.overPolar
               /\ n = k => RightOf(k) \in w0.overPolar
      <3>1. SameLink(w0, w1, k) /\ SameLink(w1, w2, k)
        BY <1>4, <1>5, <2>5
      <3>2. SameLink(v, w2, k)
        BY <2>2, <3>1, SameLinkTwice
      <3>3. QED
        BY <2>5, <3>2
    <2>6. QED
      BY <2>3, <2>4, <2>5
  <1>7. QED
    BY <1>1, <1>5, <1>6

\* The link that a terminal with a temporary channel is an end of.
LEMMA LinkOfTerminal ==
    ASSUME NEW v, NEW todo, Wired(v, todo), NEW d \in Devices, v.channel[d] \in CrossChannels
    PROVE  \E n \in Nodes : HasRight(n) /\ d \in {R(n), L(RightOf(n))}
  <1> DEFINE c == v.channel[d]
  <1>1. c # NULL /\ WiringSound(v)
    BY ConstellationAssumption DEF Channels, Wired
  <1>2. d \in Ends(v, c) /\ NULL \notin Ends(v, c)
    BY <1>1 DEF WiringSound, AttachedIsListed
  <1>3. v.devList[c] \in CrossPairs
    <2>1. v.devList[c] # <<NULL, NULL>>
      BY <1>2 DEF Ends
    <2>2. QED
      BY <1>1, <2>1 DEF WiringSound, CrossHoldsPair
  <1>4. d[2] \in {"R", "L"}
    BY <1>2, <1>3, CrossPairFacts DEF Ends
  <1>5. d[1] \in Nodes /\ (d = R(d[1]) \/ d = L(d[1]))
    BY <1>4 DEF Devices, R, L
  <1>6. CASE d = R(d[1])
    <2>1. HasRight(d[1])
      BY <1>1, <1>5, <1>6 DEF Wired, EdgesUnlinked
    <2>2. QED
      BY <1>5, <1>6, <2>1
  <1>7. CASE d = L(d[1])
    <2>1. HasLeft(d[1])
      BY <1>1, <1>5, <1>7 DEF Wired, EdgesUnlinked
    <2>2. LeftOf(d[1]) \in Nodes /\ HasRight(LeftOf(d[1])) /\ RightOf(LeftOf(d[1])) = d[1]
      BY <1>5, <2>1, LeftNeighbour
    <2>3. QED
      BY <1>7, <2>2
  <1>8. QED
    BY <1>5, <1>6, <1>7

\* DisConnect as LatitudeCheck has it called.
LEMMA BreakSentWired ==
    ASSUME NEW v, Wired(v, {}), NEW d \in Devices, NEW c \in CrossChannels, c = v.channel[d]
    PROVE  LET u == DisConnect(v, v.devList[c][1], v.devList[c][2], c)
           IN  /\ Wired(u, {}) /\ u.overPolar = v.overPolar
               /\ \E n \in Nodes :
                     /\ HasRight(n) /\ OnlyLink(v, u, n) /\ LinkDown(u, n)
                     /\ Ends(v, c) = {R(n), L(RightOf(n))}
  <1> DEFINE a == v.devList[c][1]
             b == v.devList[c][2]
  <1>1. PICK n \in Nodes : HasRight(n) /\ d \in {R(n), L(RightOf(n))}
    BY LinkOfTerminal
  <1>2. c # NULL /\ c \in {v.channel[R(n)], v.channel[L(RightOf(n))]}
    BY <1>1, ConstellationAssumption DEF Channels
  <1>3. /\ v.channel[R(n)] = c
        /\ \/ v.devList[c] = <<R(n), L(RightOf(n))>>
           \/ v.devList[c] = <<L(RightOf(n)), R(n)>>
    BY <1>1, <1>2, ChannelOfLink
  <1>4. \/ a = R(n) /\ b = L(RightOf(n))
        \/ a = L(RightOf(n)) /\ b = R(n)
    BY <1>3
  <1> HIDE DEF a, b
  <1>5. LET u == DisConnect(v, a, b, c)
        IN  /\ Wired(u, {}) /\ OnlyLink(v, u, n) /\ LinkDown(u, n)
            /\ u.overPolar = v.overPolar
    BY <1>1, <1>2, <1>3, <1>4, BreakLink
  <1>6. Ends(v, c) = {R(n), L(RightOf(n))}
    BY <1>4 DEF Ends, a, b
  <1>7. QED
    BY <1>1, <1>5, <1>6 DEF a, b

-----------------------------------------------------------------------------
(* The invariant of a staggered motion.                                    *)

\* The satellites whose right link LinkConfig has still to build.
Unbuilt ==
    IF phase = "config" /\ cursor # NULL
    THEN {n \in Nodes : HasRight(n) /\ Pending(n)} ELSE {}

StaggeredInv == IInv /\ Wired(w, Unbuilt)

\* LinkConfig comes to every satellite that has a right neighbour: one step of
\* its loop takes one satellite off those that are pending.
LEMMA ConfigCoversAll ==
    ASSUME NEW n \in Nodes, HasRight(n), NEW m, m = AfterInConfig(n),
           NEW k \in Nodes, HasRight(k), k # n,
           k[2] > n[2] \/ (k[2] = n[2] /\ k[1] >= n[1])
    PROVE  m # NULL /\ (k[2] > m[2] \/ (k[2] = m[2] /\ k[1] >= m[1]))
  <1>1. /\ P \in Nat \ {0} /\ N \in Nat \ {0}
        /\ n[1] \in 0 .. P - 1 /\ n[2] \in 0 .. N - 1 /\ n = <<n[1], n[2]>>
        /\ k[1] \in 0 .. P - 1 /\ k[2] \in 0 .. N - 1 /\ k = <<k[1], k[2]>>
        /\ n[1] # P - 1 /\ k[1] # P - 1
    BY ConstellationAssumption DEF Nodes, HasRight
  <1>2. n[1] < k[1] \/ n[2] < k[2]
    BY <1>1
  <1>3. CASE n[1] < P - 2
    <2>1. m = <<n[1] + 1, n[2]>>
      BY <1>1, <1>3 DEF AfterInConfig
    <2>2. m \in Nodes
      BY <1>1, <1>3, <2>1 DEF Nodes
    <2>3. m # NULL
      BY <2>2, ConstellationAssumption
    <2>4. k[2] > n[2] \/ (k[2] = n[2] /\ k[1] >= n[1] + 1)
      BY <1>1, <1>2
    <2>5. QED
      BY <2>1, <2>3, <2>4
  <1>4. CASE n[1] >= P - 2
    <2>1. n[2] < N - 1 /\ k[2] > n[2]
      BY <1>1, <1>2, <1>4
    <2>2. m = <<0, n[2] + 1>>
      BY <1>1, <1>4, <2>1 DEF AfterInConfig
    <2>3. m \in Nodes
      BY <1>1, <2>1, <2>2 DEF Nodes
    <2>4. m # NULL
      BY <2>3, ConstellationAssumption
    <2>5. k[2] > n[2] + 1 \/ (k[2] = n[2] + 1 /\ k[1] >= 0)
      BY <1>1, <2>1
    <2>6. QED
      BY <2>2, <2>4, <2>5
  <1>5. QED
    BY <1>1, <1>3, <1>4

LEMMA StaggeredInitInv == Init => StaggeredInv
  <1> SUFFICES ASSUME Init
               PROVE  StaggeredInv
    OBVIOUS
  <1>1. IInv
    BY ConstellationInitInv
  <1>2. w = RingWiring /\ phase = "config" /\ cursor = IF P > 1 THEN <<0, 0>> ELSE NULL
    BY DEF Init, Start
  <1>3. /\ w.breakedR = {} /\ w.breakedL = {} /\ ~ w.ub
        /\ \A d \in Devices : d[2] \in {"R", "L"} => w.channel[d] = NULL
    <2>1. w.channel = [d \in Devices |-> CASE d[2] = "F" -> Ring(d[1])
                                           [] d[2] = "B" -> Ring(PrevInPlane(d[1]))
                                           [] OTHER      -> NULL]
      BY <1>2 DEF RingWiring
    <2>2. \A d \in Devices : d[2] \in {"R", "L"} => d[2] # "F" /\ d[2] # "B"
      OBVIOUS
    <2>3. \A d \in Devices : d[2] \in {"R", "L"} => w.channel[d] = NULL
      BY <2>1, <2>2
    <2>4. w.breakedR = {} /\ w.breakedL = {} /\ ~ w.ub
      BY <1>2 DEF RingWiring
    <2>5. QED
      BY <2>3, <2>4
  <1>4. Unbuilt = {n \in Nodes : HasRight(n)}
    <2>1. CASE P > 1
      <3>1. cursor = <<0, 0>> /\ cursor # NULL
        BY <1>2, <2>1, ConstellationAssumption DEF Nodes
      <3>2. \A n \in Nodes : n[1] \in Nat /\ n[2] \in Nat
        BY ConstellationAssumption DEF Nodes
      <3>3. \A n \in Nodes : Pending(n)
        BY <3>1, <3>2 DEF Pending
      <3>4. QED
        BY <1>2, <3>1, <3>3 DEF Unbuilt
    <2>2. CASE ~ (P > 1)
      BY <1>2, <2>2, ConstellationAssumption DEF Unbuilt, Nodes, HasRight
    <2>3. QED
      BY <2>1, <2>2
  <1>5. \A n \in Nodes : HasRight(n) => LinkUnbuilt(w, n)
    <2> SUFFICES ASSUME NEW n \in Nodes, HasRight(n)
                 PROVE  LinkUnbuilt(w, n)
      OBVIOUS
    <2>1. R(n) \in Devices /\ L(RightOf(n)) \in Devices
      BY RightNeighbour
    <2>2. R(n)[2] = "R" /\ L(RightOf(n))[2] = "L"
      BY DEF R, L
    <2>3. QED
      BY <1>3, <2>1, <2>2 DEF LinkUnbuilt
  <1>6. EdgesUnlinked(w)
    <2> SUFFICES ASSUME NEW n \in Nodes
                 PROVE  /\ w.channel[R(n)] = NULL /\ R(n) \notin w.breakedR
                        /\ w.channel[L(n)] = NULL /\ L(n) \notin w.breakedL
      BY DEF EdgesUnlinked
    <2>1. R(n) \in Devices /\ L(n) \in Devices /\ R(n)[2] = "R" /\ L(n)[2] = "L"
      BY SideTerminals DEF R, L
    <2>2. QED
      BY <1>3, <2>1
  <1>7. NoChannelLost(w, Unbuilt)
    BY <1>4 DEF NoChannelLost, CrossChannels
  <1>8. WiringSound(w) /\ RingIntact(w)
    BY <1>1, <1>2 DEF IInv, RingIntact
  <1>9. QED
    BY <1>1, <1>3, <1>4, <1>5, <1>6, <1>7, <1>8 DEF StaggeredInv, Wired

LEMMA StaggeredStepInv == StaggeredInv /\ [Staggered /\ Next]_vars => StaggeredInv'
  <1> SUFFICES ASSUME StaggeredInv, [Staggered /\ Next]_vars
               PROVE  StaggeredInv'
    OBVIOUS
  <1>1. IInv /\ Wired(w, Unbuilt)
    BY DEF StaggeredInv
  <1>2. IInv'
    BY <1>1, ConstellationStepInv
  <1>3. cursor \in Nodes \cup {NULL}
    BY <1>1 DEF IInv, TypeOK
  <1>4. ASSUME phase # "config" \/ cursor = NULL, phase' # "config" \/ cursor' = NULL,
               Wired(w, {}) => Wired(w', {})
        PROVE  StaggeredInv'
    <2>1. Unbuilt = {} /\ Unbuilt' = {}
      BY <1>4 DEF Unbuilt
    <2>2. QED
      BY <1>1, <1>2, <1>4, <2>1 DEF StaggeredInv
  <1>5. CASE LinkConfig
    <2>1. /\ phase = "config" /\ phase' = "config"
          /\ cursor \in Nodes /\ cursor # NULL
          /\ w' = ConfigureCross(w, cursor, Polar)
          /\ cursor' = AfterInConfig(cursor)
      BY <1>3, <1>5 DEF LinkConfig
    <2>2. /\ HasRight(cursor)
          /\ \A n \in Nodes : HasRight(n) /\ Pending(n) => Untouched(w, n)
      BY <1>1, <2>1, PendingIsUntouched DEF IInv
    <2>3. Pending(cursor)
      BY <2>1, ConstellationAssumption DEF Pending, Nodes
    <2>4. cursor \in Unbuilt /\ Untouched(w, cursor)
      BY <2>1, <2>2, <2>3 DEF Unbuilt
    <2>5. Wired(w', Unbuilt \ {cursor})
      BY <1>1, <2>1, <2>2, <2>4, BuildLink
    <2>6. Unbuilt' = Unbuilt \ {cursor}
      <3>1. ASSUME NEW k \in Nodes, HasRight(k), Pending(k), k # cursor
            PROVE  cursor' # NULL /\ Pending(k)'
        BY <2>1, <2>2, <3>1, ConfigCoversAll DEF Pending
      <3>2. ASSUME NEW k \in Nodes, HasRight(k), cursor' # NULL, Pending(k)'
            PROVE  Pending(k) /\ k # cursor
        BY <2>1, <2>2, <3>2, ConfigOrder DEF Pending
      <3>3. Unbuilt = {n \in Nodes : HasRight(n) /\ Pending(n)}
        BY <2>1 DEF Unbuilt
      <3>4. Unbuilt' = IF cursor' # NULL THEN {n \in Nodes : HasRight(n) /\ Pending(n)'} ELSE {}
        BY <2>1 DEF Unbuilt, HasRight
      <3>5. QED
        BY <3>1, <3>2, <3>3, <3>4
    <2>7. QED
      BY <1>2, <2>5, <2>6 DEF StaggeredInv
  <1>6. CASE LinkMaintenance
    BY <1>4, <1>6 DEF LinkMaintenance
  <1>7. CASE VisitEntering
    <2>1. /\ phase = "scan" /\ phase' = "scan" /\ cursor \in Nodes
          /\ w' = EnterPolar(w, cursor)
      BY <1>3, <1>7 DEF VisitEntering, Visiting, Advance
    <2>2. QED
      BY <1>4, <2>1, EnterPolarWired
  <1>8. CASE VisitLeaving /\ Staggered
    <2>1. /\ phase = "scan" /\ phase' = "scan" /\ cursor \in Nodes
          /\ w' = LeavePolar(w, cursor)
      BY <1>3, <1>8 DEF VisitLeaving, Visiting, Advance
    <2>2. CleanLeave(cursor)
      BY <1>8 DEF VisitLeaving, Staggered
    <2>3. Wired(w, {}) => Wired(w', {})
      BY <2>1, <2>2, LeavePolarWired DEF CleanLeave
    <2>4. QED
      BY <1>4, <2>1, <2>3
  <1>9. CASE VisitUnchanged
    BY <1>4, <1>9 DEF VisitUnchanged, Visiting, Advance
  <1>10. CASE EndOfEvent
    BY <1>4, <1>10 DEF EndOfEvent
  <1>11. ASSUME NEW d \in Devices, SendBreaksLink(d)
         PROVE  StaggeredInv'
    <2> DEFINE c == w.channel[d]
    <2>1. /\ phase = "idle" /\ phase' = "idle" /\ c \in CrossChannels
          /\ w' = DisConnect(w, w.devList[c][1], w.devList[c][2], c)
      BY <1>11 DEF SendBreaksLink
    <2>2. Wired(w, {}) => Wired(w', {})
      BY <2>1, BreakSentWired
    <2>3. QED
      BY <1>4, <2>1, <2>2
  <1>12. CASE Move
    BY <1>4, <1>12 DEF Move
  <1>13. CASE UNCHANGED vars
    <2>1. w' = w /\ phase' = phase /\ cursor' = cursor
      BY <1>13 DEF vars
    <2>2. Unbuilt' = Unbuilt
      BY <2>1 DEF Unbuilt, Pending, HasRight
    <2>3. QED
      BY <1>1, <1>2, <2>1, <2>2 DEF StaggeredInv
  <1>14. QED
    BY <1>5, <1>6, <1>7, <1>8, <1>9, <1>10, <1>11, <1>12, <1>13 DEF Next, Maintenance, Undefined

\* StaggeredInv holds as long as the motion is staggered.
THEOREM StaggeredInvariant == StaggeredSpec => []StaggeredInv
  BY StaggeredInitInv, StaggeredStepInv, PTL DEF StaggeredSpec

\* Under a staggered motion maintenance never cross-wires the constellation: a
\* link of satellite n joins its right terminal to the left one of its right
\* neighbour, however often the link was broken and restored.
THEOREM StaggeredNeighbourWiring == StaggeredSpec => []NeighbourWiring
  <1>1. StaggeredInv => NeighbourWiring
    <2> SUFFICES ASSUME StaggeredInv, NEW n \in Nodes
                 PROVE  /\ w.channel[R(n)] # NULL =>
                              HasRight(n) /\ GetAnother(w, w.channel[R(n)], R(n)) = L(RightOf(n))
                        /\ w.channel[L(n)] # NULL =>
                              HasLeft(n) /\ GetAnother(w, w.channel[L(n)], L(n)) = R(LeftOf(n))
      BY DEF NeighbourWiring
    <2>1. Wired(w, Unbuilt)
      BY DEF StaggeredInv
    <2>2. /\ w.channel[R(n)] # NULL => HasRight(n)
          /\ w.channel[L(n)] # NULL => HasLeft(n)
      BY <2>1 DEF Wired, EdgesUnlinked
    <2>3. ASSUME NEW k \in Nodes, HasRight(k), NEW c, c # NULL,
                 c \in {w.channel[R(k)], w.channel[L(RightOf(k))]}
          PROVE  /\ GetAnother(w, c, R(k)) = L(RightOf(k))
                 /\ GetAnother(w, c, L(RightOf(k))) = R(k)
      <3>1. \/ w.devList[c] = <<R(k), L(RightOf(k))>>
            \/ w.devList[c] = <<L(RightOf(k)), R(k)>>
        BY <2>1, <2>3, ChannelOfLink
      <3>2. R(k) # L(RightOf(k))
        BY <2>3, RightNeighbour
      <3>3. QED
        BY <3>1, <3>2 DEF GetAnother
    <2>4. ASSUME w.channel[R(n)] # NULL
          PROVE  GetAnother(w, w.channel[R(n)], R(n)) = L(RightOf(n))
      BY <2>2, <2>3, <2>4
    <2>5. ASSUME w.channel[L(n)] # NULL
          PROVE  GetAnother(w, w.channel[L(n)], L(n)) = R(LeftOf(n))
      <3>1. LeftOf(n) \in Nodes /\ HasRight(LeftOf(n)) /\ RightOf(LeftOf(n)) = n
        BY <2>2, <2>5, LeftNeighbour
      <3>2. QED
        BY <2>3, <2>5, <3>1
    <2>6. QED
      BY <2>2, <2>4, <2>5
  <1>2. QED
    BY <1>1, StaggeredInvariant, PTL

\* The record of broken terminals is exact whenever LinkConfig is over, also
\* between two steps of a pass and after a send broke a link.
THEOREM StaggeredBreakedIsExact == StaggeredSpec => []BreakedIsExact
  <1>1. StaggeredInv => BreakedIsExact
    BY DEF StaggeredInv, BreakedIsExact, Wired, Unbuilt, LinkUp, LinkDown, LinkIsUp, LinkIsDown
  <1>2. QED
    BY <1>1, StaggeredInvariant, PTL

\* unused_link is never popped when it is empty: a channel waits in it for every
\* link that is down.
THEOREM StaggeredPoolSuffices == StaggeredSpec => []PoolNeverExhausted
  <1>1. StaggeredInv => PoolNeverExhausted
    BY DEF StaggeredInv, PoolNeverExhausted, Wired
  <1>2. QED
    BY <1>1, StaggeredInvariant, PTL

\* No terminal serves two channels at a time and none loses its channel.
THEOREM StaggeredNoDoubleBooking == StaggeredSpec => []NoDoubleBooking
  <1>1. StaggeredInv => NoDoubleBooking
    <2> SUFFICES ASSUME StaggeredInv, NEW c \in CrossChannels, NEW d \in Ends(w, c) \ {NULL}
                 PROVE  w.channel[d] = c
      BY DEF NoDoubleBooking
    <2>1. Wired(w, Unbuilt) /\ WiringSound(w) /\ c # NULL
      BY ConstellationAssumption DEF StaggeredInv, Wired, Channels
    <2>2. ASSUME NEW i \in 1 .. Len(w.unused), w.unused[i] = c
          PROVE  FALSE
      <3>1. w.devList[c] = <<NULL, NULL>>
        BY <2>1, <2>2 DEF WiringSound, PoolEmpty
      <3>2. QED
        BY <3>1 DEF Ends
    <2>3. ASSUME NEW n \in Unbuilt, c = Cross(n)
          PROVE  FALSE
      <3>1. phase = "config" /\ cursor # NULL /\ n \in Nodes /\ HasRight(n) /\ Pending(n)
        BY <2>3 DEF Unbuilt
      <3>2. Untouched(w, n)
        BY <3>1, PendingIsUntouched DEF StaggeredInv, IInv
      <3>3. QED
        BY <2>3, <3>2 DEF Untouched, Ends
    <2>4. ASSUME NEW n \in Nodes, HasRight(n), w.channel[R(n)] = c
          PROVE  w.channel[d] = c
      <3>1. /\ w.channel[R(n)] = c /\ w.channel[L(RightOf(n))] = c
            /\ \/ w.devList[c] = <<R(n), L(RightOf(n))>>
               \/ w.devList[c] = <<L(RightOf(n)), R(n)>>
        BY <2>1, <2>4, ChannelOfLink
      <3>2. QED
        BY <3>1 DEF Ends
    <2>5. QED
      BY <2>1, <2>2, <2>3, <2>4 DEF Wired, NoChannelLost
  <1>2. QED
    BY <1>1, StaggeredInvariant, PTL

-----------------------------------------------------------------------------
(* Two planes.                                                             *)

\* The outer terminals of two planes face nobody, so the satellite that leaves
\* never finds another link down, whatever the motion.
LEMMA TwoPlanesCleanLeave ==
    ASSUME P <= 2, Wired(w, Unbuilt), NEW n \in Nodes
    PROVE  CleanLeave(n)
  <1>1. n[1] \in 0 .. P - 1 /\ P \in Nat
    BY ConstellationAssumption DEF Nodes
  <1>2. HasLeft(n) => LeftOf(n) \in Nodes /\ ~ HasLeft(LeftOf(n))
    BY <1>1, LeftNeighbour DEF HasLeft, LeftOf
  <1>3. HasRight(n) => RightOf(n) \in Nodes /\ ~ HasRight(RightOf(n))
    <2>1. n[1] # P - 1 => n[1] + 1 = P - 1
      BY <1>1
    <2>2. RightOf(n)[1] = n[1] + 1
      BY DEF RightOf
    <2>3. QED
      BY <2>1, <2>2, RightNeighbour DEF HasRight
  <1>4. \A k \in Nodes :
           /\ ~ HasRight(k) => R(k) \notin w.breakedR
           /\ ~ HasLeft(k)  => L(k) \notin w.breakedL
    BY DEF Wired, EdgesUnlinked
  <1>5. HasLeft(n) => L(LeftOf(n)) \notin w.breakedL
    BY <1>2, <1>4
  <1>6. HasRight(n) => R(RightOf(n)) \notin w.breakedR
    BY <1>3, <1>4
  <1>7. QED
    BY <1>5, <1>6 DEF CleanLeave

\* With one or two planes every motion is staggered, and all that is proved
\* above of a staggered motion holds.
THEOREM TwoPlanesAreStaggered ==
    ASSUME P <= 2
    PROVE  Spec => StaggeredSpec
  <1>1. StaggeredInv /\ [Next]_vars => [Staggered /\ Next]_vars
    <2> SUFFICES ASSUME StaggeredInv
                 PROVE  Staggered
      OBVIOUS
    <2>1. cursor \in Nodes \cup {NULL} /\ Wired(w, Unbuilt)
      BY DEF StaggeredInv, IInv, TypeOK
    <2>2. Visiting => cursor \in Nodes
      BY <2>1 DEF Visiting
    <2>3. QED
      BY <2>1, <2>2, TwoPlanesCleanLeave DEF Staggered
  <1>2. QED
    BY <1>1, StaggeredInitInv, StaggeredStepInv, PTL DEF Spec, StaggeredSpec

-----------------------------------------------------------------------------
(* III. The network.                                                       *)

TxType ==
    [state : {"READY", "BUSY"}, queue : Seq(Nat), currentPkt : Nat \cup {NULL},
     completions : Nat, accepted : Nat, begun : Nat]

\* Every terminal satisfies the invariants of module OpticalDevice.
TransmittersSound ==
    /\ tx \in [Senders -> TxType]
    /\ \A d \in Senders :
          Dev(d)!OneCompletionWhileBusy /\ Dev(d)!NoIdleBacklog /\ Dev(d)!StartedInOrder

InAir(d, k) == {m \in air : m.src = d /\ m.pkt = k}
InGot(d, k) == {m \in got : m.src = d /\ m.pkt = k}

\* Packet k of terminal d is nowhere, or in one place.
Nowhere(d, k) == InAir(d, k) = {} /\ InGot(d, k) = {} /\ <<d, k>> \notin lost

InOnePlace(d, k) ==
    \/ \E m \in air : InAir(d, k) = {m} /\ InGot(d, k) = {} /\ <<d, k>> \notin lost
    \/ \E m \in got : InGot(d, k) = {m} /\ InAir(d, k) = {} /\ <<d, k>> \notin lost
    \/ InAir(d, k) = {} /\ InGot(d, k) = {} /\ <<d, k>> \in lost

Fates ==
    \A d \in Senders, k \in Nat \ {0} :
       IF k <= tx[d].begun THEN InOnePlace(d, k) ELSE Nowhere(d, k)

NetInv == IInv /\ TransmittersSound /\ Fates

-----------------------------------------------------------------------------
(* The wiring.                                                             *)

\* OpticalChannel::Send, called while an event of the simulator runs, breaks
\* the link as SendBreaksLink does, or leaves the wiring alone.
LEMMA ChannelSendSteps ==
    ASSUME NEW d \in Senders, NEW p, ChannelSend(d, p), phase = "idle",
           UNCHANGED <<lat, phase, cursor>>
    PROVE  SendBreaksLink(d) \/ UNCHANGED vars
  BY DEF ChannelSend, SendBreaksLink, vars

\* Every step of the network is a step of the constellation.
LEMMA NetStepIsStep == [NetNext]_netVars => [Next]_vars
  <1> SUFFICES ASSUME [NetNext]_netVars
               PROVE  [Next]_vars
    OBVIOUS
  <1>1. CASE ~ w.ub /\ Helper
    BY <1>1 DEF Helper, Next
  <1>2. ASSUME NEW d \in Senders, NEW r, Transmit(d, r), phase = "idle", ~ w.ub
        PROVE  [Next]_vars
    <2>1. SendBreaksLink(d) \/ UNCHANGED vars
      BY <1>2, ChannelSendSteps DEF Transmit
    <2>2. d \in Devices
      BY NetworkAssumption
    <2>3. QED
      BY <1>2, <2>1, <2>2 DEF Next
  <1>3. ASSUME NEW d \in Senders, SendFrom(d), ~ w.ub
        PROVE  [Next]_vars
    BY <1>2, <1>3 DEF SendFrom
  <1>4. ASSUME NEW d \in Senders, TransmitComplete(d), ~ w.ub
        PROVE  [Next]_vars
    BY <1>2, <1>4 DEF TransmitComplete
  <1>5. ASSUME NEW m \in air, Receive(m) \/ ReceiveDrops(m)
        PROVE  [Next]_vars
    BY <1>5 DEF Receive, ReceiveDrops
  <1>6. CASE UNCHANGED netVars
    BY <1>6 DEF netVars, vars
  <1>7. QED
    BY <1>1, <1>3, <1>4, <1>5, <1>6 DEF NetNext

\* The helper's Connect, DisConnect and passes, and the links that a send
\* breaks, are the steps of module Constellation, for every constellation and
\* whatever the transmitters do.
THEOREM NetworkImplementsConstellation == NetSpec => ImplementsConstellation
  <1>1. NetInit => Init
    BY DEF NetInit
  <1>2. QED
    BY <1>1, NetStepIsStep, PTL DEF NetSpec, Spec, ImplementsConstellation

-----------------------------------------------------------------------------
(* The transmitters.                                                       *)

\* A queue that holds the numbers after b.
Numbered(q, b) == \A i \in 1 .. Len(q) : q[i] = b + i

\* The next number is put at its end; the number after b is at its head.
LEMMA NumberedAppend ==
    ASSUME NEW q \in Seq(Nat), NEW b \in Nat, Numbered(q, b)
    PROVE  LET k == b + Len(q) + 1
           IN  /\ Append(q, k) \in Seq(Nat) /\ Append(q, k) # <<>>
               /\ Len(Append(q, k)) = Len(q) + 1
               /\ Numbered(Append(q, k), b)
  <1> DEFINE k == b + Len(q) + 1
             a == Append(q, k)
  <1>1. Len(q) \in Nat /\ k \in Nat
    OBVIOUS
  <1> HIDE DEF k
  <1>2. /\ a \in Seq(Nat) /\ Len(a) = Len(q) + 1
        /\ \A i \in 1 .. Len(q) : a[i] = q[i]
        /\ a[Len(q) + 1] = k
    BY <1>1, AppendProperties
  <1>3. a # <<>>
    BY <1>1, <1>2
  <1>4. Numbered(a, b)
    BY <1>1, <1>2 DEF Numbered, k
  <1>5. QED
    BY <1>2, <1>3, <1>4 DEF k

LEMMA NumberedTail ==
    ASSUME NEW q \in Seq(Nat), NEW b \in Nat, Numbered(q, b), q # <<>>
    PROVE  /\ Head(q) = b + 1 /\ Head(q) \in Nat
           /\ Tail(q) \in Seq(Nat) /\ Len(Tail(q)) = Len(q) - 1
           /\ Numbered(Tail(q), b + 1)
  BY DEF Numbered

\* What a transmitter holds: the packets after begun, in order, up to accepted.
Ordered(y) ==
    y \in TxType /\ y.begun + Len(y.queue) = y.accepted /\ Numbered(y.queue, y.begun)

\* A packet enters the queue with the next number.
LEMMA EnqueueOrdered ==
    ASSUME NEW d, NEW y, Ordered(y)
    PROVE  LET z == Dev(d)!Enqueue(y)
           IN  /\ Ordered(z) /\ z.queue # <<>>
               /\ z.begun = y.begun /\ z.state = y.state
               /\ z.completions = y.completions /\ z.currentPkt = y.currentPkt
  <1> DEFINE z == Dev(d)!Enqueue(y)
             q == Append(y.queue, y.accepted + 1)
  <1>1. /\ y \in TxType /\ y.queue \in Seq(Nat) /\ y.accepted + 1 \in Nat /\ y.begun \in Nat
        /\ y.accepted + 1 = y.begun + Len(y.queue) + 1
    BY DEF Ordered, TxType
  <1>2. q \in Seq(Nat) /\ q # <<>> /\ Len(q) = Len(y.queue) + 1 /\ Numbered(q, y.begun)
    BY <1>1, NumberedAppend DEF Ordered
  <1>3. z \in TxType
    BY <1>1, <1>2 DEF Dev!Enqueue, TxType
  <1>4. z.queue = q /\ z.accepted = y.accepted + 1
    BY <1>1 DEF Dev!Enqueue, TxType
  <1>a. /\ z.begun = y.begun /\ z.state = y.state
        /\ z.completions = y.completions /\ z.currentPkt = y.currentPkt
    BY <1>1 DEF Dev!Enqueue, TxType
  <1>5. y.begun + Len(q) = y.accepted + 1
    <2>1. Len(y.queue) \in Nat /\ y.begun \in Nat
      BY <1>1
    <2>2. Len(q) = Len(y.queue) + 1
      BY <1>2
    <2>3. y.accepted + 1 = y.begun + Len(y.queue) + 1
      BY <1>1
    <2> HIDE DEF q
    <2> QED
      BY <2>1, <2>2, <2>3
  <1> HIDE DEF q, z
  <1>6. QED
    BY <1>2, <1>3, <1>4, <1>a, <1>5 DEF Ordered, z

\* TransmitStart takes the packet after begun.
LEMMA StartOrdered ==
    ASSUME NEW d, NEW y, Ordered(y), y.queue # <<>>, y.completions = 0
    PROVE  LET z == Dev(d)!TransmitStart(y)
           IN  /\ Ordered(z) /\ z.state = "BUSY" /\ z.completions = 1
               /\ z.begun = y.begun + 1 /\ z.currentPkt = z.begun
  <1> DEFINE z == Dev(d)!TransmitStart(y)
             q == Tail(y.queue)
  <1>1. /\ y \in TxType /\ y.queue \in Seq(Nat) /\ y.begun \in Nat
        /\ y.begun + 1 \in Nat /\ y.completions + 1 \in Nat
        /\ y.begun + Len(y.queue) = y.accepted
    BY DEF Ordered, TxType
  <1>2. /\ Head(y.queue) = y.begun + 1 /\ Head(y.queue) \in Nat
        /\ q \in Seq(Nat) /\ Len(q) = Len(y.queue) - 1
        /\ Numbered(q, y.begun + 1)
    BY <1>1, NumberedTail DEF Ordered
  <1>3. z \in TxType
    BY <1>1, <1>2 DEF Dev!TransmitStart, TxType
  <1>4. /\ z.queue = q /\ z.accepted = y.accepted
        /\ z.begun = y.begun + 1 /\ z.state = "BUSY"
        /\ z.completions = 0 + 1 /\ z.currentPkt = Head(y.queue)
    BY <1>1 DEF Dev!TransmitStart, TxType
  <1>5. y.begun + 1 + Len(q) = y.accepted
    BY <1>1, <1>2
  <1> HIDE DEF q, z
  <1>6. QED
    BY <1>2, <1>3, <1>4, <1>5 DEF Ordered, z

\* TransmitComplete up to the Dequeue leaves the queue as it is.
LEMMA EndOrdered ==
    ASSUME NEW d, NEW y, Ordered(y), y.completions = 1
    PROVE  LET z == Dev(d)!TransmitEnd(y)
           IN  /\ Ordered(z) /\ z.state = "READY" /\ z.completions = 0
               /\ z.begun = y.begun /\ z.currentPkt = NULL /\ z.queue = y.queue
  <1> DEFINE z == Dev(d)!TransmitEnd(y)
  <1>1. /\ z \in TxType /\ z.state = "READY" /\ z.completions = 0
        /\ z.begun = y.begun /\ z.currentPkt = NULL /\ z.queue = y.queue
        /\ z.accepted = y.accepted
    <2>1. y \in TxType /\ y.completions - 1 \in Nat /\ y.completions - 1 = 0
      BY DEF Ordered
    <2>2. z \in TxType
      BY <2>1 DEF Dev!TransmitEnd, TxType
    <2>3. /\ z.state = "READY" /\ z.completions = 0
          /\ z.begun = y.begun /\ z.currentPkt = NULL /\ z.queue = y.queue
          /\ z.accepted = y.accepted
      BY <2>1 DEF Dev!TransmitEnd, TxType
    <2>4. QED
      BY <2>2, <2>3
  <1> HIDE DEF z
  <1>2. QED
    BY <1>1 DEF Ordered, z

-----------------------------------------------------------------------------
(* The fate of a packet.                                                   *)

\* What TransmittersSound says of one terminal.
Sound(d, y) ==
    /\ Ordered(y)
    /\ y.state = "BUSY"  <=> y.completions = 1
    /\ y.state = "READY" <=> y.completions = 0
    /\ y.currentPkt = NULL <=> y.state = "READY"
    /\ y.state = "READY" => y.queue = <<>>
    /\ y.state = "BUSY" => y.currentPkt = y.begun

LEMMA SoundTransmitters ==
    TransmittersSound <=>
       /\ tx \in [Senders -> TxType]
       /\ \A d \in Senders : Sound(d, tx[d])
  BY DEF TransmittersSound, Sound, Ordered, Numbered, Dev!OneCompletionWhileBusy,
         Dev!NoIdleBacklog, Dev!StartedInOrder

\* One terminal changes.
LEMMA OneTransmitter ==
    ASSUME TransmittersSound, NEW d \in Senders, NEW r, Sound(d, r),
           tx' = [tx EXCEPT ![d] = r]
    PROVE  /\ TransmittersSound'
           /\ \A e \in Senders : tx'[e] = IF e = d THEN r ELSE tx[e]
  <1>1. r \in TxType
    BY DEF Sound, Ordered
  <1>2. /\ tx \in [Senders -> TxType]
        /\ \A e \in Senders : Sound(e, tx[e])
    BY SoundTransmitters
  <1>3. /\ tx' \in [Senders -> TxType]
        /\ \A e \in Senders : tx'[e] = IF e = d THEN r ELSE tx[e]
    BY <1>1, <1>2
  <1>4. \A e \in Senders : Sound(e, tx'[e])
    BY <1>2, <1>3 DEF Sound
  <1>5. TransmittersSound'
    BY <1>3, <1>4 DEF TransmittersSound, Sound, Ordered, Numbered,
       Dev!OneCompletionWhileBusy, Dev!NoIdleBacklog, Dev!StartedInOrder
  <1>6. QED
    BY <1>3, <1>5

\* The operations of a transmitter return sound ones.
LEMMA StartedSound ==
    ASSUME NEW d, NEW y, Ordered(y), y.queue # <<>>, y.completions = 0
    PROVE  LET z == Dev(d)!TransmitStart(y)
           IN  Sound(d, z) /\ z.begun = y.begun + 1 /\ z.currentPkt = z.begun
  <1> DEFINE z == Dev(d)!TransmitStart(y)
  <1>1. /\ Ordered(z) /\ z.state = "BUSY" /\ z.completions = 1
        /\ z.begun = y.begun + 1 /\ z.currentPkt = z.begun
    BY StartOrdered
  <1> HIDE DEF z
  <1>2. z.begun \in Nat /\ z.begun # NULL
    BY <1>1, NetworkAssumption DEF Ordered, TxType
  <1>3. QED
    BY <1>1, <1>2 DEF Sound, z

\* The packet handed to the channel is one that was nowhere before.
LEMMA SendGivesFate ==
    ASSUME Fates, TransmittersSound, NEW d \in Senders, NEW k, k = tx[d].begun + 1,
           ChannelSend(d, k), UNCHANGED got,
           \A e \in Senders : tx'[e].begun = IF e = d THEN k ELSE tx[e].begun
    PROVE  Fates'
  <1>0. \A e \in Senders : tx[e].begun \in Nat
    BY DEF TransmittersSound, TxType
  <1>1. k \in Nat \ {0} /\ Nowhere(d, k)
    BY <1>0 DEF Fates
  <1> DEFINE Moves(new, gone) ==
                /\ air' = air \cup new /\ lost' = lost \cup gone
                /\ \/ new = {} /\ gone = {<<d, k>>}
                   \/ \E m : new = {m} /\ m.src = d /\ m.pkt = k /\ gone = {}
  <1>2. PICK new, gone : Moves(new, gone)
    <2>1. CASE lost' = lost \cup {<<d, k>>} /\ air' = air
      <3>1. Moves({}, {<<d, k>>})
        BY <2>1
      <3>2. QED
        BY <3>1
    <2>2. CASE \E r : air' = air \cup {[src |-> d, dst |-> r, pkt |-> k]} /\ lost' = lost
      <3>1. PICK r : air' = air \cup {[src |-> d, dst |-> r, pkt |-> k]} /\ lost' = lost
        BY <2>2
      <3> DEFINE m == [src |-> d, dst |-> r, pkt |-> k]
      <3>2. m.src = d /\ m.pkt = k
        OBVIOUS
      <3> HIDE DEF m
      <3>3. Moves({m}, {})
        BY <3>1, <3>2 DEF m
      <3>4. QED
        BY <3>3
    <2>3. QED
      BY <2>1, <2>2 DEF ChannelSend
  <1>3. ASSUME NEW e \in Senders, NEW j \in Nat \ {0}, <<e, j>> # <<d, k>>
        PROVE  /\ InAir(e, j)' = InAir(e, j) /\ InGot(e, j)' = InGot(e, j)
               /\ (<<e, j>> \in lost') = (<<e, j>> \in lost)
               /\ (j <= tx'[e].begun) = (j <= tx[e].begun)
    <2>1. \A m \in new : ~ (m.src = e /\ m.pkt = j)
      BY <1>2, <1>3
    <2>2. InAir(e, j)' = InAir(e, j) /\ InGot(e, j)' = InGot(e, j)
      BY <1>2, <2>1 DEF InAir, InGot
    <2>3. (<<e, j>> \in lost') = (<<e, j>> \in lost)
      BY <1>2, <1>3
    <2>4. (j <= tx'[e].begun) = (j <= tx[e].begun)
      BY <1>0, <1>3
    <2>5. QED
      BY <2>2, <2>3, <2>4
  <1>4. InOnePlace(d, k)' /\ k <= tx'[d].begun
    <2>1. k <= tx'[d].begun /\ InGot(d, k)' = {}
      BY <1>1 DEF InGot, Nowhere
    <2>2. CASE new = {} /\ gone = {<<d, k>>}
      BY <1>1, <1>2, <2>1, <2>2 DEF InOnePlace, Nowhere, InAir
    <2>3. ASSUME NEW m, new = {m}, m.src = d, m.pkt = k, gone = {}
          PROVE  InOnePlace(d, k)'
      <3>1. InAir(d, k)' = {m} /\ m \in air' /\ <<d, k>> \notin lost'
        BY <1>1, <1>2, <2>3 DEF Nowhere, InAir
      <3>2. QED
        BY <2>1, <3>1 DEF InOnePlace
    <2>4. QED
      BY <1>2, <2>1, <2>2, <2>3
  <1>5. ASSUME NEW e \in Senders, NEW j \in Nat \ {0}
        PROVE  IF j <= tx'[e].begun THEN InOnePlace(e, j)' ELSE Nowhere(e, j)'
    <2>1. CASE <<e, j>> = <<d, k>>
      BY <1>4, <2>1
    <2>2. CASE <<e, j>> # <<d, k>>
      <3>1. IF j <= tx[e].begun THEN InOnePlace(e, j) ELSE Nowhere(e, j)
        BY <1>5 DEF Fates
      <3>2. InOnePlace(e, j) => InOnePlace(e, j)'
        BY <1>2, <1>3, <1>5, <2>2 DEF InOnePlace, InAir, InGot
      <3>3. Nowhere(e, j) => Nowhere(e, j)'
        BY <1>3, <1>5, <2>2 DEF Nowhere
      <3>4. QED
        BY <1>3, <1>5, <2>2, <3>1, <3>2, <3>3
    <2>3. QED
      BY <2>1, <2>2
  <1>6. QED
    BY <1>5 DEF Fates

\* A step that leaves the packets alone.
LEMMA FatesKept ==
    ASSUME Fates, UNCHANGED <<air, got, lost>>,
           \A e \in Senders : tx'[e].begun = tx[e].begun
    PROVE  Fates'
  BY DEF Fates, InOnePlace, Nowhere, InAir, InGot

\* A Receive event moves one packet from the air to the receiver, or drops it.
LEMMA ReceiveKeepsFates ==
    ASSUME Fates, NEW m \in air, Receive(m) \/ ReceiveDrops(m), UNCHANGED tx
    PROVE  Fates'
  <1> SUFFICES ASSUME NEW e \in Senders, NEW j \in Nat \ {0}
               PROVE  IF j <= tx[e].begun THEN InOnePlace(e, j)' ELSE Nowhere(e, j)'
    BY DEF Fates
  <1>1. IF j <= tx[e].begun THEN InOnePlace(e, j) ELSE Nowhere(e, j)
    BY DEF Fates
  <1>2. CASE m.src = e /\ m.pkt = j
    <2>1. m \in InAir(e, j)
      BY <1>2 DEF InAir
    <2>2. j <= tx[e].begun /\ InAir(e, j) = {m} /\ InGot(e, j) = {} /\ <<e, j>> \notin lost
      BY <1>1, <2>1 DEF InOnePlace, Nowhere
    <2>3. InAir(e, j)' = {}
      BY <1>2, <2>2 DEF InAir, Receive, ReceiveDrops
    <2>4. CASE Receive(m)
      <3>1. InGot(e, j)' = {m} /\ m \in got' /\ <<e, j>> \notin lost'
        BY <1>2, <2>2, <2>4 DEF InGot, Receive
      <3>2. QED
        BY <2>2, <2>3, <3>1 DEF InOnePlace
    <2>5. CASE ReceiveDrops(m)
      <3>1. InGot(e, j)' = {} /\ <<e, j>> \in lost'
        BY <1>2, <2>2, <2>5 DEF InGot, ReceiveDrops
      <3>2. QED
        BY <2>2, <2>3, <3>1 DEF InOnePlace
    <2>6. QED
      BY <2>4, <2>5
  <1>3. CASE ~ (m.src = e /\ m.pkt = j)
    <2>1. InAir(e, j)' = InAir(e, j) /\ InGot(e, j)' = InGot(e, j)
      BY <1>3 DEF InAir, InGot, Receive, ReceiveDrops
    <2>2. (<<e, j>> \in lost') = (<<e, j>> \in lost)
      BY <1>3 DEF Receive, ReceiveDrops
    <2>3. InOnePlace(e, j) => InOnePlace(e, j)'
      BY <2>1, <2>2 DEF InOnePlace, InAir, InGot
    <2>4. QED
      BY <1>1, <2>1, <2>2, <2>3 DEF Nowhere
  <1>4. QED
    BY <1>2, <1>3

-----------------------------------------------------------------------------
(* The invariant and its consequences.                                     *)

LEMMA NetInitInv == NetInit => NetInv
  <1> SUFFICES ASSUME NetInit
               PROVE  NetInv
    OBVIOUS
  <1>1. IInv
    BY ConstellationInitInv DEF NetInit
  <1>2. \A d \in Senders : tx[d] = Dev(d)!TxInit
    BY DEF NetInit
  <1>3. tx \in [Senders -> TxType]
    BY DEF NetInit, TxType, Dev!TxInit
  <1>4. TransmittersSound
    BY <1>2, <1>3, NetworkAssumption DEF TransmittersSound, Dev!TxInit,
       Dev!OneCompletionWhileBusy, Dev!NoIdleBacklog, Dev!StartedInOrder
  <1>5. \A d \in Senders : tx[d].begun = 0
    BY <1>2 DEF Dev!TxInit
  <1>6. air = {} /\ got = {} /\ lost = {}
    BY DEF NetInit
  <1>7. Fates
    BY <1>5, <1>6 DEF Fates, Nowhere, InAir, InGot
  <1>8. QED
    BY <1>1, <1>4, <1>7 DEF NetInv

\* Every step of the helper, of a terminal and of the air keeps NetInv.
LEMMA NetStepInv == NetInv /\ [NetNext]_netVars => NetInv'
  <1> SUFFICES ASSUME NetInv, [NetNext]_netVars
               PROVE  NetInv'
    OBVIOUS
  <1>1. IInv /\ TransmittersSound /\ Fates
    BY DEF NetInv
  <1>2. IInv'
    BY <1>1, NetStepIsStep, ConstellationStepInv
  <1>3. UNCHANGED tx => TransmittersSound'
    BY <1>1, SoundTransmitters DEF TransmittersSound, Dev!OneCompletionWhileBusy,
       Dev!NoIdleBacklog, Dev!StartedInOrder
  <1>4. \A d \in Senders : Sound(d, tx[d]) /\ Ordered(tx[d])
    BY <1>1, SoundTransmitters DEF Sound
  <1>5. CASE UNCHANGED <<tx, air, got, lost>>
    BY <1>1, <1>2, <1>3, <1>5, FatesKept DEF NetInv
  <1>6. ASSUME NEW d \in Senders, NEW y, Ordered(y), y.queue # <<>>, y.completions = 0,
               y.begun = tx[d].begun, Transmit(d, Dev(d)!TransmitStart(y))
        PROVE  NetInv'
    <2> DEFINE z == Dev(d)!TransmitStart(y)
    <2>1. Sound(d, z) /\ z.begun = tx[d].begun + 1 /\ z.currentPkt = z.begun
      BY <1>6, StartedSound
    <2>2. tx' = [tx EXCEPT ![d] = z] /\ ChannelSend(d, z.currentPkt) /\ UNCHANGED got
      BY <1>6 DEF Transmit
    <2> HIDE DEF z
    <2>3. /\ TransmittersSound'
          /\ \A e \in Senders : tx'[e] = IF e = d THEN z ELSE tx[e]
      BY <1>1, <2>1, <2>2, OneTransmitter
    <2>4. \A e \in Senders : tx'[e].begun = IF e = d THEN z.begun ELSE tx[e].begun
      BY <2>3
    <2>5. Fates'
      BY <1>1, <2>1, <2>2, <2>4, SendGivesFate
    <2>6. QED
      BY <1>2, <2>3, <2>5 DEF NetInv
  <1>7. ASSUME NEW d \in Senders, NEW r, Sound(d, r), r.begun = tx[d].begun,
               tx' = [tx EXCEPT ![d] = r], UNCHANGED <<air, got, lost>>
        PROVE  NetInv'
    <2>1. /\ TransmittersSound'
          /\ \A e \in Senders : tx'[e] = IF e = d THEN r ELSE tx[e]
      BY <1>1, <1>7, OneTransmitter
    <2>2. Fates'
      BY <1>1, <1>7, <2>1, FatesKept
    <2>3. QED
      BY <1>2, <2>1, <2>2 DEF NetInv
  <1>8. ASSUME NEW d \in Senders, SendFrom(d)
        PROVE  NetInv'
    <2> DEFINE r == Dev(d)!Enqueue(tx[d])
    <2>1. /\ Ordered(r) /\ r.queue # <<>>
          /\ r.begun = tx[d].begun /\ r.state = tx[d].state
          /\ r.completions = tx[d].completions /\ r.currentPkt = tx[d].currentPkt
      BY <1>4, EnqueueOrdered
    <2>2. \/ r.state = "READY" /\ Transmit(d, Dev(d)!TransmitStart(r))
          \/ r.state # "READY" /\ tx' = [tx EXCEPT ![d] = r] /\ UNCHANGED <<air, got, lost>>
      BY <1>8 DEF SendFrom
    <2> HIDE DEF r
    <2>3. CASE r.state = "READY" /\ Transmit(d, Dev(d)!TransmitStart(r))
      BY <1>4, <1>6, <2>1, <2>3 DEF Sound
    <2>4. CASE r.state # "READY" /\ tx' = [tx EXCEPT ![d] = r] /\ UNCHANGED <<air, got, lost>>
      <3>1. Sound(d, r)
        BY <1>4, <2>1, <2>4 DEF Sound
      <3>2. QED
        BY <1>7, <2>1, <2>4, <3>1
    <2>5. QED
      BY <2>2, <2>3, <2>4
  <1>9. ASSUME NEW d \in Senders, TransmitComplete(d)
        PROVE  NetInv'
    <2> DEFINE r == Dev(d)!TransmitEnd(tx[d])
    <2>1. tx[d].completions = 1
      BY <1>4, <1>9 DEF TransmitComplete, Sound, Ordered, TxType
    <2>2. /\ Ordered(r) /\ r.state = "READY" /\ r.completions = 0
          /\ r.begun = tx[d].begun /\ r.currentPkt = NULL /\ r.queue = tx[d].queue
      BY <1>4, <2>1, EndOrdered
    <2>3. \/ r.queue # <<>> /\ Transmit(d, Dev(d)!TransmitStart(r))
          \/ r.queue = <<>> /\ tx' = [tx EXCEPT ![d] = r] /\ UNCHANGED <<air, got, lost>>
      BY <1>9 DEF TransmitComplete
    <2> HIDE DEF r
    <2>4. CASE r.queue # <<>> /\ Transmit(d, Dev(d)!TransmitStart(r))
      BY <1>6, <2>2, <2>4
    <2>5. CASE r.queue = <<>> /\ tx' = [tx EXCEPT ![d] = r] /\ UNCHANGED <<air, got, lost>>
      <3>1. Sound(d, r)
        BY <2>2, <2>5 DEF Sound
      <3>2. QED
        BY <1>7, <2>2, <2>5, <3>1
    <2>6. QED
      BY <2>3, <2>4, <2>5
  <1>10. ASSUME NEW m \in air, Receive(m) \/ ReceiveDrops(m)
         PROVE  NetInv'
    <2>1. UNCHANGED tx
      BY <1>10 DEF Receive, ReceiveDrops
    <2>2. QED
      BY <1>1, <1>2, <1>3, <1>10, <2>1, ReceiveKeepsFates DEF NetInv
  <1>11. QED
    BY <1>5, <1>8, <1>9, <1>10 DEF NetNext, Helper, netVars

\* For every constellation, motion and set of senders: a packet whose
\* transmission was started is in flight, delivered or dropped, in exactly one
\* of these ways, and any other packet in none of them.
THEOREM PacketsHaveOneFate == NetSpec => []OneFatePerPacket
  <1>1. NetInv => OneFatePerPacket
    <2> SUFFICES ASSUME NetInv, NEW d \in Senders, NEW k \in 1 .. MaxPackets
                 PROVE  IF k <= tx[d].begun THEN InOnePlace(d, k) ELSE Nowhere(d, k)
      BY DEF OneFatePerPacket, InOnePlace, Nowhere, InAir, InGot
    <2>1. k \in Nat \ {0}
      BY NetworkAssumption
    <2>2. QED
      BY <2>1 DEF NetInv, Fates
  <1>2. QED
    BY NetInitInv, NetStepInv, <1>1, PTL DEF NetSpec

\* A transmitter is in a state that OpticalDevice allows, whatever the channel
\* it sends to does to the wiring from inside TransmitStart.
THEOREM NetworkTransmittersSound == NetSpec => []TransmittersSound
  <1>1. NetInv => TransmittersSound
    BY DEF NetInv
  <1>2. QED
    BY NetInitInv, NetStepInv, <1>1, PTL DEF NetSpec

\* The new packets of a step are those that ChannelSend put in the air.
LEMMA NewInAir ==
    ASSUME [NetNext]_netVars, NEW m \in air' \ air
    PROVE  \E d \in Senders : /\ w.channel[d] \in Channels
                              /\ ~ (w.channel[d] \in CrossChannels /\ OverLimit(w.channel[d]))
                              /\ m.src = d /\ m.dst = GetAnother(w, w.channel[d], d)
  <1>1. ASSUME NEW d \in Senders, NEW p, ChannelSend(d, p)
        PROVE  /\ w.channel[d] \in Channels
               /\ ~ (w.channel[d] \in CrossChannels /\ OverLimit(w.channel[d]))
               /\ m.src = d /\ m.dst = GetAnother(w, w.channel[d], d)
    BY <1>1 DEF ChannelSend
  <1>2. ASSUME NEW d \in Senders, SendFrom(d)
        PROVE  \E p : ChannelSend(d, p)
    BY <1>2 DEF SendFrom, Transmit
  <1>3. ASSUME NEW d \in Senders, TransmitComplete(d)
        PROVE  \E p : ChannelSend(d, p)
    BY <1>3 DEF TransmitComplete, Transmit
  <1>4. ~ UNCHANGED air
    OBVIOUS
  <1>5. ASSUME NEW d \in Senders, \E p : ChannelSend(d, p)
        PROVE  \E e \in Senders : /\ w.channel[e] \in Channels
                                  /\ ~ (w.channel[e] \in CrossChannels /\ OverLimit(w.channel[e]))
                                  /\ m.src = e /\ m.dst = GetAnother(w, w.channel[e], e)
    BY <1>1, <1>5
  <1>6. ASSUME NEW r \in air, Receive(r) \/ ReceiveDrops(r)
        PROVE  FALSE
    BY <1>6 DEF Receive, ReceiveDrops
  <1>7. QED
    BY <1>2, <1>3, <1>4, <1>5, <1>6 DEF NetNext, netVars, Helper

\* OpticalChannel::LatitudeCheck: no packet is put on a temporary link with an
\* end above the polar limit, however long ago the last pass of LinkMaintenance
\* was and wherever the satellites went since.
THEOREM PolarLinksCarryNothing == NetSpec => NothingSentOverPole
  <1> DEFINE Below(m) == m.src[2] \in {"R", "L"} =>
                            lat[m.src[1]] <= LatLimit /\ lat[m.dst[1]] <= LatLimit
             Sent == \A m \in air' \ air : Below(m)
  <1>1. ASSUME NetInv, [NetNext]_netVars
        PROVE  [Sent]_netVars
    <2> SUFFICES ASSUME NEW m \in air' \ air, m.src[2] \in {"R", "L"}
                 PROVE  lat[m.src[1]] <= LatLimit /\ lat[m.dst[1]] <= LatLimit
      OBVIOUS
    <2>1. PICK d \in Senders : /\ w.channel[d] \in Channels
                               /\ ~ (w.channel[d] \in CrossChannels /\ OverLimit(w.channel[d]))
                               /\ m.src = d /\ m.dst = GetAnother(w, w.channel[d], d)
      BY <1>1, NewInAir
    <2>2. /\ d \in Devices /\ w.channel[d] # NULL /\ WiringSound(w)
          /\ lat \in [Nodes -> 0 .. MaxLat]
      BY <1>1, <2>1, NetworkAssumption, ConstellationAssumption DEF NetInv, IInv, TypeOK
    <2> DEFINE c == w.channel[d]
    <2>3. /\ c \in CrossChannels /\ w.devList[c] \in CrossPairs /\ d \in Ends(w, c)
      BY <2>1, <2>2, AttachedSideTerminal
    <2>4. \A e \in Ends(w, c) : e[1] \in Nodes
      BY <2>3, CrossPairFacts DEF Ends
    <2>5. m.dst \in Ends(w, c)
      BY <2>1 DEF GetAnother, Ends
    <2>6. \A e \in Ends(w, c) : ~ (lat[e[1]] > LatLimit)
      BY <2>1, <2>3 DEF OverLimit
    <2>7. \A e \in Ends(w, c) : lat[e[1]] \in Int
      BY <2>2, <2>4
    <2>8. \A e \in Ends(w, c) : lat[e[1]] <= LatLimit
      BY <2>6, <2>7, LatitudeAssumption
    <2>9. QED
      BY <2>1, <2>3, <2>5, <2>8
  <1>2. QED
    BY NetInitInv, NetStepInv, <1>1, PTL DEF NetSpec, NothingSentOverPole

-----------------------------------------------------------------------------
(* A terminal of the network is a terminal of module OpticalDevice.        *)

\* What the wiring says of one terminal: without a channel it is down, with one
\* it is up, and the channel is one of the constellation.
LEMMA TerminalWiring ==
    ASSUME NEW v, WiringSound(v), NEW d \in Devices
    PROVE  /\ v.channel[d] \in Channels \cup {NULL} /\ v.linkUp[d] \in BOOLEAN
           /\ v.linkUp[d] <=> v.channel[d] # NULL
  BY DEF WiringSound, WiringType, AttachedIsListed, UpIsAttached

\* Whatever happens to the wiring while a transmitter rests is to it an Attach,
\* a Detach or nothing.
LEMMA WiringStepOfTerminal ==
    ASSUME WiringSound(w'), NEW d \in Senders, tx'[d] = tx[d]
    PROVE  (\E c \in Channels : Dev(d)!Attach(c)) \/ Dev(d)!Detach
  <1>1. /\ w'.channel[d] \in Channels \cup {NULL} /\ w'.linkUp[d] \in BOOLEAN
        /\ w'.linkUp[d] <=> w'.channel[d] # NULL
    BY TerminalWiring, NetworkAssumption
  <1>2. CASE w'.channel[d] = NULL
    <2>1. w'.linkUp[d] = FALSE
      BY <1>1, <1>2
    <2>2. Dev(d)!Detach
      BY <1>2, <2>1 DEF Dev!Detach
    <2>3. QED
      BY <2>2
  <1>3. CASE w'.channel[d] # NULL
    <2>1. w'.channel[d] \in Channels /\ w'.linkUp[d] = TRUE
      BY <1>1, <1>3
    <2>2. Dev(d)!Attach(w'.channel[d])
      BY <2>1 DEF Dev!Attach
    <2>3. QED
      BY <2>1, <2>2
  <1>4. QED
    BY <1>2, <1>3

\* To the sender, OpticalChannel::Send leaves the terminal as it is or detaches
\* it.
LEMMA SendDetachesSender ==
    ASSUME WiringSound(w), WiringSound(w'), NEW d \in Senders, NEW p, ChannelSend(d, p)
    PROVE  Dev(d)!ChannelSend
  <1>1. CASE UNCHANGED w
    BY <1>1 DEF Dev!ChannelSend
  <1>2. CASE w.channel[d] \in CrossChannels /\ ~ UNCHANGED w
    <2> DEFINE c == w.channel[d]
               a == w.devList[c][1]
               b == w.devList[c][2]
    <2>1. d \in Devices /\ c \in CrossChannels /\ c # NULL
      BY <1>2, NetworkAssumption, ConstellationAssumption DEF Channels
    <2>2. w' = DisConnect(w, a, b, c)
      BY <1>2 DEF ChannelSend
    <2>3. d \in Ends(w, c) /\ w.devList[c] \in CrossPairs
      <3>1. d \in Ends(w, c) /\ NULL \notin Ends(w, c)
        BY <2>1 DEF WiringSound, AttachedIsListed
      <3>2. w.devList[c] # <<NULL, NULL>>
        BY <3>1 DEF Ends
      <3>3. QED
        BY <2>1, <3>1, <3>2 DEF WiringSound, CrossHoldsPair
    <2>4. a \in Devices /\ b \in Devices /\ d \in {a, b}
      BY <2>3, CrossPairFacts DEF Ends
    <2> HIDE DEF a, b
    <2>5. w'.channel = [w.channel EXCEPT ![a] = NULL, ![b] = NULL]
      <3>1. w \in WiringType
        BY DEF WiringSound
      <3> HIDE DEF c
      <3>2. Broken(w, w', a, b, c)
        BY <2>1, <2>2, <2>4, <3>1, DisConnectFields
      <3>3. QED
        BY <3>2 DEF Broken
    <2>6. w'.channel[d] = NULL
      BY <2>1, <2>4, <2>5 DEF WiringSound, WiringType
    <2>7. w'.linkUp[d] = FALSE
      BY <2>1, <2>6, TerminalWiring
    <2>8. QED
      BY <2>1, <2>6, <2>7 DEF Dev!ChannelSend
  <1>3. QED
    BY <1>1, <1>2 DEF ChannelSend

\* A step of the network is a step of each of its terminals, or leaves it as it
\* is.
LEMMA NetStepIsDeviceStep ==
    ASSUME NetInv, NetInv', [NetNext]_netVars, NEW d \in Senders
    PROVE  [Dev(d)!Next]_(Dev(d)!vars)
  <1>1. WiringSound(w) /\ WiringSound(w')
    BY DEF NetInv, IInv
  <1>2. /\ tx \in [Senders -> TxType]
        /\ \A e \in Senders : Ordered(tx[e])
    BY SoundTransmitters DEF NetInv, Sound
  <1>3. CASE tx'[d] = tx[d]
    BY <1>1, <1>3, WiringStepOfTerminal DEF Dev!Next
  <1>4. ASSUME NEW e \in Senders, e # d, NEW r, tx' = [tx EXCEPT ![e] = r]
        PROVE  tx'[d] = tx[d]
    BY <1>2, <1>4
  <1>5. CASE SendFrom(d)
    <2> DEFINE r == Dev(d)!Enqueue(tx[d])
    <2>1. r.state = tx[d].state
      BY <1>2, EnqueueOrdered
    <2>2. CASE r.state = "READY" /\ Transmit(d, Dev(d)!TransmitStart(r))
      <3> DEFINE z == Dev(d)!TransmitStart(r)
      <3>1. tx'[d] = z /\ ChannelSend(d, z.currentPkt)
        BY <1>2, <2>2 DEF Transmit
      <3>2. Dev(d)!ChannelSend
        BY <1>1, <3>1, SendDetachesSender
      <3>3. Dev(d)!SendStarts
        BY <1>5, <2>1, <2>2, <3>1, <3>2 DEF SendFrom, Dev!SendStarts
      <3>4. QED
        BY <3>3 DEF Dev!Next
    <2>3. CASE r.state # "READY" /\ tx' = [tx EXCEPT ![d] = r] /\ UNCHANGED vars
      <3>1. tx'[d] = r /\ UNCHANGED w
        BY <1>2, <2>3 DEF vars
      <3>2. Dev(d)!SendQueues
        BY <1>5, <2>1, <2>3, <3>1 DEF SendFrom, Dev!SendQueues
      <3>3. QED
        BY <3>2 DEF Dev!Next
    <2>4. QED
      BY <1>5, <2>2, <2>3 DEF SendFrom
  <1>6. CASE TransmitComplete(d)
    <2> DEFINE r == Dev(d)!TransmitEnd(tx[d])
    <2>1. r.queue = tx[d].queue
      BY <1>2 DEF Ordered, TxType, Dev!TransmitEnd
    <2>2. CASE r.queue # <<>> /\ Transmit(d, Dev(d)!TransmitStart(r))
      <3> DEFINE z == Dev(d)!TransmitStart(r)
      <3>1. tx'[d] = z /\ ChannelSend(d, z.currentPkt)
        BY <1>2, <2>2 DEF Transmit
      <3>2. Dev(d)!ChannelSend
        BY <1>1, <3>1, SendDetachesSender
      <3>3. Dev(d)!TransmitComplete
        BY <1>6, <2>1, <2>2, <3>1, <3>2 DEF TransmitComplete, Dev!TransmitComplete
      <3>4. QED
        BY <3>3 DEF Dev!Next
    <2>3. CASE r.queue = <<>> /\ tx' = [tx EXCEPT ![d] = r] /\ UNCHANGED vars
      <3>1. tx'[d] = r /\ UNCHANGED w
        BY <1>2, <2>3 DEF vars
      <3>2. Dev(d)!TransmitComplete
        BY <1>6, <2>1, <2>3, <3>1 DEF TransmitComplete, Dev!TransmitComplete
      <3>3. QED
        BY <3>2 DEF Dev!Next
    <2>4. QED
      BY <1>6, <2>2, <2>3 DEF TransmitComplete
  <1>7. ASSUME NEW e \in Senders, e # d, SendFrom(e) \/ TransmitComplete(e)
        PROVE  tx'[d] = tx[d]
    BY <1>4, <1>7 DEF SendFrom, TransmitComplete, Transmit
  <1>8. CASE UNCHANGED tx
    BY <1>3, <1>8
  <1>9. QED
    BY <1>3, <1>5, <1>6, <1>7, <1>8 DEF NetNext, Helper, Receive, ReceiveDrops, netVars

LEMMA NetInitIsDeviceInit ==
    ASSUME NetInit, NEW d \in Senders, d[2] \in {"R", "L"}
    PROVE  Dev(d)!Init
  <1>1. d \in Devices /\ w = RingWiring /\ tx[d] = Dev(d)!TxInit
    BY NetworkAssumption DEF NetInit, Init, Start
  <1>2. w.channel[d] = NULL /\ w.linkUp[d] = FALSE
    <2>1. /\ w.channel = [e \in Devices |-> CASE e[2] = "F" -> Ring(e[1])
                                             [] e[2] = "B" -> Ring(PrevInPlane(e[1]))
                                             [] OTHER      -> NULL]
          /\ w.linkUp = [e \in Devices |-> e[2] \in {"F", "B"}]
      BY <1>1 DEF RingWiring
    <2>2. d[2] # "F" /\ d[2] # "B"
      OBVIOUS
    <2>3. w.channel[d] = NULL
      BY <1>1, <2>1, <2>2
    <2>4. w.linkUp[d] = (d[2] \in {"F", "B"})
      BY <1>1, <2>1
    <2>5. (d[2] \in {"F", "B"}) = FALSE
      BY <2>2
    <2>6. w.linkUp[d] = FALSE
      BY <2>4, <2>5, Zenon
    <2>7. QED
      BY <2>3, <2>6
  <1>3. QED
    BY <1>1, <1>2 DEF Dev!Init

\* The safety part of ImplementsDevice, for every terminal of an inter-plane
\* link that sends: whatever the helper, the other terminals and its own sends
\* do to its channel, it does what module OpticalDevice says.
THEOREM SideTerminalsImplementDevice ==
    ASSUME NEW d \in Senders, d[2] \in {"R", "L"}
    PROVE  NetSpec => Dev(d)!Init /\ [][Dev(d)!Next]_(Dev(d)!vars)
  <1>1. NetInit => Dev(d)!Init
    BY NetInitIsDeviceInit
  <1>2. NetInv /\ NetInv' /\ [NetNext]_netVars => [Dev(d)!Next]_(Dev(d)!vars)
    BY NetStepIsDeviceStep
  <1>3. QED
    BY <1>1, <1>2, NetInitInv, NetStepInv, PTL DEF NetSpec

\* The same of the terminal that ImplementsDevice names.
THEOREM NetworkImplementsDevice ==
    ASSUME R(<<0, 0>>) \in Senders
    PROVE  NetSpec => /\ RightTerminal!Init
                      /\ [][RightTerminal!Next]_(RightTerminal!vars)
  <1> DEFINE d == R(<<0, 0>>)
  <1>1. NetInit => RightTerminal!Init
    <2> SUFFICES ASSUME NetInit
                 PROVE  RightTerminal!Init
      OBVIOUS
    <2>1. d[2] = "R"
      BY DEF R
    <2>2. Dev(d)!Init
      BY <2>1, NetInitIsDeviceInit
    <2>3. QED
      BY <2>2 DEF Dev!Init, Dev!TxInit, RightTerminal!Init, RightTerminal!TxInit
  <1>2. NetInv /\ NetInv' /\ [NetNext]_netVars => [RightTerminal!Next]_(RightTerminal!vars)
    <2> SUFFICES ASSUME NetInv, NetInv', [NetNext]_netVars
                 PROVE  [RightTerminal!Next]_(RightTerminal!vars)
      OBVIOUS
    <2>1. [Dev(d)!Next]_(Dev(d)!vars)
      BY NetStepIsDeviceStep
    <2>2. QED
      BY <2>1 DEF Dev!Next, RightTerminal!Next, Dev!vars, RightTerminal!vars, Dev!SendQueues, RightTerminal!SendQueues, Dev!SendStarts, RightTerminal!SendStarts, Dev!SendDrops, RightTerminal!SendDrops, Dev!TransmitComplete, RightTerminal!TransmitComplete, Dev!Attach, RightTerminal!Attach, Dev!Detach, RightTerminal!Detach, Dev!SetLinkDown, RightTerminal!SetLinkDown, Dev!ChannelSend, RightTerminal!ChannelSend, Dev!Usable, RightTerminal!Usable, Dev!CanEnqueue, RightTerminal!CanEnqueue, Dev!Enqueue, RightTerminal!Enqueue, Dev!TransmitStart, RightTerminal!TransmitStart, Dev!TransmitEnd, RightTerminal!TransmitEnd
  <1>3. QED
    BY <1>1, <1>2, NetInitInv, NetStepInv, PTL DEF NetSpec

-----------------------------------------------------------------------------
(* Where packets arrive.                                                   *)

\* GetAnother of a terminal's channel is the terminal that it faces.
LEMMA AnotherIsFacing ==
    ASSUME NEW v, NEW todo, Wired(v, todo), NEW d \in Devices,
           NEW c \in Channels, c = v.channel[d]
    PROVE  GetAnother(v, c, d) = Facing(d)
  <1>1. WiringSound(v) /\ RingIntact(v)
    BY DEF Wired
  <1>2. CASE c \in CrossChannels
    <2>1. PICK n \in Nodes : HasRight(n) /\ d \in {R(n), L(RightOf(n))}
      BY <1>2, LinkOfTerminal
    <2>2. c # NULL /\ c \in {v.channel[R(n)], v.channel[L(RightOf(n))]}
      BY <2>1, ConstellationAssumption
    <2>3. /\ \/ v.devList[c] = <<R(n), L(RightOf(n))>>
             \/ v.devList[c] = <<L(RightOf(n)), R(n)>>
          /\ R(n) # L(RightOf(n))
      BY <2>1, <2>2, ChannelOfLink, RightNeighbour
    <2>4. Facing(R(n)) = L(RightOf(n))
      BY DEF Facing, R
    <2>5. Facing(L(RightOf(n))) = R(n)
      <3>1. LeftOf(RightOf(n)) = n
        BY DEF LeftOf, RightOf, Nodes
      <3>2. Facing(L(RightOf(n))) = R(LeftOf(RightOf(n)))
        BY DEF Facing, L
      <3>3. QED
        BY <3>1, <3>2
    <2>6. /\ GetAnother(v, c, R(n)) = L(RightOf(n))
          /\ GetAnother(v, c, L(RightOf(n))) = R(n)
      <3> DEFINE r == R(n)
                 l == L(RightOf(n))
      <3> HIDE DEF r, l
      <3>1. (v.devList[c] = <<r, l>> \/ v.devList[c] = <<l, r>>) /\ r # l
        BY <2>3 DEF r, l
      <3>2. GetAnother(v, c, r) = l /\ GetAnother(v, c, l) = r
        BY <3>1 DEF GetAnother
      <3>3. QED
        BY <3>2 DEF r, l
    <2>7. QED
      BY <2>1, <2>4, <2>5, <2>6
  <1>3. CASE c \in RingChannels
    <2>1. d = <<d[1], d[2]>> /\ d[1] \in Nodes /\ d[2] \in {"R", "L", "F", "B"}
      BY DEF Devices, Directions
    <2>2. d[2] \notin {"R", "L"}
      <3>1. c \notin CrossChannels /\ c # NULL
        BY <1>3, CrossIsNotRing, ConstellationAssumption
      <3>2. {v.channel[R(d[1])], v.channel[L(d[1])]} \subseteq CrossChannels \cup {NULL}
        BY <1>1, <2>1 DEF WiringSound, SideTerminalsOnCross
      <3>3. d # R(d[1]) /\ d # L(d[1])
        BY <3>1, <3>2
      <3>4. QED
        BY <2>1, <3>3 DEF R, L
    <2>3. c = RingWiring.channel[d] /\ v.devList[c] = RingWiring.devList[c]
      BY <1>1, <1>3, <2>1, <2>2 DEF RingIntact
    <2>4. RingWiring.channel = [e \in Devices |->
                                  CASE e[2] = "F" -> Ring(e[1])
                                    [] e[2] = "B" -> Ring(PrevInPlane(e[1]))
                                    [] OTHER      -> NULL]
      BY DEF RingWiring
    <2>5. v.devList[c] = <<<<c[1], "F">>, <<NextInPlane(c[1]), "B">>>>
      <3>1. RingWiring.devList = [e \in Channels |->
                                     IF e \in RingChannels
                                     THEN <<<<e[1], "F">>, <<NextInPlane(e[1]), "B">>>>
                                     ELSE <<NULL, NULL>>]
        BY DEF RingWiring
      <3>2. QED
        BY <1>3, <2>3, <3>1
    <2>6. CASE d[2] = "F"
      <3>1. c = Ring(d[1])
        BY <2>3, <2>4, <2>6
      <3>2. c[1] = d[1]
        BY <3>1 DEF Ring
      <3>3. v.devList[c] = <<d, <<NextInPlane(d[1]), "B">>>>
        BY <2>1, <2>5, <2>6, <3>2
      <3>4. Facing(d) = <<NextInPlane(d[1]), "B">>
        BY <2>6 DEF Facing
      <3>5. QED
        BY <3>3, <3>4 DEF GetAnother
    <2>7. CASE d[2] = "B"
      <3>1. c = Ring(PrevInPlane(d[1]))
        BY <2>3, <2>4, <2>7
      <3>2. c[1] = PrevInPlane(d[1])
        BY <3>1 DEF Ring
      <3>3. v.devList[c][1] = <<PrevInPlane(d[1]), "F">> /\ v.devList[c][1] # d
        BY <2>1, <2>5, <2>7, <3>2
      <3>4. v.devList[c][2] = d
        BY <2>1, <2>5, <2>7, <3>2, RingCloses
      <3>5. Facing(d) = <<PrevInPlane(d[1]), "F">>
        BY <2>7 DEF Facing
      <3>6. QED
        BY <3>3, <3>4, <3>5 DEF GetAnother
    <2>8. QED
      BY <2>1, <2>2, <2>6, <2>7
  <1>4. QED
    BY <1>2, <1>3 DEF Channels

\* However often a link is broken and restored, a packet only ever arrives at
\* the terminal its sender points at, as long as the motion is staggered.
THEOREM PacketsArriveAtFacing ==
    NetSpec /\ [][Staggered]_netVars => []ArrivesAtFacingTerminal
  <1>1. NetInit => StaggeredInv /\ ArrivesAtFacingTerminal
    BY StaggeredInitInv DEF NetInit, ArrivesAtFacingTerminal
  <1>2. StaggeredInv /\ [NetNext]_netVars /\ [Staggered]_netVars => StaggeredInv'
    <2> SUFFICES ASSUME StaggeredInv, [NetNext]_netVars, [Staggered]_netVars
                 PROVE  StaggeredInv'
      OBVIOUS
    <2>1. [Next]_vars
      BY NetStepIsStep
    <2>2. UNCHANGED netVars => UNCHANGED vars
      BY DEF netVars, vars
    <2>3. QED
      BY <2>1, <2>2, StaggeredStepInv
  <1>3. StaggeredInv /\ ArrivesAtFacingTerminal /\ [NetNext]_netVars => ArrivesAtFacingTerminal'
    <2> SUFFICES ASSUME StaggeredInv, ArrivesAtFacingTerminal, [NetNext]_netVars,
                        NEW m \in air' \cup got'
                 PROVE  m.dst = Facing(m.src)
      BY DEF ArrivesAtFacingTerminal, Facing
    <2>1. CASE m \in air \cup got
      BY <2>1 DEF ArrivesAtFacingTerminal
    <2>2. CASE m \in air' \ air
      <3>1. PICK d \in Senders : /\ w.channel[d] \in Channels
                                 /\ m.src = d /\ m.dst = GetAnother(w, w.channel[d], d)
        BY <2>2, NewInAir
      <3>2. d \in Devices /\ Wired(w, Unbuilt)
        BY NetworkAssumption DEF StaggeredInv
      <3>3. GetAnother(w, w.channel[d], d) = Facing(d)
        BY <3>1, <3>2, AnotherIsFacing
      <3>4. QED
        BY <3>1, <3>3
    <2>3. got' \subseteq got \cup air
      BY DEF NetNext, Helper, SendFrom, TransmitComplete, Transmit, Receive, ReceiveDrops, netVars
    <2>4. QED
      BY <2>1, <2>2, <2>3
  <1>4. QED
    BY <1>1, <1>2, <1>3, PTL DEF NetSpec

\* With two planes no motion needs to be excluded.
THEOREM TwoPlanesPacketsArrive ==
    ASSUME P <= 2
    PROVE  NetSpec => []ArrivesAtFacingTerminal
  <1>1. NetSpec => StaggeredSpec
    BY NetworkImplementsConstellation, TwoPlanesAreStaggered DEF ImplementsConstellation
  <1>2. StaggeredInv => Staggered
    <2> SUFFICES ASSUME StaggeredInv
                 PROVE  Staggered
      OBVIOUS
    <2>1. cursor \in Nodes \cup {NULL} /\ Wired(w, Unbuilt)
      BY DEF StaggeredInv, IInv, TypeOK
    <2>2. Visiting => cursor \in Nodes
      BY <2>1 DEF Visiting
    <2>3. QED
      BY <2>1, <2>2, TwoPlanesCleanLeave DEF Staggered
  <1>3. QED
    BY <1>1, <1>2, StaggeredInvariant, PacketsArriveAtFacing, PTL


-----------------------------------------------------------------------------
(* IV. The orbits.                                                         *)

(* Links and the satellites in a set S: the polar record, or those above   *)
(* the limit now.                                                          *)

\* No link that is up has an end in S.
UpIsClear(v, S) ==
    \A k \in Nodes : HasRight(k) /\ LinkUp(v, k) => {k, RightOf(k)} \cap S = {}

\* Every link that is down has an end in S.
DownIsPolar(v, S) ==
    \A k \in Nodes : HasRight(k) /\ LinkDown(v, k) => {k, RightOf(k)} \cap S # {}

\* The ends in S of a link that is down are recorded.
DownIsRecorded(v, S) ==
    \A k \in Nodes : HasRight(k) /\ LinkDown(v, k) => {k, RightOf(k)} \cap S \subseteq v.overPolar

\* A link is not up and down at once.
LEMMA UpOrDown ==
    ASSUME NEW v, NEW k, LinkUp(v, k), LinkDown(v, k)
    PROVE  FALSE
  BY DEF LinkUp, LinkDown

\* A satellite that enters the polar region has no link up any more.
LEMMA EnteredAgrees ==
    ASSUME NEW v, NEW u, NEW n \in Nodes, NEW S, Entered(v, u, n),
           UpIsClear(v, v.overPolar), DownIsPolar(v, v.overPolar \cup S)
    PROVE  UpIsClear(u, u.overPolar) /\ DownIsPolar(u, u.overPolar \cup S)
  <1> SUFFICES ASSUME NEW k \in Nodes, HasRight(k)
               PROVE  /\ LinkUp(u, k) => {k, RightOf(k)} \cap u.overPolar = {}
                      /\ LinkDown(u, k) => {k, RightOf(k)} \cap (u.overPolar \cup S) # {}
    BY DEF UpIsClear, DownIsPolar
  <1>1. u.overPolar = v.overPolar \cup {n}
    BY DEF Entered
  <1>2. CASE n \in {k, RightOf(k)}
    <2>1. LinkDown(u, k)
      BY <1>2 DEF Entered
    <2>2. QED
      BY <1>1, <1>2, <2>1, UpOrDown
  <1>3. CASE n \notin {k, RightOf(k)}
    <2>1. (LinkUp(v, k) <=> LinkUp(u, k)) /\ (LinkDown(v, k) <=> LinkDown(u, k))
      BY <1>3, SameLinkStays DEF Entered
    <2>2. /\ LinkUp(v, k) => {k, RightOf(k)} \cap v.overPolar = {}
          /\ LinkDown(v, k) => {k, RightOf(k)} \cap (v.overPolar \cup S) # {}
      BY DEF UpIsClear, DownIsPolar
    <2>3. QED
      BY <1>1, <1>3, <2>1, <2>2
  <1>4. QED
    BY <1>2, <1>3

\* A satellite that leaves it finds every link down that has to come up, and no
\* other link was down for its sake.
LEMMA DepartedAgrees ==
    ASSUME NEW v, NEW u, NEW n \in Nodes, NEW S, Departed(v, u, n), n \notin S,
           UpIsClear(v, v.overPolar), DownIsPolar(v, v.overPolar \cup S)
    PROVE  UpIsClear(u, u.overPolar) /\ DownIsPolar(u, u.overPolar \cup S)
  <1> SUFFICES ASSUME NEW k \in Nodes, HasRight(k)
               PROVE  /\ LinkUp(u, k) => {k, RightOf(k)} \cap u.overPolar = {}
                      /\ LinkDown(u, k) => {k, RightOf(k)} \cap (u.overPolar \cup S) # {}
    BY DEF UpIsClear, DownIsPolar
  <1>1. u.overPolar = v.overPolar \ {n}
    BY DEF Departed
  <1>2. CASE n \in {k, RightOf(k)} /\ {k, RightOf(k)} \cap u.overPolar = {}
    <2>1. LinkUp(u, k)
      BY <1>2 DEF Departed
    <2>2. QED
      BY <1>2, <2>1, UpOrDown
  <1>3. CASE ~ (n \in {k, RightOf(k)} /\ {k, RightOf(k)} \cap u.overPolar = {})
    <2>1. (LinkUp(v, k) <=> LinkUp(u, k)) /\ (LinkDown(v, k) <=> LinkDown(u, k))
      <3>1. SameLink(v, u, k)
        BY <1>3 DEF Departed
      <3>2. QED
        BY <3>1, SameLinkStays
    <2>2. /\ LinkUp(v, k) => {k, RightOf(k)} \cap v.overPolar = {}
          /\ LinkDown(v, k) => {k, RightOf(k)} \cap (v.overPolar \cup S) # {}
      BY DEF UpIsClear, DownIsPolar
    <2>3. QED
      BY <1>1, <1>3, <2>1, <2>2
  <1>4. QED
    BY <1>2, <1>3

\* A send takes down a link that has an end above the limit.
LEMMA BrokenAgrees ==
    ASSUME NEW v, NEW u, NEW n \in Nodes, HasRight(n), NEW S, OnlyLink(v, u, n),
           LinkDown(u, n), u.overPolar = v.overPolar, {n, RightOf(n)} \cap S # {},
           UpIsClear(v, v.overPolar), DownIsPolar(v, v.overPolar \cup S)
    PROVE  UpIsClear(u, u.overPolar) /\ DownIsPolar(u, u.overPolar \cup S)
  <1> SUFFICES ASSUME NEW k \in Nodes, HasRight(k)
               PROVE  /\ LinkUp(u, k) => {k, RightOf(k)} \cap u.overPolar = {}
                      /\ LinkDown(u, k) => {k, RightOf(k)} \cap (u.overPolar \cup S) # {}
    BY DEF UpIsClear, DownIsPolar
  <1>1. CASE k = n
    BY <1>1, UpOrDown
  <1>2. CASE k # n
    <2>1. (LinkUp(v, k) <=> LinkUp(u, k)) /\ (LinkDown(v, k) <=> LinkDown(u, k))
      BY <1>2, OtherLinksStay, SameLinkStays
    <2>2. QED
      BY <2>1 DEF UpIsClear, DownIsPolar
  <1>3. QED
    BY <1>1, <1>2

\* LinkConfig leaves a link down when an end is above the limit and records
\* that end, and it builds the other links.
LEMMA ConfiguredAgrees ==
    ASSUME NEW v, NEW u, NEW n \in Nodes, HasRight(n), NEW S, Configured(v, u, n, S),
           v.overPolar \subseteq S,
           UpIsClear(v, S), DownIsPolar(v, S), DownIsRecorded(v, S)
    PROVE  /\ u.overPolar \subseteq S
           /\ UpIsClear(u, S) /\ DownIsPolar(u, S) /\ DownIsRecorded(u, S)
  <1>1. u.overPolar = v.overPolar \cup ({n, RightOf(n)} \cap S)
    BY DEF Configured
  <1> SUFFICES ASSUME NEW k \in Nodes, HasRight(k)
               PROVE  /\ LinkUp(u, k) => {k, RightOf(k)} \cap S = {}
                      /\ LinkDown(u, k) => /\ {k, RightOf(k)} \cap S # {}
                                           /\ {k, RightOf(k)} \cap S \subseteq u.overPolar
    BY <1>1 DEF UpIsClear, DownIsPolar, DownIsRecorded
  <1>2. CASE k = n
    BY <1>1, <1>2, UpOrDown DEF Configured
  <1>3. CASE k # n
    <2>1. OnlyLink(v, u, n)
      BY DEF Configured
    <2>2. (LinkUp(v, k) <=> LinkUp(u, k)) /\ (LinkDown(v, k) <=> LinkDown(u, k))
      BY <1>3, <2>1, OtherLinksStay, SameLinkStays
    <2>3. /\ LinkUp(v, k) => {k, RightOf(k)} \cap S = {}
          /\ LinkDown(v, k) => /\ {k, RightOf(k)} \cap S # {}
                               /\ {k, RightOf(k)} \cap S \subseteq v.overPolar
      BY DEF UpIsClear, DownIsPolar, DownIsRecorded
    <2>4. QED
      BY <1>1, <2>2, <2>3
  <1>4. QED
    BY <1>2, <1>3

-----------------------------------------------------------------------------
(* Steps of the orbit.                                                     *)

\* Division with remainder.
LEMMA DivMod ==
    ASSUME NEW y \in Nat, NEW m \in Nat \ {0}
    PROVE  y \div m \in Nat /\ y % m \in 0 .. m - 1 /\ y = m * (y \div m) + (y % m)
  OBVIOUS

\* A remainder is found back.
LEMMA ModUnique ==
    ASSUME NEW q \in Nat, NEW m \in Nat \ {0}, NEW r \in 0 .. m - 1
    PROVE  (m * q + r) % m = r
  OBVIOUS

\* Counting on from a remainder.
LEMMA ModSum ==
    ASSUME NEW y \in Nat, NEW k \in Nat, NEW m \in Nat \ {0}
    PROVE  ((y % m) + k) % m = (y + k) % m
  <1> DEFINE q == y \div m
             r == y % m
             z == r + k
             q2 == z \div m
             r2 == z % m
  <1>1. q \in Nat /\ r \in 0 .. m - 1 /\ y = m * q + r
    BY DivMod
  <1> HIDE DEF q, r
  <1>2. z \in Nat
    BY <1>1
  <1>3. q2 \in Nat /\ r2 \in 0 .. m - 1 /\ z = m * q2 + r2
    BY <1>2, DivMod
  <1> HIDE DEF z, q2, r2
  <1> DEFINE p == q + q2
  <1>4. y + k = m * p + r2
    <2>1. y + k = m * q + z
      BY <1>1 DEF z
    <2>2. m * p = m * q + m * q2
      BY <1>1, <1>3
    <2>3. m * q \in Nat /\ m * q2 \in Nat
      BY <1>1, <1>3
    <2>4. QED
      BY <1>1, <1>3, <2>1, <2>2, <2>3
  <1>5. p \in Nat
    BY <1>1, <1>3
  <1> HIDE DEF p
  <1>6. (m * p + r2) % m = r2
    BY <1>3, <1>5, ModUnique
  <1>7. QED
    BY <1>4, <1>6 DEF z, r, r2

\* The orbit as a circle of Ticks steps.
LEMMA Steps ==
    /\ Ticks \in Nat \ {0} /\ Interval \in Nat \ {0}
    /\ \A x \in Nat : x % Ticks \in 0 .. Ticks - 1
    /\ \A x \in 0 .. Ticks - 1 : x % Ticks = x
    /\ \A x \in Nat : ((x % Ticks) + 1) % Ticks = (x + 1) % Ticks
  <1>1. Ticks \in Nat \ {0} /\ Interval \in Nat \ {0}
    BY OrbitAssumption
  <1>2. \A x \in Nat : x % Ticks \in 0 .. Ticks - 1
    BY <1>1, DivMod
  <1>3. \A x \in 0 .. Ticks - 1 : x % Ticks = x
    BY <1>1
  <1>4. ASSUME NEW x \in Nat
        PROVE  ((x % Ticks) + 1) % Ticks = (x + 1) % Ticks
    <2> DEFINE k == 1
    <2>1. k \in Nat
      OBVIOUS
    <2> HIDE DEF k
    <2>2. ((x % Ticks) + k) % Ticks = (x + k) % Ticks
      BY <1>1, <2>1, ModSum
    <2>3. QED
      BY <2>2 DEF k
  <1>5. QED
    BY <1>1, <1>2, <1>3, <1>4

\* The three latitude classes of an orbit exist.
LEMMA LatitudesOfOrbit ==
    ASSUME ThreeZones, NEW s
    PROVE  /\ LatAt(s) \in [Nodes -> 0 .. MaxLat]
           /\ \A n \in Nodes : LatAt(s)[n] \in Nat /\ LatLimit \in Nat
  <1>1. LatLimit \in Nat /\ MaxLat \in Nat /\ LatLimit >= 1 /\ LatLimit < MaxLat
    BY LatitudeAssumption DEF ThreeZones
  <1>2. \A a : Zone(a) \in {LatLimit - 1, LatLimit, LatLimit + 1}
    BY DEF Zone
  <1>3. \A a : Zone(a) \in 0 .. MaxLat
    BY <1>1, <1>2
  <1>4. QED
    BY <1>1, <1>3 DEF LatAt

-----------------------------------------------------------------------------
(* The record of a pass and the time since then.                           *)

\* The pass under way has come past satellite n.
Visited(n) ==
    /\ phase = "scan"
    /\ cursor = NULL \/ n[1] < cursor[1] \/ (n[1] = cursor[1] /\ n[2] < cursor[2])

\* Satellite n is recorded as a pass at step s leaves it. A satellite at the
\* limit itself keeps the record it had.
RecordedAt(s, n) ==
    /\ LatAt(s)[n] > LatLimit => n \in w.overPolar
    /\ LatAt(s)[n] < LatLimit => n \notin w.overPolar

RecordAgrees(s) ==
    \A n \in Nodes :
       IF Visited(n) /\ lat[n] # LatLimit THEN RecordedAt(t, n) ELSE RecordedAt(s, n)

\* While LinkConfig runs nothing moves.
ConfigAgrees ==
    phase = "config" =>
       /\ due = Interval /\ w.overPolar \subseteq Polar
       /\ UpIsClear(w, Polar) /\ DownIsPolar(w, Polar) /\ DownIsRecorded(w, Polar)

\* Afterwards a satellite is recorded as the last pass, at step s, left it, or as
\* the one under way did. A single plane has no links and nothing is recorded
\* before its first pass.
PassAgrees ==
    P > 1 /\ phase # "config" =>
       \E s \in 0 .. Ticks - 1 : t = (s + (Interval - due)) % Ticks /\ RecordAgrees(s)

OrbitClock ==
    /\ t \in 0 .. Ticks - 1 /\ due \in 0 .. Interval /\ lat = LatAt(t)
    /\ phase = "scan" => due = 0

LinksAgree ==
    UpIsClear(w, w.overPolar) /\ DownIsPolar(w, w.overPolar \cup Polar)

OrbitInv ==
    /\ StaggeredInv
    /\ OrbitClock
    /\ ConfigAgrees
    /\ LinksAgree
    /\ PassAgrees

\* A satellite the pass has visited, and one it has still to come to.
LEMMA RecordOfVisited ==
    ASSUME ThreeZones, NEW s, lat = LatAt(t), t = NextPass(s), RecordAgrees(s),
           NEW n \in Nodes, Visited(n)
    PROVE  /\ n \in w.overPolar => MayBeOverNext(s, n)
           /\ n \notin w.overPolar => MayBeClearNext(s, n)
           /\ n \in Polar => n \in w.overPolar
  <1>1. LatAt(s)[n] \in Nat /\ LatAt(t)[n] \in Nat /\ LatLimit \in Nat
    BY LatitudesOfOrbit
  <1>2. CASE LatAt(t)[n] = LatLimit
    <2>1. RecordedAt(s, n)
      BY <1>2 DEF RecordAgrees
    <2>2. QED
      BY <1>1, <1>2, <2>1
      DEF RecordedAt, MayBeOverNext, MayBeClearNext, MayBeOver, MayBeClear, Polar
  <1>3. CASE LatAt(t)[n] # LatLimit
    <2>1. RecordedAt(t, n)
      BY <1>3 DEF RecordAgrees
    <2>2. QED
      BY <1>1, <1>3, <2>1 DEF RecordedAt, MayBeOverNext, MayBeClearNext, Polar
  <1>4. QED
    BY <1>2, <1>3

\* A satellite the pass has still to come to is recorded as the last one left it.
LEMMA RecordOfUnvisited ==
    ASSUME ThreeZones, NEW s, RecordAgrees(s), NEW n \in Nodes, ~ Visited(n)
    PROVE  /\ n \in w.overPolar => MayBeOver(s, n)
           /\ n \notin w.overPolar => MayBeClear(s, n)
  <1>1. LatAt(s)[n] \in Nat /\ LatLimit \in Nat
    BY LatitudesOfOrbit
  <1>2. RecordedAt(s, n)
    BY DEF RecordAgrees
  <1>3. QED
    BY <1>1, <1>2 DEF RecordedAt, MayBeOver, MayBeClear

\* The neighbours of a satellite the pass comes to: it has visited those in the
\* planes before and none in the planes after.
LEMMA VisitedPlanes ==
    ASSUME phase = "scan", cursor \in Nodes, NEW n \in Nodes
    PROVE  /\ n[1] < cursor[1] => Visited(n)
           /\ n[1] > cursor[1] => ~ Visited(n)
           /\ ~ Visited(cursor)
  <1>1. cursor # NULL
    BY ConstellationAssumption
  <1>2. n[1] \in Nat /\ n[2] \in Nat /\ cursor[1] \in Nat /\ cursor[2] \in Nat
    BY ConstellationAssumption DEF Nodes
  <1>3. QED
    BY <1>1, <1>2 DEF Visited

-----------------------------------------------------------------------------
(* The motion is staggered.                                                *)

\* The link on the right of a satellite with a broken terminal is down, and so
\* an end of it is recorded or above the limit.
LEMMA BrokenHasPolarEnd ==
    ASSUME Wired(w, {}), LinksAgree, NEW k \in Nodes, HasRight(k),
           R(k) \in w.breakedR \/ L(RightOf(k)) \in w.breakedL
    PROVE  {k, RightOf(k)} \cap (w.overPolar \cup Polar) # {}
  <1>1. LinkDown(w, k)
    BY DEF Wired, LinkUp
  <1>2. QED
    BY <1>1 DEF LinksAgree, DownIsPolar

\* The neighbour on the left, when the pass comes to a satellite that left.
LEMMA LeavesLeftCleanly ==
    ASSUME ThreeZones, Wired(w, {}), LinksAgree, phase = "scan", cursor \in Nodes,
           NEW s, lat = LatAt(t), t = NextPass(s), RecordAgrees(s), LeavesCleanly(s, cursor),
           HasLeft(cursor), LeftOf(cursor) \notin w.overPolar
    PROVE  L(LeftOf(cursor)) \notin w.breakedL
  <1> DEFINE m == LeftOf(cursor)
             k == LeftOf(m)
  <1> SUFFICES ASSUME L(m) \in w.breakedL
               PROVE  FALSE
    OBVIOUS
  <1>1. m \in Nodes /\ m[1] = cursor[1] - 1
    BY LeftNeighbour DEF LeftOf
  <1>2. HasLeft(m)
    BY <1>1 DEF Wired, EdgesUnlinked
  <1>3. k \in Nodes /\ k[1] = m[1] - 1 /\ HasRight(k) /\ RightOf(k) = m
    BY <1>1, <1>2, LeftNeighbour DEF LeftOf
  <1>4. m[1] < cursor[1] /\ k[1] < cursor[1]
    <2>1. cursor[1] \in Nat
      BY ConstellationAssumption DEF Nodes
    <2>2. QED
      BY <1>1, <1>3, <2>1
  <1>5. Visited(m) /\ Visited(k)
    BY <1>1, <1>3, <1>4, VisitedPlanes
  <1> HIDE DEF k
  <1>6. {k, m} \cap (w.overPolar \cup Polar) # {}
    BY <1>3, BrokenHasPolarEnd
  <1>7. k \in w.overPolar /\ MayBeOverNext(s, k)
    BY <1>1, <1>3, <1>5, <1>6, RecordOfVisited
  <1>8. MayBeClearNext(s, m)
    BY <1>1, <1>5, RecordOfVisited
  <1>9. QED
    BY <1>2, <1>7, <1>8 DEF LeavesCleanly, k

\* The neighbour on the right, which the pass comes to later.
LEMMA LeavesRightCleanly ==
    ASSUME ThreeZones, Wired(w, {}), LinksAgree, phase = "scan", cursor \in Nodes,
           NEW s, lat = LatAt(t), t = NextPass(s), RecordAgrees(s), LeavesCleanly(s, cursor),
           HasRight(cursor), RightOf(cursor) \notin w.overPolar
    PROVE  R(RightOf(cursor)) \notin w.breakedR
  <1> DEFINE m == RightOf(cursor)
             k == RightOf(m)
  <1> SUFFICES ASSUME R(m) \in w.breakedR
               PROVE  FALSE
    OBVIOUS
  <1>1. m \in Nodes /\ m[1] = cursor[1] + 1
    BY RightNeighbour DEF RightOf
  <1>2. HasRight(m)
    BY <1>1 DEF Wired, EdgesUnlinked
  <1>3. k \in Nodes /\ k[1] = m[1] + 1
    BY <1>1, <1>2, RightNeighbour DEF RightOf
  <1>4. m[1] > cursor[1] /\ k[1] > cursor[1]
    <2>1. cursor[1] \in Nat
      BY ConstellationAssumption DEF Nodes
    <2>2. QED
      BY <1>1, <1>3, <2>1
  <1>5. ~ Visited(m) /\ ~ Visited(k)
    BY <1>1, <1>3, <1>4, VisitedPlanes
  <1>6. {m, k} \cap (w.overPolar \cup Polar) # {}
    BY <1>1, <1>2, BrokenHasPolarEnd
  <1>7. MayBeClear(s, m)
    BY <1>1, <1>5, RecordOfUnvisited
  <1>8. ~ MayBeOver(s, k) /\ LatAt(t)[m] <= LatLimit /\ LatAt(t)[k] <= LatLimit
    BY <1>2, <1>7 DEF LeavesCleanly
  <1>9. m \notin Polar /\ k \notin Polar
    <2>1. LatAt(t)[m] \in Nat /\ LatAt(t)[k] \in Nat /\ LatLimit \in Nat
      BY <1>1, <1>3, LatitudesOfOrbit
    <2>2. QED
      BY <1>8, <2>1 DEF Polar
  <1>10. k \notin w.overPolar
    BY <1>3, <1>5, <1>8, RecordOfUnvisited
  <1>11. QED
    BY <1>6, <1>9, <1>10

\* With one plane or two there is no other link, and with more the planes leave
\* in turn.
LEMMA OrbitIsStaggered ==
    ASSUME ThreeZones, CheckedOften, OrbitInv
    PROVE  Staggered
  <1> SUFFICES ASSUME Visiting, lat[cursor] < LatLimit, cursor \in w.overPolar
               PROVE  CleanLeave(cursor)
    BY DEF Staggered
  <1>1. /\ phase = "scan" /\ cursor \in Nodes /\ due = 0
        /\ t \in 0 .. Ticks - 1 /\ lat = LatAt(t)
    BY DEF OrbitInv, StaggeredInv, IInv, TypeOK, OrbitClock, Visiting
  <1>2. Wired(w, Unbuilt) /\ Unbuilt = {} /\ LinksAgree
    BY <1>1 DEF OrbitInv, StaggeredInv, Unbuilt
  <1>3. CASE P <= 2
    BY <1>1, <1>2, <1>3, TwoPlanesCleanLeave
  <1>4. CASE P > 2
    <2>1. PICK s \in 0 .. Ticks - 1 : t = (s + (Interval - due)) % Ticks /\ RecordAgrees(s)
      BY <1>1, <1>4, ConstellationAssumption DEF OrbitInv, PassAgrees
    <2>2. t = NextPass(s)
      BY <1>1, <2>1, Steps DEF NextPass
    <2>3. MayBeOver(s, cursor)
      BY <1>1, <2>1, VisitedPlanes, RecordOfUnvisited
    <2>4. LeavesCleanly(s, cursor)
      BY <1>1, <2>2, <2>3 DEF CheckedOften, PlanesLeaveInTurn
    <2>5. QED
      BY <1>1, <1>2, <2>1, <2>2, <2>4, LeavesLeftCleanly, LeavesRightCleanly DEF CleanLeave
  <1>5. QED
    BY <1>3, <1>4, ConstellationAssumption

-----------------------------------------------------------------------------
(* Every step of the orbit.                                                *)

\* What the invariant says of the clock and of the polar record.
ClockAgrees == OrbitClock /\ ConfigAgrees /\ LinksAgree /\ PassAgrees

\* A step of the orbit is a step of the constellation, or none when the
\* satellites move within their latitude classes.
LEMMA OrbitStepIsStep ==
    ASSUME ThreeZones, CheckedOften, OrbitInv, [~ w.ub /\ OrbitNext]_orbitVars
    PROVE  [Staggered /\ Next]_vars
  <1>1. Staggered
    BY OrbitIsStaggered
  <1>2. CASE Fly /\ ~ w.ub
    <2>1. phase = "idle" /\ lat' = LatAt(t') /\ UNCHANGED <<w, phase, cursor>>
      BY <1>2 DEF Fly
    <2>2. lat' \in [Nodes -> 0 .. MaxLat]
      BY <2>1, LatitudesOfOrbit
    <2>3. Move \/ UNCHANGED vars
      BY <2>1, <2>2 DEF Move, vars
    <2>4. QED
      BY <1>1, <1>2, <2>3 DEF Next
  <1>3. CASE OrbitNext /\ ~ Fly /\ ~ w.ub
    BY <1>1, <1>3 DEF OrbitNext, ScheduledMaintenance, Next
  <1>4. CASE UNCHANGED orbitVars
    BY <1>4 DEF orbitVars, vars
  <1>5. QED
    BY <1>2, <1>3, <1>4

\* The satellites move on: a satellite that is above the limit without being
\* recorded, and for which a link may be down, is still there.
LEMMA FlyKeeps ==
    ASSUME ThreeZones, CheckedOften, OrbitInv, Fly
    PROVE  ClockAgrees'
  <1>1. /\ phase = "idle" /\ phase' = "idle" /\ w' = w /\ cursor' = cursor
        /\ due > 0 /\ due' = due - 1 /\ t' = (t + 1) % Ticks /\ lat' = LatAt(t')
    BY DEF Fly
  <1>2. /\ t \in 0 .. Ticks - 1 /\ due \in 1 .. Interval /\ lat = LatAt(t)
        /\ Ticks \in Nat \ {0} /\ Interval \in Nat \ {0}
    BY <1>1, Steps DEF OrbitInv, OrbitClock
  <1>3. t' \in 0 .. Ticks - 1
    BY <1>1, <1>2, Steps
  <1>4. OrbitClock'
    BY <1>1, <1>2, <1>3 DEF OrbitClock
  <1>5. ASSUME NEW s \in 0 .. Ticks - 1, t = (s + (Interval - due)) % Ticks, RecordAgrees(s)
        PROVE  /\ t' = (s + (Interval - due')) % Ticks /\ RecordAgrees(s)'
               /\ \A n \in Nodes : n \in Polar => n \in w.overPolar \/ n \in Polar'
    <2> DEFINE e == Interval - due
    <2>1. e \in 0 .. Interval - 1 /\ s + e \in Nat /\ Interval - due' = e + 1
      BY <1>1, <1>2
    <2>2. t' = (s + e + 1) % Ticks
      BY <1>1, <1>5, <2>1, Steps
    <2>3. t' = (s + (Interval - due')) % Ticks
      BY <2>1, <2>2
    <2>4. \A n \in Nodes : ~ Visited(n) /\ ~ Visited(n)'
      BY <1>1 DEF Visited
    <2>5. RecordAgrees(s)'
      BY <1>1, <1>5, <2>4 DEF RecordAgrees, RecordedAt
    <2>6. ASSUME NEW n \in Nodes, n \in Polar, n \notin w.overPolar
          PROVE  n \in Polar'
      <3>1. MayBeClear(s, n)
        BY <1>5, <2>4, <2>6, RecordOfUnvisited
      <3>2. LatAt((s + e) % Ticks)[n] > LatLimit
        BY <1>2, <1>5, <2>6 DEF Polar
      <3> HIDE DEF e
      <3>3. LatAt((s + e + 1) % Ticks)[n] > LatLimit
        BY <2>1, <3>1, <3>2 DEF CheckedOften, CrossingsAreSeen
      <3>4. QED
        BY <1>1, <2>2, <3>3 DEF Polar
    <2>7. QED
      BY <2>3, <2>5, <2>6
  <1>6. PassAgrees'
    <2> SUFFICES ASSUME P > 1
                 PROVE  \E s \in 0 .. Ticks - 1 :
                           t' = (s + (Interval - due')) % Ticks /\ RecordAgrees(s)'
      BY DEF PassAgrees
    <2>1. PICK s \in 0 .. Ticks - 1 : t = (s + (Interval - due)) % Ticks /\ RecordAgrees(s)
      BY <1>1 DEF OrbitInv, PassAgrees
    <2>2. QED
      BY <1>5, <2>1
  <1>7. LinksAgree'
    <2>1. UpIsClear(w, w.overPolar)'
      BY <1>1 DEF OrbitInv, LinksAgree
    <2>2. ASSUME NEW k \in Nodes, HasRight(k), LinkDown(w, k)
          PROVE  {k, RightOf(k)} \cap (w.overPolar \cup Polar') # {}
      <3>1. PICK n \in {k, RightOf(k)} : n \in w.overPolar \cup Polar
        BY <2>2 DEF OrbitInv, LinksAgree, DownIsPolar
      <3>2. P > 1 /\ n \in Nodes
        <4>1. P > 1
          BY <2>2, ConstellationAssumption DEF HasRight, Nodes
        <4>2. n \in Nodes
          BY <2>2, <3>1, RightNeighbour
        <4>3. QED
          BY <4>1, <4>2
      <3>3. PICK s \in 0 .. Ticks - 1 : t = (s + (Interval - due)) % Ticks /\ RecordAgrees(s)
        BY <1>1, <3>2 DEF OrbitInv, PassAgrees
      <3>4. n \in w.overPolar \/ n \in Polar'
        BY <1>5, <3>1, <3>2, <3>3
      <3>5. QED
        BY <3>1, <3>4
    <2>3. DownIsPolar(w', w'.overPolar \cup Polar')
      BY <1>1, <2>2 DEF DownIsPolar
    <2>4. QED
      BY <2>1, <2>3 DEF LinksAgree
  <1>8. ConfigAgrees'
    BY <1>1 DEF ConfigAgrees
  <1>9. QED
    BY <1>4, <1>6, <1>7, <1>8 DEF ClockAgrees

\* One iteration of LinkConfig.
LEMMA ConfigKeeps ==
    ASSUME OrbitInv, LinkConfig, UNCHANGED <<t, due>>
    PROVE  ClockAgrees'
  <1>1. /\ phase = "config" /\ phase' = "config" /\ lat' = lat /\ t' = t /\ due' = due
        /\ cursor \in Nodes /\ cursor # NULL
        /\ w' = ConfigureCross(w, cursor, Polar)
    BY DEF LinkConfig, OrbitInv, StaggeredInv, IInv, TypeOK
  <1>2. /\ HasRight(cursor)
        /\ \A n \in Nodes : HasRight(n) /\ Pending(n) => Untouched(w, n)
    BY <1>1, PendingIsUntouched DEF OrbitInv, StaggeredInv, IInv
  <1>3. Pending(cursor)
    BY <1>1, ConstellationAssumption DEF Pending, Nodes
  <1>4. cursor \in Unbuilt /\ Untouched(w, cursor)
    BY <1>1, <1>2, <1>3 DEF Unbuilt
  <1>5. Configured(w, w', cursor, Polar)
    BY <1>1, <1>2, <1>4, BuildLink DEF OrbitInv, StaggeredInv
  <1>6. Polar' = Polar
    BY <1>1 DEF Polar
  <1>7. /\ w'.overPolar \subseteq Polar
        /\ UpIsClear(w', Polar) /\ DownIsPolar(w', Polar) /\ DownIsRecorded(w', Polar)
    BY <1>1, <1>2, <1>5, ConfiguredAgrees DEF OrbitInv, ConfigAgrees
  <1>8. ConfigAgrees'
    BY <1>1, <1>6, <1>7 DEF OrbitInv, ConfigAgrees
  <1>9. LinksAgree'
    <2>1. UpIsClear(w', w'.overPolar)
      BY <1>7 DEF UpIsClear
    <2>2. DownIsPolar(w', w'.overPolar \cup Polar)
      BY <1>7 DEF DownIsPolar
    <2>3. QED
      BY <1>6, <2>1, <2>2 DEF LinksAgree
  <1>10. OrbitClock' /\ PassAgrees'
    BY <1>1 DEF OrbitInv, OrbitClock, PassAgrees
  <1>11. QED
    BY <1>8, <1>9, <1>10 DEF ClockAgrees

\* A send that breaks its link between two passes.
LEMMA SendKeeps ==
    ASSUME OrbitInv, NEW d \in Devices, SendBreaksLink(d), UNCHANGED <<t, due>>
    PROVE  ClockAgrees'
  <1> DEFINE c == w.channel[d]
  <1>1. /\ phase = "idle" /\ phase' = "idle" /\ lat' = lat /\ cursor' = cursor
        /\ t' = t /\ due' = due /\ c \in CrossChannels /\ OverLimit(c)
        /\ w' = DisConnect(w, w.devList[c][1], w.devList[c][2], c)
    BY DEF SendBreaksLink
  <1>2. Wired(w, {})
    BY <1>1 DEF OrbitInv, StaggeredInv, Unbuilt
  <1>3. /\ w'.overPolar = w.overPolar
        /\ \E n \in Nodes :
              /\ HasRight(n) /\ OnlyLink(w, w', n) /\ LinkDown(w', n)
              /\ Ends(w, c) = {R(n), L(RightOf(n))}
    BY <1>1, <1>2, BreakSentWired
  <1>4. PICK n \in Nodes :
              /\ HasRight(n) /\ OnlyLink(w, w', n) /\ LinkDown(w', n)
              /\ Ends(w, c) = {R(n), L(RightOf(n))}
    BY <1>3
  <1>5. {n, RightOf(n)} \cap Polar # {}
    <2>1. PICK x \in {R(n), L(RightOf(n))} : lat[x[1]] > LatLimit
      BY <1>1, <1>4 DEF OverLimit
    <2>2. x[1] \in {n, RightOf(n)}
      BY <2>1 DEF R, L
    <2>3. x[1] \in Polar
      BY <1>4, <2>1, <2>2, RightNeighbour DEF Polar
    <2>4. QED
      BY <2>2, <2>3
  <1>6. Polar' = Polar
    BY <1>1 DEF Polar
  <1>7. LinksAgree'
    <2>1. UpIsClear(w', w'.overPolar) /\ DownIsPolar(w', w'.overPolar \cup Polar)
      BY <1>3, <1>4, <1>5, BrokenAgrees DEF OrbitInv, LinksAgree
    <2>2. QED
      BY <1>6, <2>1 DEF LinksAgree
  <1>8. PassAgrees'
    <2>1. \A k \in Nodes : Visited(k)' = Visited(k)
      BY <1>1 DEF Visited
    <2>2. \A s : RecordAgrees(s) => RecordAgrees(s)'
      BY <1>1, <1>3, <2>1 DEF RecordAgrees, RecordedAt
    <2>3. QED
      BY <1>1, <2>2 DEF OrbitInv, PassAgrees
  <1>9. OrbitClock' /\ ConfigAgrees'
    BY <1>1 DEF OrbitInv, OrbitClock, ConfigAgrees
  <1>10. QED
    BY <1>7, <1>8, <1>9 DEF ClockAgrees

\* LinkMaintenance starts: no satellite is visited yet.
LEMMA PassStartKeeps ==
    ASSUME OrbitInv, phase = "idle" => due = 0, LinkMaintenance, UNCHANGED <<t, due>>
    PROVE  ClockAgrees'
  <1>1. /\ phase = "idle" /\ phase' = "scan" /\ cursor' = <<0, 0>> /\ due = 0
        /\ w' = w /\ lat' = lat /\ t' = t /\ due' = due
    BY DEF LinkMaintenance
  <1>2. \A n \in Nodes : ~ Visited(n) /\ ~ Visited(n)'
    <2>1. cursor' # NULL
      BY <1>1, ConstellationAssumption DEF Nodes
    <2>2. \A n \in Nodes : n[1] \in Nat /\ n[2] \in Nat
      BY ConstellationAssumption DEF Nodes
    <2>3. QED
      BY <1>1, <2>1, <2>2 DEF Visited
  <1>3. \A s : RecordAgrees(s) => RecordAgrees(s)'
    BY <1>1, <1>2 DEF RecordAgrees, RecordedAt
  <1>4. PassAgrees'
    BY <1>1, <1>3 DEF OrbitInv, PassAgrees
  <1>5. LinksAgree'
    BY <1>1 DEF OrbitInv, LinksAgree, Polar
  <1>6. OrbitClock' /\ ConfigAgrees'
    BY <1>1 DEF OrbitInv, OrbitClock, ConfigAgrees
  <1>7. QED
    BY <1>4, <1>5, <1>6 DEF ClockAgrees

\* The satellites are visited in the order of their node ids.
LEMMA ScanVisits ==
    ASSUME phase = "scan", phase' = "scan", cursor \in Nodes, cursor' = AfterInScan(cursor),
           NEW n \in Nodes
    PROVE  Visited(n)' <=> Visited(n) \/ n = cursor
  <1> DEFINE c == cursor
             m == AfterInScan(c)
  <1>1. /\ P \in Nat \ {0} /\ N \in Nat \ {0} /\ c # NULL
        /\ c[1] \in 0 .. P - 1 /\ c[2] \in 0 .. N - 1 /\ c = <<c[1], c[2]>>
        /\ n[1] \in 0 .. P - 1 /\ n[2] \in 0 .. N - 1 /\ n = <<n[1], n[2]>>
    BY ConstellationAssumption DEF Nodes
  <1>2. n = c <=> n[1] = c[1] /\ n[2] = c[2]
    BY <1>1
  <1>3. Visited(n) <=> n[1] < c[1] \/ (n[1] = c[1] /\ n[2] < c[2])
    BY <1>1 DEF Visited
  <1>4. Visited(n)' <=> m = NULL \/ n[1] < m[1] \/ (n[1] = m[1] /\ n[2] < m[2])
    BY DEF Visited
  <1> HIDE DEF c
  <1>5. CASE c[2] < N - 1
    <2>1. m = <<c[1], c[2] + 1>>
      BY <1>1, <1>5 DEF AfterInScan
    <2>2. m \in Nodes
      BY <1>1, <1>5, <2>1 DEF Nodes
    <2>3. m # NULL /\ m[1] = c[1] /\ m[2] = c[2] + 1
      BY <2>1, <2>2, ConstellationAssumption
    <2> HIDE DEF m
    <2>4. QED
      BY <1>1, <1>2, <1>3, <1>4, <2>3 DEF c
  <1>6. CASE c[2] = N - 1 /\ c[1] < P - 1
    <2>1. m = <<c[1] + 1, 0>>
      BY <1>1, <1>6 DEF AfterInScan
    <2>2. m \in Nodes
      BY <1>1, <1>6, <2>1 DEF Nodes
    <2>3. m # NULL /\ m[1] = c[1] + 1 /\ m[2] = 0
      BY <2>1, <2>2, ConstellationAssumption
    <2> HIDE DEF m
    <2>4. QED
      BY <1>1, <1>2, <1>3, <1>4, <1>6, <2>3 DEF c
  <1>7. CASE c[2] = N - 1 /\ c[1] = P - 1
    <2>1. m = NULL
      BY <1>1, <1>7 DEF AfterInScan
    <2> HIDE DEF m
    <2>2. QED
      BY <1>1, <1>2, <1>3, <1>4, <1>7, <2>1 DEF c
  <1>8. QED
    BY <1>1, <1>5, <1>6, <1>7

\* The pass comes to one satellite. Only its own record changes, and it agrees
\* with where the satellite is now.
LEMMA VisitKeeps ==
    ASSUME ThreeZones, OrbitInv, Staggered, VisitEntering \/ VisitLeaving \/ VisitUnchanged,
           UNCHANGED <<t, due>>
    PROVE  ClockAgrees'
  <1> DEFINE c == cursor
  <1>1. /\ phase = "scan" /\ phase' = "scan" /\ c \in Nodes /\ cursor' = AfterInScan(c)
        /\ lat' = lat /\ t' = t /\ due' = due
    BY DEF VisitEntering, VisitLeaving, VisitUnchanged, Visiting, Advance,
           OrbitInv, StaggeredInv, IInv, TypeOK
  <1>2. Wired(w, {}) /\ UpIsClear(w, w.overPolar) /\ DownIsPolar(w, w.overPolar \cup Polar)
    BY <1>1 DEF OrbitInv, StaggeredInv, Unbuilt, LinksAgree
  <1>3. lat = LatAt(t) /\ lat[c] \in Nat /\ LatLimit \in Nat
    BY <1>1, LatitudesOfOrbit DEF OrbitInv, OrbitClock
  <1>4. /\ UpIsClear(w', w'.overPolar) /\ DownIsPolar(w', w'.overPolar \cup Polar)
        /\ w'.overPolar \ {c} = w.overPolar \ {c}
        /\ lat[c] > LatLimit => c \in w'.overPolar
        /\ lat[c] < LatLimit => c \notin w'.overPolar
        /\ lat[c] = LatLimit => w' = w
    <2>1. CASE VisitEntering
      <3>1. w' = EnterPolar(w, c) /\ lat[c] > LatLimit
        BY <2>1 DEF VisitEntering
      <3>2. Entered(w, w', c)
        BY <1>1, <1>2, <3>1, EnterPolarWired
      <3>3. UpIsClear(w', w'.overPolar) /\ DownIsPolar(w', w'.overPolar \cup Polar)
        BY <1>1, <1>2, <3>2, EnteredAgrees
      <3>4. w'.overPolar = w.overPolar \cup {c}
        BY <3>2 DEF Entered
      <3>5. QED
        BY <1>3, <3>1, <3>3, <3>4
    <2>2. CASE VisitLeaving
      <3>1. w' = LeavePolar(w, c) /\ lat[c] < LatLimit /\ CleanLeave(c)
        BY <2>2 DEF VisitLeaving, Staggered
      <3>2. Departed(w, w', c)
        BY <1>1, <1>2, <3>1, LeavePolarWired DEF CleanLeave
      <3>3. c \notin Polar
        BY <1>3, <3>1 DEF Polar
      <3>4. UpIsClear(w', w'.overPolar) /\ DownIsPolar(w', w'.overPolar \cup Polar)
        BY <1>1, <1>2, <3>2, <3>3, DepartedAgrees
      <3>5. w'.overPolar = w.overPolar \ {c}
        BY <3>2 DEF Departed
      <3>6. QED
        BY <1>3, <3>1, <3>4, <3>5
    <2>3. CASE VisitUnchanged
      BY <1>2, <2>3 DEF VisitUnchanged
    <2>4. QED
      BY <2>1, <2>2, <2>3
  <1>5. LinksAgree'
    <2>1. Polar' = Polar
      BY <1>1 DEF Polar
    <2>2. QED
      BY <1>4, <2>1 DEF LinksAgree
  <1>6. ASSUME NEW s, RecordAgrees(s)
        PROVE  RecordAgrees(s)'
    <2> SUFFICES ASSUME NEW n \in Nodes
                 PROVE  IF Visited(n)' /\ lat[n] # LatLimit THEN RecordedAt(t, n)' ELSE RecordedAt(s, n)'
      BY <1>1 DEF RecordAgrees, RecordedAt
    <2>1. Visited(n)' <=> Visited(n) \/ n = c
      BY <1>1, ScanVisits
    <2>2. IF Visited(n) /\ lat[n] # LatLimit THEN RecordedAt(t, n) ELSE RecordedAt(s, n)
      BY <1>6 DEF RecordAgrees
    <2>3. CASE n # c
      <3>1. n \in w'.overPolar <=> n \in w.overPolar
        BY <1>4, <2>3
      <3>2. (RecordedAt(t, n)' <=> RecordedAt(t, n)) /\ (RecordedAt(s, n)' <=> RecordedAt(s, n))
        BY <1>1, <3>1 DEF RecordedAt
      <3>3. QED
        BY <2>1, <2>2, <2>3, <3>2
    <2>4. CASE n = c /\ lat[c] # LatLimit
      <3>1. RecordedAt(t, n)'
        BY <1>1, <1>3, <1>4, <2>4 DEF RecordedAt
      <3>2. QED
        BY <2>1, <2>4, <3>1
    <2>5. CASE n = c /\ lat[c] = LatLimit
      <3>1. w' = w /\ RecordedAt(s, n)
        BY <1>4, <2>2, <2>5
      <3>2. RecordedAt(s, n)'
        BY <3>1 DEF RecordedAt
      <3>3. QED
        BY <2>5, <3>2
    <2>6. QED
      BY <2>3, <2>4, <2>5
  <1>7. PassAgrees'
    BY <1>1, <1>6 DEF OrbitInv, PassAgrees
  <1>8. OrbitClock' /\ ConfigAgrees'
    BY <1>1 DEF OrbitInv, OrbitClock, ConfigAgrees
  <1>9. QED
    BY <1>5, <1>7, <1>8 DEF ClockAgrees

\* A satellite has a neighbour when there is more than one plane.
LEMMA EveryNodeHasLink ==
    ASSUME P > 1, NEW n \in Nodes
    PROVE  \E k \in Nodes : HasRight(k) /\ n \in {k, RightOf(k)}
  <1>1. CASE HasRight(n)
    BY <1>1
  <1>2. CASE ~ HasRight(n)
    <2>1. HasLeft(n)
      BY <1>2, ConstellationAssumption DEF HasRight, HasLeft
    <2>2. LeftOf(n) \in Nodes /\ HasRight(LeftOf(n)) /\ n = RightOf(LeftOf(n))
      BY <2>1, LeftNeighbour
    <2>3. QED
      BY <2>2
  <1>3. QED
    BY <1>1, <1>2

\* LinkConfig or a pass ends: what is recorded is what this step of the orbit
\* asks for.
LEMMA EventEndKeeps ==
    ASSUME ThreeZones, OrbitInv, EndOfEvent, due' = Interval, UNCHANGED t
    PROVE  ClockAgrees'
  <1>1. /\ phase \in {"config", "scan"} /\ phase' = "idle" /\ cursor = NULL
        /\ w' = w /\ lat' = lat /\ t' = t /\ due' = Interval
    BY DEF EndOfEvent
  <1>2. /\ lat = LatAt(t) /\ t \in 0 .. Ticks - 1 /\ Interval \in Nat
        /\ \A n \in Nodes : LatAt(t)[n] \in Nat /\ LatLimit \in Nat
    BY LatitudesOfOrbit, Steps DEF OrbitInv, OrbitClock
  <1>3. OrbitClock' /\ ConfigAgrees' /\ LinksAgree'
    BY <1>1, <1>2 DEF OrbitInv, OrbitClock, ConfigAgrees, LinksAgree, Polar
  <1>4. ASSUME P > 1, phase = "config", NEW n \in Nodes
        PROVE  RecordedAt(t, n)
    <2>1. /\ w.overPolar \subseteq Polar /\ UpIsClear(w, Polar) /\ DownIsRecorded(w, Polar)
          /\ Wired(w, {})
      BY <1>1, <1>4 DEF OrbitInv, ConfigAgrees, StaggeredInv, Unbuilt
    <2>2. PICK k \in Nodes : HasRight(k) /\ n \in {k, RightOf(k)}
      BY <1>4, EveryNodeHasLink
    <2>3. {k, RightOf(k)} \cap Polar \subseteq w.overPolar
      <3>1. LinkUp(w, k) \/ LinkDown(w, k)
        BY <2>1, <2>2 DEF Wired
      <3>2. QED
        BY <2>1, <2>2, <3>1 DEF UpIsClear, DownIsRecorded
    <2>4. n \in Polar <=> n \in w.overPolar
      BY <2>1, <2>2, <2>3
    <2>5. n \in Polar <=> LatAt(t)[n] > LatLimit
      BY <1>2 DEF Polar
    <2>6. QED
      BY <1>2, <2>4, <2>5 DEF RecordedAt
  <1>5. ASSUME P > 1, phase = "scan", NEW n \in Nodes
        PROVE  RecordedAt(t, n)
    <2>1. PICK s \in 0 .. Ticks - 1 : RecordAgrees(s)
      BY <1>5 DEF OrbitInv, PassAgrees
    <2>2. Visited(n)
      BY <1>1, <1>5 DEF Visited
    <2>3. CASE lat[n] # LatLimit
      BY <2>1, <2>2, <2>3 DEF RecordAgrees
    <2>4. CASE lat[n] = LatLimit
      BY <1>2, <2>4 DEF RecordedAt
    <2>5. QED
      BY <2>3, <2>4
  <1>6. PassAgrees'
    <2> SUFFICES ASSUME P > 1
                 PROVE  \E s \in 0 .. Ticks - 1 :
                           t' = (s + (Interval - due')) % Ticks /\ RecordAgrees(s)'
      BY DEF PassAgrees
    <2>1. t' = (t + (Interval - due')) % Ticks
      <3>1. t + (Interval - due') = t
        BY <1>1, <1>2
      <3>2. QED
        BY <1>1, <1>2, <3>1, Steps
    <2>2. \A n \in Nodes : RecordedAt(t, n)
      BY <1>1, <1>4, <1>5
    <2>3. \A n \in Nodes : ~ Visited(n)'
      BY <1>1 DEF Visited
    <2>4. ASSUME NEW s, s = t
          PROVE  RecordAgrees(s)'
      BY <1>1, <2>2, <2>3, <2>4 DEF RecordAgrees, RecordedAt
    <2>5. QED
      BY <1>2, <2>1, <2>4
  <1>7. QED
    BY <1>3, <1>6 DEF ClockAgrees

-----------------------------------------------------------------------------
(* The invariant of the orbits and what follows from it.                   *)

\* The orbits start where module Constellation does.
LEMMA OrbitInitIsInit ==
    ASSUME ThreeZones, OrbitInit
    PROVE  Init
  BY LatitudesOfOrbit DEF OrbitInit, Init

\* Nothing is linked across planes or recorded, and no pass has run.
LEMMA OrbitInitInv ==
    ASSUME ThreeZones, OrbitInit
    PROVE  OrbitInv
  <1>1. StaggeredInv
    BY OrbitInitIsInit, StaggeredInitInv
  <1>2. /\ w = RingWiring /\ phase = "config" /\ due = Interval
        /\ t \in 0 .. Ticks - 1 /\ lat = LatAt(t)
    BY DEF OrbitInit, Start
  <1>3. w.overPolar = {} /\ w.breakedR = {}
    BY <1>2 DEF RingWiring
  <1>4. ASSUME NEW k \in Nodes, HasRight(k)
        PROVE  ~ LinkUp(w, k) /\ ~ LinkDown(w, k)
    <2>1. w.channel = [d \in Devices |-> CASE d[2] = "F" -> Ring(d[1])
                                           [] d[2] = "B" -> Ring(PrevInPlane(d[1]))
                                           [] OTHER      -> NULL]
      BY <1>2 DEF RingWiring
    <2>2. R(k) \in Devices /\ R(k)[2] = "R"
      BY SideTerminals DEF R
    <2>3. w.channel[R(k)] = NULL
      BY <2>1, <2>2
    <2>4. QED
      BY <1>3, <2>3 DEF LinkUp, LinkDown
  <1>5. ConfigAgrees
    BY <1>2, <1>3, <1>4 DEF ConfigAgrees, UpIsClear, DownIsPolar, DownIsRecorded
  <1>6. LinksAgree
    BY <1>4 DEF LinksAgree, UpIsClear, DownIsPolar
  <1>7. OrbitClock /\ PassAgrees
    BY <1>2, Steps DEF OrbitClock, PassAgrees
  <1>8. QED
    BY <1>1, <1>5, <1>6, <1>7 DEF OrbitInv

\* Every step of the orbits keeps the invariant: one lemma above for each action.
LEMMA OrbitStepInv ==
    ASSUME ThreeZones, CheckedOften, OrbitInv, [~ w.ub /\ OrbitNext]_orbitVars
    PROVE  OrbitInv'
  <1>1. Staggered /\ StaggeredInv /\ StaggeredInv'
    BY OrbitIsStaggered, OrbitStepIsStep, StaggeredStepInv DEF OrbitInv
  <1>2. ASSUME ClockAgrees'
        PROVE  OrbitInv'
    BY <1>1, <1>2 DEF ClockAgrees, OrbitInv
  <1>3. CASE Fly
    BY <1>2, <1>3, FlyKeeps
  <1>4. CASE LinkConfig /\ UNCHANGED <<t, due>>
    BY <1>2, <1>4, ConfigKeeps
  <1>5. CASE ScheduledMaintenance
    <2>1. /\ phase = "idle" => due = 0
          /\ due' = IF phase' = "idle" THEN Interval ELSE due
          /\ UNCHANGED t
      BY <1>5 DEF ScheduledMaintenance
    <2>2. CASE LinkMaintenance
      <3>1. due' = due
        BY <2>1, <2>2 DEF LinkMaintenance
      <3>2. QED
        BY <1>2, <2>1, <2>2, <3>1, PassStartKeeps
    <2>3. CASE VisitEntering \/ VisitLeaving \/ VisitUnchanged
      <3>1. due' = due
        BY <2>1, <2>3 DEF VisitEntering, VisitLeaving, VisitUnchanged, Visiting, Advance
      <3>2. QED
        BY <1>1, <1>2, <2>1, <2>3, <3>1, VisitKeeps
    <2>4. CASE EndOfEvent
      <3>1. due' = Interval
        BY <2>1, <2>4 DEF EndOfEvent
      <3>2. QED
        BY <1>2, <2>1, <2>4, <3>1, EventEndKeeps
    <2>5. QED
      BY <1>5, <2>2, <2>3, <2>4 DEF ScheduledMaintenance, Maintenance
  <1>6. CASE (\E d \in Devices : SendBreaksLink(d)) /\ UNCHANGED <<t, due>>
    BY <1>2, <1>6, SendKeeps
  <1>7. CASE UNCHANGED orbitVars
    <2>1. w' = w /\ lat' = lat /\ phase' = phase /\ cursor' = cursor /\ t' = t /\ due' = due
      BY <1>7 DEF orbitVars, vars
    <2>2. OrbitClock' /\ ConfigAgrees' /\ LinksAgree'
      BY <2>1 DEF OrbitInv, OrbitClock, ConfigAgrees, LinksAgree, Polar
    <2>3. PassAgrees'
      <3>1. \A s : RecordAgrees(s) => RecordAgrees(s)'
        BY <2>1 DEF RecordAgrees, RecordedAt, Visited
      <3>2. QED
        BY <2>1, <3>1 DEF OrbitInv, PassAgrees
    <2>4. QED
      BY <1>2, <2>2, <2>3 DEF ClockAgrees
  <1>8. QED
    BY <1>3, <1>4, <1>5, <1>6, <1>7 DEF OrbitNext

\* On their orbits the links, the polar record and the clock keep to OrbitInv.
THEOREM OrbitInvariant ==
    ASSUME ThreeZones, CheckedOften
    PROVE  OrbitSpec => []OrbitInv
  <1>1. OrbitInit => OrbitInv
    BY OrbitInitInv
  <1>2. OrbitInv /\ [~ w.ub /\ OrbitNext]_orbitVars => OrbitInv'
    BY OrbitStepInv
  <1>3. QED
    BY <1>1, <1>2, PTL DEF OrbitSpec

\* When the passes come often enough for the motion of the planes, satellites on
\* these orbits move as module Constellation assumes, and none leaves the polar
\* region next to one that still has its other link down: LinkMaintenance
\* connects the terminals it means to. This is the refinement that the run
\* orbit_staggered checks.
THEOREM OrbitsAreStaggered ==
    ASSUME ThreeZones, CheckedOften
    PROVE  OrbitSpec => ImplementsStaggered
  <1>1. OrbitInit => Init
    BY OrbitInitIsInit
  <1>2. OrbitInv /\ [~ w.ub /\ OrbitNext]_orbitVars => [Staggered /\ Next]_vars
    BY OrbitStepIsStep
  <1>3. QED
    BY <1>1, <1>2, OrbitInvariant, PTL DEF OrbitSpec, ImplementsStaggered, StaggeredSpec

\* Right after a pass, and right after LinkConfig, the links that are up are
\* those of which neither satellite is recorded as over the pole: also the ones
\* that sends took down since the pass before, in whatever order.
THEOREM OrbitLinksFollowPolar ==
    ASSUME ThreeZones, CheckedOften
    PROVE  OrbitSpec => []LinksFollowPolar
  <1>1. OrbitInv => LinksFollowPolar
    <2> SUFFICES ASSUME OrbitInv, phase = "idle", due = Interval,
                        NEW n \in Nodes, HasRight(n)
                 PROVE  LinkIsUp(n) <=> {n, RightOf(n)} \cap w.overPolar = {}
      BY DEF LinksFollowPolar
    <2>1. Wired(w, {})
      BY DEF OrbitInv, StaggeredInv, Unbuilt
    <2>2. LinkUp(w, n) \/ LinkDown(w, n)
      BY <2>1 DEF Wired
    <2>3. LinkIsUp(n) <=> LinkUp(w, n)
      BY <2>2 DEF LinkIsUp, LinkUp, LinkDown
    <2>4. RightOf(n) \in Nodes /\ P > 1
      <3>1. P > 1
        BY ConstellationAssumption DEF HasRight, Nodes
      <3>2. QED
        BY <3>1, RightNeighbour
    <2>5. PICK s \in 0 .. Ticks - 1 : t = (s + (Interval - due)) % Ticks /\ RecordAgrees(s)
      BY <2>4 DEF OrbitInv, PassAgrees
    <2>6. t = s
      <3>1. s + (Interval - due) = s
        BY Steps
      <3>2. QED
        BY <2>5, <3>1, Steps
    <2>7. \A m \in Nodes : m \in Polar => m \in w.overPolar
      <3>1. \A m \in Nodes : RecordedAt(t, m)
        BY <2>5, <2>6 DEF RecordAgrees
      <3>2. QED
        BY <3>1 DEF RecordedAt, Polar, OrbitInv, OrbitClock
    <2>8. LinkUp(w, n) => {n, RightOf(n)} \cap w.overPolar = {}
      BY DEF OrbitInv, LinksAgree, UpIsClear
    <2>9. LinkDown(w, n) => {n, RightOf(n)} \cap w.overPolar # {}
      <3>1. LinkDown(w, n) => {n, RightOf(n)} \cap (w.overPolar \cup Polar) # {}
        BY DEF OrbitInv, LinksAgree, DownIsPolar
      <3>2. QED
        BY <2>4, <2>7, <3>1
    <2>10. QED
      BY <2>2, <2>3, <2>8, <2>9
  <1>2. QED
    BY <1>1, OrbitInvariant, PTL

\* All that is proved of a staggered motion holds of the orbits.
THEOREM OrbitLinksAreSound ==
    ASSUME ThreeZones, CheckedOften
    PROVE  OrbitSpec =>
              [](NeighbourWiring /\ BreakedIsExact /\ PoolNeverExhausted /\ NoDoubleBooking)
  BY OrbitsAreStaggered, StaggeredNeighbourWiring, StaggeredBreakedIsExact,
     StaggeredPoolSuffices, StaggeredNoDoubleBooking, PTL DEF ImplementsStaggered

-----------------------------------------------------------------------------
(* Figures that make the passes frequent enough.                           *)

\* A remainder of twice the number has the same remainder.
LEMMA ModTwice ==
    ASSUME NEW y \in Nat, NEW m \in Nat \ {0}, NEW dm \in Nat \ {0}, dm = 2 * m
    PROVE  (y % dm) % m = y % m
  <1> DEFINE q == y \div dm
             r == y % dm
             q2 == r \div m
             r2 == r % m
  <1>1. q \in Nat /\ r \in 0 .. dm - 1 /\ y = dm * q + r
    BY DivMod, Zenon
  <1> HIDE DEF q, r
  <1>2. q2 \in Nat /\ r2 \in 0 .. m - 1 /\ r = m * q2 + r2
    <2>1. r \in Nat
      BY <1>1
    <2>2. QED
      BY <2>1, DivMod
  <1> HIDE DEF q2, r2
  <1> DEFINE p == 2 * q + q2
  <1>3. p \in Nat
    BY <1>1, <1>2
  <1>4. y = m * p + r2
    <2>1. m * p = m * (2 * q) + m * q2
      BY <1>1, <1>2
    <2>2. m * (2 * q) = dm * q
      BY <1>1
    <2>3. QED
      BY <1>1, <1>2, <2>1, <2>2
  <1> HIDE DEF p
  <1>5. (m * p + r2) % m = r2
    BY <1>2, <1>3, ModUnique
  <1>6. QED
    BY <1>4, <1>5 DEF r, r2

\* The latitude class of a step of the half orbit.
ClassAt(h) ==
    CASE h < Rising \/ h > HalfOrbit - Rising -> LatLimit - 1
      [] h = Rising \/ h = HalfOrbit - Rising -> LatLimit
      [] OTHER                                -> LatLimit + 1

\* Where satellite n is ahead of the first one of the first plane.
Ahead(n) == PlanePhase * n[1] + (Ticks \div N) * n[2]

\* The half orbit as a circle.
OnHalf(x, e) == IF x + e < HalfOrbit THEN x + e ELSE x + e - HalfOrbit

\* The figures are numbers, and the orbit is two half orbits.
LEMMA HalfOrbitFacts ==
    ASSUME CheckedInPhase
    PROVE  /\ HalfOrbit \in Nat \ {0} /\ Ticks \in Nat \ {0} /\ Ticks = 2 * HalfOrbit
           /\ PlanePhase \in Nat /\ Ticks \div N \in Nat
           /\ Rising \in Nat /\ Interval \in Nat \ {0} /\ LatLimit \in Nat
  <1>1. Ticks \in Nat \ {0} /\ Rising \in Nat /\ Interval \in Nat \ {0} /\ F \in Nat
        /\ LatLimit \in Nat /\ P \in Nat \ {0} /\ N \in Nat \ {0}
    BY OrbitAssumption, LatitudeAssumption, ConstellationAssumption
  <1>2. Ticks = 2 * HalfOrbit /\ HalfOrbit \in Nat \ {0}
    <2>1. Ticks % 2 = 0
      BY DEF CheckedInPhase
    <2>2. QED
      BY <1>1, <2>1 DEF HalfOrbit
  <1>3. Ticks \div N \in Nat
    BY <1>1, DivMod
  <1>4. PlanePhase \in Nat
    <2>1. P * N \in Nat \ {0} /\ Ticks * F \in Nat
      BY <1>1
    <2> DEFINE a == Ticks * F
               b == P * N
    <2>2. a \in Nat /\ b \in Nat \ {0}
      BY <2>1
    <2> HIDE DEF a, b
    <2>3. a \div b \in Nat
      BY <2>2, DivMod
    <2>4. QED
      BY <2>3 DEF PlanePhase, a, b
  <1>5. QED
    BY <1>1, <1>2, <1>3, <1>4

\* A plane is ahead of the one before it by PlanePhase.
LEMMA AheadFacts ==
    ASSUME CheckedInPhase, NEW n \in Nodes
    PROVE  /\ Ahead(n) \in Nat
           /\ HasRight(n) => Ahead(RightOf(n)) = Ahead(n) + PlanePhase
  <1>1. PlanePhase \in Nat /\ Ticks \div N \in Nat
    BY HalfOrbitFacts
  <1>2. n[1] \in Nat /\ n[2] \in Nat
    BY ConstellationAssumption DEF Nodes
  <1> DEFINE p == PlanePhase
             q == Ticks \div N
  <1>3. p \in Nat /\ q \in Nat
    BY <1>1
  <1>4. RightOf(n)[1] = n[1] + 1 /\ RightOf(n)[2] = n[2]
    BY DEF RightOf
  <1> HIDE DEF p, q
  <1>5. p * n[1] \in Nat /\ q * n[2] \in Nat
    BY <1>2, <1>3
  <1>6. p * (n[1] + 1) = p * n[1] + p
    BY <1>2, <1>3
  <1>7. Ahead(n) = p * n[1] + q * n[2] /\ Ahead(RightOf(n)) = p * (n[1] + 1) + q * n[2]
    BY <1>4 DEF Ahead, p, q
  <1>8. Ahead(n) \in Nat
    BY <1>5, <1>7
  <1>9. Ahead(RightOf(n)) = Ahead(n) + p
    BY <1>3, <1>5, <1>6, <1>7
  <1>10. QED
    BY <1>8, <1>9 DEF p

\* Satellite n is o steps ahead of satellite k, and with the next e steps that is
\* less than half an orbit.
AheadBy(n, k, o, e) ==
    /\ n \in Nodes /\ k \in Nodes /\ o \in Nat /\ e \in Nat
    /\ Ahead(n) = Ahead(k) + o /\ o + e < HalfOrbit

\* The latitude of n at e steps after s follows from the place of k at s.
LEMMA LatitudeOnHalf ==
    ASSUME CheckedInPhase, NEW s \in Nat, NEW e, NEW n, NEW k, NEW o, AheadBy(n, k, o, e)
    PROVE  LatAt((s + e) % Ticks)[n] = ClassAt(OnHalf((s + Ahead(k)) % HalfOrbit, o + e))
  <1> DEFINE H == HalfOrbit
             T == Ticks
             a == Ahead(k)
             b == Ahead(n)
             x == (s + a) % H
             z == (s + e) % T
             j == o + e
  <1>0. /\ n \in Nodes /\ k \in Nodes /\ o \in Nat /\ e \in Nat
        /\ Ahead(n) = Ahead(k) + o /\ o + e < HalfOrbit
    BY DEF AheadBy
  <1>1. /\ H \in Nat \ {0} /\ T \in Nat \ {0} /\ T = 2 * H
        /\ a \in Nat /\ b \in Nat /\ b = a + o
    BY <1>0, HalfOrbitFacts, AheadFacts
  <1>2. LatAt(z)[n] = ClassAt(((z + b) % T) % H)
    <2>1. LatAt(z)[n] = Zone(Anomaly(n, z))
      BY <1>0 DEF LatAt
    <2>2. Anomaly(n, z) = (z + b) % T
      <3> DEFINE u == PlanePhase * n[1]
                 v == (Ticks \div N) * n[2]
      <3>1. u \in Nat /\ v \in Nat
        <4>1. n[1] \in Nat /\ n[2] \in Nat
          BY <1>0, ConstellationAssumption DEF Nodes
        <4>2. PlanePhase \in Nat /\ Ticks \div N \in Nat
          BY HalfOrbitFacts
        <4>3. QED
          BY <4>1, <4>2
      <3>2. Anomaly(n, z) = (z + u + v) % T /\ b = u + v
        BY DEF Anomaly, Ahead, PlanePhase
      <3>3. z \in Nat
        BY <1>0, <1>1, DivMod
      <3> HIDE DEF u, v, z, b
      <3>4. z + u + v = z + b
        BY <3>1, <3>2, <3>3
      <3>5. QED
        BY <3>2, <3>4
    <2>3. \A y : Zone(y) = ClassAt(y % H)
      BY DEF Zone, ClassAt, HalfOrbit
    <2>4. QED
      BY <2>1, <2>2, <2>3
  <1> HIDE DEF H, T, a, b
  <1>3. (z + b) % T = (s + e + b) % T
    <2> DEFINE y == s + e
    <2>1. y \in Nat
      BY <1>0
    <2> HIDE DEF y
    <2>2. ((y % T) + b) % T = (y + b) % T
      BY <1>1, <2>1, ModSum, Zenon
    <2>3. QED
      BY <2>2 DEF y
  <1>4. ((z + b) % T) % H = (s + e + b) % H
    <2> DEFINE y == s + e + b
    <2>1. y \in Nat
      BY <1>0, <1>1
    <2> HIDE DEF y
    <2>2. (y % T) % H = y % H
      BY <1>1, <2>1, ModTwice, Zenon
    <2>3. QED
      BY <1>3, <2>2 DEF y
  <1>5. (s + e + b) % H = (x + j) % H
    <2>1. s + e + b = (s + a) + j
      BY <1>0, <1>1
    <2> DEFINE y == s + a
    <2>2. y \in Nat /\ j \in Nat /\ H \in Nat \ {0}
      BY <1>0, <1>1
    <2> HIDE DEF y, j
    <2>3. ((y % H) + j) % H = (y + j) % H
      BY <2>2, ModSum, Zenon
    <2>4. QED
      BY <2>1, <2>3 DEF y
  <1>6. (x + j) % H = OnHalf(x, j)
    <2>1. x \in 0 .. H - 1
      BY <1>1, DivMod
    <2>2. j \in 0 .. H - 1
      BY <1>0, <1>1 DEF H
    <2> HIDE DEF x, j
    <2>3. CASE x + j < H
      BY <1>1, <2>1, <2>2, <2>3 DEF OnHalf, H
    <2>4. CASE x + j >= H
      <3> DEFINE r == x + j - H
                 i == 1
      <3>1. r \in 0 .. H - 1 /\ i \in Nat /\ x + j = H * i + r
        BY <1>1, <2>1, <2>2, <2>4
      <3> HIDE DEF r, i
      <3>2. (H * i + r) % H = r
        BY <1>1, <3>1, ModUnique
      <3>3. OnHalf(x, j) = r
        BY <1>1, <2>1, <2>2, <2>4 DEF OnHalf, H, r
      <3>4. QED
        BY <3>1, <3>2, <3>3
    <2>5. QED
      BY <1>1, <2>1, <2>2, <2>3, <2>4
  <1>7. QED
    BY <1>2, <1>4, <1>5, <1>6 DEF H, T, a

\* Which steps of the half orbit are above the limit, at it and below it.
LEMMA Classes ==
    ASSUME CheckedInPhase, NEW h \in Int
    PROVE  /\ ClassAt(h) > LatLimit <=> Rising < h /\ h < HalfOrbit - Rising
           /\ ClassAt(h) < LatLimit <=> h < Rising \/ h > HalfOrbit - Rising
           /\ ClassAt(h) = LatLimit <=> h = Rising \/ h = HalfOrbit - Rising
           /\ ClassAt(h) \in Int
  <1>1. HalfOrbit \in Nat /\ Rising \in Nat /\ LatLimit \in Nat /\ Interval \in Nat
    BY HalfOrbitFacts
  <1>2. 2 * Rising < HalfOrbit
    BY <1>1 DEF CheckedInPhase
  <1>3. CASE h < Rising \/ h > HalfOrbit - Rising
    <2>1. ClassAt(h) = LatLimit - 1
      BY <1>1, <1>2, <1>3 DEF ClassAt
    <2>2. QED
      BY <1>1, <1>2, <1>3, <2>1
  <1>4. CASE h = Rising \/ h = HalfOrbit - Rising
    <2>1. ClassAt(h) = LatLimit
      BY <1>1, <1>2, <1>4 DEF ClassAt
    <2>2. QED
      BY <1>1, <1>2, <1>4, <2>1
  <1>5. CASE Rising < h /\ h < HalfOrbit - Rising
    <2>1. ClassAt(h) = LatLimit + 1
      BY <1>1, <1>2, <1>5 DEF ClassAt
    <2>2. QED
      BY <1>1, <1>2, <1>5, <2>1
  <1>6. QED
    BY <1>1, <1>3, <1>4, <1>5

\* A satellite above the limit is there long enough.
LEMMA PhaseSeesCrossings ==
    ASSUME CheckedInPhase
    PROVE  CrossingsAreSeen
  <1> SUFFICES ASSUME NEW s \in 0 .. Ticks - 1, NEW e \in 0 .. Interval - 1, NEW n \in Nodes,
                      MayBeClear(s, n), LatAt((s + e) % Ticks)[n] > LatLimit
               PROVE  LatAt((s + e + 1) % Ticks)[n] > LatLimit
    BY DEF CrossingsAreSeen
  <1> DEFINE x == (s + Ahead(n)) % HalfOrbit
             o == 0
             z == 0
             e1 == e + 1
  <1>1. /\ HalfOrbit \in Nat /\ Rising \in Nat /\ Interval \in Nat /\ LatLimit \in Nat
        /\ Ticks \in Nat /\ Interval + 2 * Rising < HalfOrbit
    BY HalfOrbitFacts DEF CheckedInPhase
  <1>2. x \in 0 .. HalfOrbit - 1
    <2> DEFINE y == s + Ahead(n)
    <2>1. y \in Nat /\ HalfOrbit \in Nat \ {0}
      BY <1>1, AheadFacts, HalfOrbitFacts
    <2> HIDE DEF y
    <2>2. y % HalfOrbit \in 0 .. HalfOrbit - 1
      BY <2>1, DivMod
    <2>3. QED
      BY <2>2 DEF y
  <1>3. /\ s \in Nat /\ e \in Nat /\ e1 \in Nat
        /\ AheadBy(n, n, o, z) /\ AheadBy(n, n, o, e) /\ AheadBy(n, n, o, e1)
    BY <1>1, AheadFacts DEF AheadBy
  <1>4. (s + z) % Ticks = s
    BY <1>1, Steps
  <1> HIDE DEF o, z, e1
  <1>5. /\ LatAt((s + z) % Ticks)[n] = ClassAt(OnHalf(x, o + z))
        /\ LatAt((s + e) % Ticks)[n] = ClassAt(OnHalf(x, o + e))
        /\ LatAt((s + e1) % Ticks)[n] = ClassAt(OnHalf(x, o + e1))
    BY <1>3, LatitudeOnHalf
  <1> HIDE DEF x
  <1>6. o = 0 /\ z = 0 /\ e1 = e + 1
    BY DEF o, z, e1
  <1>7. \A j \in 0 .. HalfOrbit : OnHalf(x, j) \in Int
    BY <1>1, <1>2 DEF OnHalf
  <1>8. /\ ~ (Rising < OnHalf(x, 0) /\ OnHalf(x, 0) < HalfOrbit - Rising)
        /\ Rising < OnHalf(x, e) /\ OnHalf(x, e) < HalfOrbit - Rising
    <2>1. /\ LatAt(s)[n] = ClassAt(OnHalf(x, 0)) /\ LatAt(s)[n] <= LatLimit
          /\ ClassAt(OnHalf(x, e)) > LatLimit
      BY <1>3, <1>4, <1>5, <1>6 DEF MayBeClear
    <2>2. OnHalf(x, 0) \in Int /\ OnHalf(x, e) \in Int
      BY <1>1, <1>3, <1>6, <1>7
    <2>3. ClassAt(OnHalf(x, 0)) \in Int /\ ~ (ClassAt(OnHalf(x, 0)) > LatLimit)
      BY <1>1, <2>1, <2>2, Classes
    <2>4. QED
      BY <2>1, <2>2, <2>3, Classes
  <1>9. Rising < OnHalf(x, e1) /\ OnHalf(x, e1) < HalfOrbit - Rising
    BY <1>1, <1>2, <1>6, <1>8 DEF OnHalf
  <1>10. ClassAt(OnHalf(x, e1)) > LatLimit
    BY <1>1, <1>3, <1>6, <1>7, <1>9, Classes
  <1>11. s + e + 1 = s + e1
    BY <1>3, <1>6
  <1>12. QED
    BY <1>3, <1>5, <1>6, <1>10, <1>11

\* Three neighbouring planes at a pass and at the next one, from the place of the
\* one on the left, which is the last in flight.
ThreeInARow(s, k, m, n, x) ==
    /\ LatAt(s)[k] = ClassAt(OnHalf(x, 0))
    /\ LatAt(s)[m] = ClassAt(OnHalf(x, PlanePhase))
    /\ LatAt(s)[n] = ClassAt(OnHalf(x, 2 * PlanePhase))
    /\ LatAt(NextPass(s))[k] = ClassAt(OnHalf(x, Interval))
    /\ LatAt(NextPass(s))[m] = ClassAt(OnHalf(x, PlanePhase + Interval))
    /\ LatAt(NextPass(s))[n] = ClassAt(OnHalf(x, 2 * PlanePhase + Interval))

\* Every step of three planes side by side is such a place.
LEMMA ThreePlanes ==
    ASSUME CheckedInPhase, NEW s \in 0 .. Ticks - 1,
           NEW k \in Nodes, HasRight(k), HasRight(RightOf(k))
    PROVE  \E x \in 0 .. HalfOrbit - 1 : ThreeInARow(s, k, RightOf(k), RightOf(RightOf(k)), x)
  <1> DEFINE m == RightOf(k)
             n == RightOf(m)
             x == (s + Ahead(k)) % HalfOrbit
             o == 0
             p == PlanePhase
             pp == p + p
             i == Interval
  <1>1. m \in Nodes /\ n \in Nodes
    BY RightNeighbour
  <1>2. Ahead(m) = Ahead(k) + p /\ Ahead(n) = Ahead(m) + p /\ Ahead(k) \in Nat
    BY <1>1, AheadFacts
  <1>3. /\ HalfOrbit \in Nat \ {0} /\ p \in Nat /\ i \in Nat /\ Ticks \in Nat \ {0}
        /\ Rising \in Nat /\ pp \in Nat /\ o \in Nat
        /\ pp + i < HalfOrbit
    <2>1. /\ HalfOrbit \in Nat \ {0} /\ p \in Nat /\ i \in Nat /\ Ticks \in Nat \ {0}
          /\ Rising \in Nat
      BY HalfOrbitFacts
    <2>2. 2 * p + i <= 2 * Rising /\ i + 2 * Rising < HalfOrbit
      BY DEF CheckedInPhase
    <2>3. QED
      BY <2>1, <2>2
  <1>4. x \in 0 .. HalfOrbit - 1
    <2> DEFINE y == s + Ahead(k)
    <2>1. y \in Nat /\ HalfOrbit \in Nat \ {0}
      BY <1>2, <1>3
    <2> HIDE DEF y
    <2>2. y % HalfOrbit \in 0 .. HalfOrbit - 1
      BY <2>1, DivMod
    <2>3. QED
      BY <2>2 DEF y
  <1>5. s \in Nat /\ (s + o) % Ticks = s
    <2>1. s \in Nat /\ s + o = s
      BY <1>3
    <2>2. QED
      BY <2>1, Steps
  <1> HIDE DEF o, p, pp, i, m, n
  <1>6. Ahead(n) = Ahead(k) + pp /\ Ahead(k) = Ahead(k) + o
    BY <1>2, <1>3 DEF pp, o
  <1>7. /\ AheadBy(k, k, o, o) /\ AheadBy(m, k, p, o) /\ AheadBy(n, k, pp, o)
        /\ AheadBy(k, k, o, i) /\ AheadBy(m, k, p, i) /\ AheadBy(n, k, pp, i)
    <2>1. o = 0 /\ pp = p + p
      BY DEF o, pp
    <2>2. QED
      BY <1>1, <1>2, <1>3, <1>6, <2>1 DEF AheadBy
  <1>8. /\ LatAt((s + o) % Ticks)[k] = ClassAt(OnHalf(x, o + o))
        /\ LatAt((s + o) % Ticks)[m] = ClassAt(OnHalf(x, p + o))
        /\ LatAt((s + o) % Ticks)[n] = ClassAt(OnHalf(x, pp + o))
        /\ LatAt((s + i) % Ticks)[k] = ClassAt(OnHalf(x, o + i))
        /\ LatAt((s + i) % Ticks)[m] = ClassAt(OnHalf(x, p + i))
        /\ LatAt((s + i) % Ticks)[n] = ClassAt(OnHalf(x, pp + i))
    BY <1>5, <1>7, LatitudeOnHalf
  <1>9. /\ o + o = 0 /\ p + o = PlanePhase /\ pp + o = 2 * PlanePhase /\ o + i = Interval
        /\ p + i = PlanePhase + Interval /\ pp + i = 2 * PlanePhase + Interval
        /\ (s + i) % Ticks = NextPass(s)
    BY <1>3 DEF o, p, pp, i, NextPass
  <1> HIDE DEF x
  <1>10. ThreeInARow(s, k, m, n, x)
    BY <1>5, <1>8, <1>9 DEF ThreeInARow
  <1>11. QED
    BY <1>4, <1>10 DEF m, n

\* Above the limit and below it, as steps of the half orbit.
Above(h) == Rising < h /\ h < HalfOrbit - Rising

Below(h) == h < Rising \/ h > HalfOrbit - Rising

\* The latitude class of a place on the half orbit, read off its number of steps.
LEMMA AboveOrBelow ==
    ASSUME CheckedInPhase, NEW x \in 0 .. HalfOrbit - 1, NEW j \in 0 .. HalfOrbit
    PROVE  LET c == ClassAt(OnHalf(x, j))
           IN  /\ c > LatLimit <=> Above(OnHalf(x, j))
               /\ c < LatLimit <=> Below(OnHalf(x, j))
               /\ c <= LatLimit <=> ~ Above(OnHalf(x, j))
               /\ c >= LatLimit <=> ~ Below(OnHalf(x, j))
               /\ c = LatLimit <=> ~ Above(OnHalf(x, j)) /\ ~ Below(OnHalf(x, j))
  <1>1. LatLimit \in Nat /\ HalfOrbit \in Nat
    BY HalfOrbitFacts
  <1> DEFINE h == OnHalf(x, j)
  <1>2. h \in Int
    BY <1>1 DEF OnHalf
  <1> HIDE DEF h
  <1>3. /\ ClassAt(h) > LatLimit <=> Above(h)
        /\ ClassAt(h) < LatLimit <=> Below(h)
        /\ ClassAt(h) \in Int
    BY <1>2, Classes DEF Above, Below
  <1>4. QED
    BY <1>1, <1>3 DEF h

\* When a plane leaves the polar region the planes are close enough: the two
\* behind it are still in it, or both are clear of it, and the two ahead of it
\* have not come to the other one.
LEMMA PhaseLeavesInTurn ==
    ASSUME CheckedInPhase
    PROVE  PlanesLeaveInTurn
  <1> DEFINE H == HalfOrbit
             p == PlanePhase
             i == Interval
  <1>1. /\ H \in Nat /\ p \in Nat /\ i \in Nat \ {0} /\ Rising \in Nat
        /\ i <= p /\ 2 * p + i <= 2 * Rising /\ p + 2 * Rising <= H /\ i + 2 * Rising < H
    BY HalfOrbitFacts DEF CheckedInPhase
  <1>2. /\ 0 \in 0 .. H /\ p \in 0 .. H /\ 2 * p \in 0 .. H
        /\ i \in 0 .. H /\ p + i \in 0 .. H /\ 2 * p + i \in 0 .. H
    BY <1>1
  <1> SUFFICES ASSUME NEW s \in 0 .. Ticks - 1, NEW n \in Nodes,
                      MayBeOver(s, n), LatAt(NextPass(s))[n] < LatLimit
               PROVE  LeavesCleanly(s, n)
    BY DEF PlanesLeaveInTurn
  <1>3. ASSUME HasLeft(n), HasLeft(LeftOf(n)), MayBeClearNext(s, LeftOf(n))
        PROVE  ~ MayBeOverNext(s, LeftOf(LeftOf(n)))
    <2> DEFINE m == LeftOf(n)
               k == LeftOf(m)
    <2>1. m \in Nodes /\ HasRight(m) /\ RightOf(m) = n
      BY <1>3, LeftNeighbour
    <2>2. k \in Nodes /\ HasRight(k) /\ RightOf(k) = m
      BY <1>3, <2>1, LeftNeighbour
    <2> HIDE DEF m, k
    <2>3. PICK x \in 0 .. H - 1 : ThreeInARow(s, k, m, n, x)
      BY <2>1, <2>2, ThreePlanes
    <2>4. /\ ~ Below(OnHalf(x, 2 * p)) /\ Below(OnHalf(x, 2 * p + i))
          /\ \/ Below(OnHalf(x, p + i))
             \/ ~ Above(OnHalf(x, p + i)) /\ ~ Above(OnHalf(x, p))
      BY <1>2, <1>3, <2>3, AboveOrBelow
      DEF ThreeInARow, MayBeOver, MayBeClear, MayBeClearNext, m
    <2>5. /\ ~ Above(OnHalf(x, i))
          /\ Below(OnHalf(x, i)) \/ Below(OnHalf(x, 0))
      BY <1>1, <2>4 DEF Above, Below, OnHalf
    <2>6. ~ MayBeOverNext(s, k)
      BY <1>2, <2>3, <2>5, AboveOrBelow DEF ThreeInARow, MayBeOver, MayBeOverNext
    <2>7. QED
      BY <2>6 DEF m, k
  <1>4. ASSUME HasRight(n), HasRight(RightOf(n)), MayBeClear(s, RightOf(n))
        PROVE  /\ ~ MayBeOver(s, RightOf(RightOf(n)))
               /\ \A m \in {RightOf(n), RightOf(RightOf(n))} : LatAt(NextPass(s))[m] <= LatLimit
    <2> DEFINE m == RightOf(n)
               k == RightOf(m)
    <2>1. PICK x \in 0 .. H - 1 : ThreeInARow(s, n, m, k, x)
      BY <1>4, ThreePlanes
    <2> HIDE DEF m, k
    <2>2. ~ Below(OnHalf(x, 0)) /\ Below(OnHalf(x, i)) /\ ~ Above(OnHalf(x, p))
      BY <1>2, <1>4, <2>1, AboveOrBelow DEF ThreeInARow, MayBeOver, MayBeClear, m
    <2>3. /\ Below(OnHalf(x, 2 * p)) /\ ~ Above(OnHalf(x, p + i))
          /\ ~ Above(OnHalf(x, 2 * p + i))
      BY <1>1, <2>2 DEF Above, Below, OnHalf
    <2>4. /\ ~ MayBeOver(s, k)
          /\ LatAt(NextPass(s))[m] <= LatLimit /\ LatAt(NextPass(s))[k] <= LatLimit
      BY <1>2, <2>1, <2>3, AboveOrBelow DEF ThreeInARow, MayBeOver
    <2>5. QED
      BY <2>4 DEF m, k
  <1>5. QED
    BY <1>3, <1>4 DEF LeavesCleanly

\* CheckedInPhase, which names four figures and no satellite, is enough: a pass
\* for every phase between neighbouring planes, a polar region that takes longer
\* to cross than an interval or a phase, and two regions that are two phases and
\* an interval apart.
THEOREM PhaseChecksOften ==
    ASSUME CheckedInPhase
    PROVE  CheckedOften
  BY PhaseSeesCrossings, PhaseLeavesInTurn DEF CheckedOften

=============================================================================

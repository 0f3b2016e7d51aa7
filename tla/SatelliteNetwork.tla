-------------------------- MODULE SatelliteNetwork --------------------------
(***************************************************************************)
(* The satellite link layer put together: the wiring that the helper       *)
(* maintains (module Constellation), one transmit machine per terminal     *)
(* (module OpticalDevice) and the packets in flight between terminals      *)
(* (OpticalChannel::Send and Receive).                                     *)
(*                                                                         *)
(* A terminal hands every packet to its channel from inside TransmitStart. *)
(* A temporary channel first checks the latitude of both ends; above the   *)
(* limit it calls back into ConstellationHelper::DisConnect, so the        *)
(* sending terminal is detached in the middle of its own transmission. A   *)
(* packet in flight carries the receiver chosen when it was sent, and is   *)
(* handed to it whatever happened to the link since.                       *)
(*                                                                         *)
(* Packets arrive in any order: transmission and propagation times are     *)
(* abstracted away.                                                        *)
(***************************************************************************)
EXTENDS Constellation

CONSTANTS
    Senders,    \* bound: the terminals the applications send from
    QueueSize,  \* MaxSize of each terminal's queue
    MaxPackets  \* bound: packets each terminal accepts

ASSUME NetworkAssumption ==
    /\ Senders \subseteq Devices
    /\ QueueSize \in Nat \ {0} /\ MaxPackets \in Nat /\ NULL \notin Nat

VARIABLES
    tx,     \* the transmitters
    air,    \* scheduled OpticalChannel::Receive events
    got,    \* packets handed to a receiver's m_rxCallback (history)
    lost    \* packets dropped after their transmission started (history)

netVars == <<vars, tx, air, got, lost>>

Dev(d) == INSTANCE OpticalDevice WITH
    Links <- Channels, x <- tx[d], channel <- w.channel[d], linkUp <- w.linkUp[d]

NetInit ==
    /\ Init
    /\ tx = [d \in Senders |-> Dev(d)!TxInit]
    /\ air = {}
    /\ got = {}
    /\ lost = {}

\* Mutants: a failed latitude check does not stop the send; the link is broken
\* whatever the latitude.
ChannelSendAnyway(d, p) ==
    LET c == w.channel[d]
    IN  \/ /\ c = NULL
           /\ lost' = lost \cup {<<d, p>>}
           /\ UNCHANGED <<w, air>>
        \/ /\ c # NULL
           /\ w' = IF c \in CrossChannels /\ OverLimit(c)
                   THEN DisConnect(w, w.devList[c][1], w.devList[c][2], c) ELSE w
           /\ lost' = IF c \in CrossChannels /\ OverLimit(c) THEN lost \cup {<<d, p>>} ELSE lost
           /\ air' = air \cup {[src |-> d, dst |-> GetAnother(w, c, d), pkt |-> p]}

ChannelSendBreaks(d, p) ==
    LET c == w.channel[d]
    IN  /\ w' = IF c \in CrossChannels
                THEN DisConnect(w, w.devList[c][1], w.devList[c][2], c) ELSE w
        /\ lost' = lost \cup {<<d, p>>}
        /\ UNCHANGED air

\* OpticalChannel::Send of packet p from terminal d, as TransmitStart calls it.
ChannelSend(d, p) ==
    LET c == w.channel[d]
    IN  \/ /\ c = NULL
           /\ lost' = lost \cup {<<d, p>>}
           /\ UNCHANGED <<w, air>>
        \/ /\ c \in CrossChannels /\ OverLimit(c)
           /\ w' = DisConnect(w, w.devList[c][1], w.devList[c][2], c)
           /\ lost' = lost \cup {<<d, p>>}
           /\ UNCHANGED air
        \/ /\ c \in Channels /\ ~ (c \in CrossChannels /\ OverLimit(c))
           /\ air' = air \cup {[src |-> d, dst |-> GetAnother(w, c, d), pkt |-> p]}
           /\ UNCHANGED <<w, lost>>

Transmit(d, r) ==
    /\ tx' = [tx EXCEPT ![d] = r]
    /\ ChannelSend(d, r.currentPkt)
    /\ UNCHANGED <<lat, phase, cursor, got>>

\* SendFrom on a terminal whose link is up and whose queue has room.
SendFrom(d) ==
    /\ phase = "idle"
    /\ Dev(d)!Usable /\ Dev(d)!CanEnqueue(tx[d])
    /\ tx[d].accepted < MaxPackets
    /\ LET r == Dev(d)!Enqueue(tx[d])
       IN  \/ /\ r.state = "READY"
              /\ Transmit(d, Dev(d)!TransmitStart(r))
           \/ /\ r.state # "READY"
              /\ tx' = [tx EXCEPT ![d] = r]
              /\ UNCHANGED <<vars, air, got, lost>>

\* Mutant: the backlog is not looked at.
TransmitCompleteRests(d) ==
    /\ phase = "idle"
    /\ tx[d].completions > 0
    /\ tx' = [tx EXCEPT ![d] = Dev(d)!TransmitEnd(tx[d])]
    /\ UNCHANGED <<vars, air, got, lost>>

TransmitComplete(d) ==
    /\ phase = "idle"
    /\ tx[d].completions > 0
    /\ LET r == Dev(d)!TransmitEnd(tx[d])
       IN  \/ /\ r.queue # <<>>
              /\ Transmit(d, Dev(d)!TransmitStart(r))
           \/ /\ r.queue = <<>>
              /\ tx' = [tx EXCEPT ![d] = r]
              /\ UNCHANGED <<vars, air, got, lost>>

\* The Receive event: enough power, link up, no error.
Receive(m) ==
    /\ phase = "idle"
    /\ w.linkUp[m.dst]
    /\ air' = air \ {m}
    /\ got' = got \cup {m}
    /\ UNCHANGED <<vars, tx, lost>>

\* The Receive event of a packet below the receiver's sensitivity, for a link
\* that is down, or corrupted.
ReceiveDrops(m) ==
    /\ phase = "idle"
    /\ air' = air \ {m}
    /\ lost' = lost \cup {<<m.src, m.pkt>>}
    /\ UNCHANGED <<vars, tx, got>>

Helper ==
    /\ LinkConfig \/ Maintenance \/ Move
    /\ UNCHANGED <<tx, air, got, lost>>

NetNext ==
    /\ ~ w.ub
    /\ \/ Helper
       \/ \E d \in Senders : SendFrom(d)
       \/ \E d \in Senders : TransmitComplete(d)
       \/ \E m \in air : Receive(m)
       \/ \E m \in air : ReceiveDrops(m)

\* The simulator executes every scheduled event.
NetSpec ==
    /\ NetInit /\ [][NetNext]_netVars
    /\ WF_netVars(Maintenance /\ UNCHANGED <<tx, air, got, lost>>)
    /\ \A d \in Senders : SF_netVars(TransmitComplete(d))

-----------------------------------------------------------------------------
\* A packet whose transmission was started is in flight, delivered or dropped,
\* in exactly one of these ways, and any other packet in none of them: nothing
\* is lost silently and nothing is delivered twice, whatever the wiring does.
OneFatePerPacket ==
    \A d \in Senders, k \in 1 .. MaxPackets :
       LET inAir == {m \in air : m.src = d /\ m.pkt = k}
           inGot == {m \in got : m.src = d /\ m.pkt = k}
       IN  IF k <= tx[d].begun
           THEN \/ \E m \in inAir : inAir = {m} /\ inGot = {} /\ <<d, k>> \notin lost
                \/ \E m \in inGot : inGot = {m} /\ inAir = {} /\ <<d, k>> \notin lost
                \/ inAir = {} /\ inGot = {} /\ <<d, k>> \in lost
           ELSE inAir = {} /\ inGot = {} /\ <<d, k>> \notin lost

\* The terminal that LinkConfig points d at.
Facing(d) ==
    CASE d[2] = "R" -> L(RightOf(d[1]))
      [] d[2] = "L" -> R(LeftOf(d[1]))
      [] d[2] = "F" -> <<NextInPlane(d[1]), "B">>
      [] d[2] = "B" -> <<PrevInPlane(d[1]), "F">>

\* However often a link is broken and restored, a packet only ever arrives at
\* the terminal its sender points at, also when it waited in the queue, or was
\* in flight, while the link was down.
ArrivesAtFacingTerminal == \A m \in air \cup got : m.dst = Facing(m.src)

\* No packet is put on a temporary link with an end above the polar limit, not
\* even before LinkMaintenance has noticed that the satellite entered the
\* polar region.
NothingSentOverPole ==
    [][\A m \in air' \ air :
          m.src[2] \in {"R", "L"} =>
             lat[m.src[1]] <= LatLimit /\ lat[m.dst[1]] <= LatLimit]_netVars

\* The composed system drives the wiring only as module Constellation allows.
ImplementsConstellation == Spec

\* The right terminal of the first satellite behaves as module OpticalDevice says, its
\* fairness included.
RightTerminal == INSTANCE OpticalDevice WITH
    Links <- Channels, x <- tx[R(<<0, 0>>)],
    channel <- w.channel[R(<<0, 0>>)], linkUp <- w.linkUp[R(<<0, 0>>)]

ImplementsDevice == RightTerminal!Spec

=============================================================================

---------------------------- MODULE OpticalDevice ----------------------------
(***************************************************************************)
(* The transmit machine of a laser terminal (OpticalDevice): a drop-tail   *)
(* queue in front of a transmitter that is READY or BUSY, with one         *)
(* TransmitComplete event in the simulator per packet being transmitted.   *)
(* The terminal may be attached to a channel, detached from it or marked   *)
(* down at any moment, also while it is BUSY: none of these touches the    *)
(* queue, the transmitter or the scheduled event.                          *)
(*                                                                         *)
(* The transmitter is one record, so that module SatelliteNetwork can keep *)
(* one per terminal:                                                       *)
(*   state, queue, currentPkt   m_txMachineState, m_queue, m_currentPkt    *)
(*   completions                TransmitComplete events in the simulator   *)
(*   accepted, begun            packets taken into the queue, and packets  *)
(*                              whose transmission was started (history)   *)
(* A packet is named by its acceptance number.                             *)
(***************************************************************************)
EXTENDS Naturals, Sequences

CONSTANTS
    Links,      \* channels the terminal can be attached to
    QueueSize,  \* MaxSize of the drop-tail queue
    MaxPackets, \* bound: packets offered while a channel is there
    NULL

ASSUME DeviceAssumption ==
    /\ QueueSize \in Nat \ {0}
    /\ MaxPackets \in Nat
    /\ NULL \notin Links
    /\ NULL \notin Nat

TxType ==
    [state : {"READY", "BUSY"}, queue : Seq(Nat), currentPkt : Nat \cup {NULL},
     completions : Nat, accepted : Nat, begun : Nat]

TxInit ==
    [state |-> "READY", queue |-> <<>>, currentPkt |-> NULL,
     completions |-> 0, accepted |-> 0, begun |-> 0]

\* The queue takes a packet: DropTailQueue::Enqueue.
CanEnqueue(x) == Len(x.queue) < QueueSize

\* Mutant: the packet is put in front.
EnqueueFront(x) ==
    [x EXCEPT !.queue = <<x.accepted + 1>> \o @, !.accepted = @ + 1]

Enqueue(x) ==
    [x EXCEPT !.queue = Append(@, x.accepted + 1), !.accepted = @ + 1]

\* TransmitStart up to the call of the channel, for the head of the queue.
TransmitStart(x) ==
    [x EXCEPT !.state       = "BUSY",
              !.currentPkt  = Head(x.queue),
              !.queue       = Tail(x.queue),
              !.completions = @ + 1,
              !.begun       = @ + 1]

\* TransmitComplete up to the Dequeue: the event is consumed.
TransmitEnd(x) ==
    [x EXCEPT !.state = "READY", !.currentPkt = NULL, !.completions = @ - 1]

-----------------------------------------------------------------------------
VARIABLES
    x,          \* the transmitter
    channel,    \* m_channel
    linkUp      \* m_linkUp

vars == <<x, channel, linkUp>>

TypeOK ==
    /\ x \in TxType
    /\ channel \in Links \cup {NULL}
    /\ linkUp \in BOOLEAN

Init ==
    /\ x = TxInit
    /\ channel = NULL
    /\ linkUp = FALSE

\* The call of m_channel->Send inside TransmitStart. It is not made without a
\* channel, and a temporary channel over the polar limit has the terminal
\* detached before it returns false.
ChannelSend ==
    \/ UNCHANGED <<channel, linkUp>>
    \/ channel # NULL /\ channel' = NULL /\ linkUp' = FALSE

Usable == linkUp /\ channel # NULL

\* SendFrom while transmitting: the packet waits in the queue.
SendQueues ==
    /\ Usable /\ CanEnqueue(x) /\ x.state # "READY"
    /\ x.accepted < MaxPackets
    /\ x' = Enqueue(x)
    /\ UNCHANGED <<channel, linkUp>>

\* SendFrom on a READY transmitter: enqueue, dequeue, start.
SendStarts ==
    /\ Usable /\ CanEnqueue(x) /\ x.state = "READY"
    /\ x.accepted < MaxPackets
    /\ x' = TransmitStart(Enqueue(x))
    /\ ChannelSend

\* SendFrom that returns false at once: link down, or queue full.
SendDrops ==
    /\ ~ Usable \/ ~ CanEnqueue(x)
    /\ UNCHANGED vars

\* Mutants: the backlog is not looked at; it is looked at only when the link is up.
TransmitCompleteRests ==
    /\ x.completions > 0
    /\ x' = TransmitEnd(x)
    /\ UNCHANGED <<channel, linkUp>>

TransmitCompleteIfUp ==
    /\ x.completions > 0
    /\ IF x.queue # <<>> /\ linkUp
       THEN x' = TransmitStart(TransmitEnd(x)) /\ ChannelSend
       ELSE x' = TransmitEnd(x) /\ UNCHANGED <<channel, linkUp>>

\* The TransmitComplete event: the next waiting packet is started, or the
\* transmitter rests.
TransmitComplete ==
    /\ x.completions > 0
    /\ \/ /\ x.queue = <<>>
          /\ x' = TransmitEnd(x)
          /\ UNCHANGED <<channel, linkUp>>
       \/ /\ x.queue # <<>>
          /\ x' = TransmitStart(TransmitEnd(x))
          /\ ChannelSend

Attach(c) ==
    /\ channel' = c
    /\ linkUp' = TRUE
    /\ UNCHANGED x

Detach ==
    /\ channel' = NULL
    /\ linkUp' = FALSE
    /\ UNCHANGED x

\* The link is marked down; the channel stays.
SetLinkDown ==
    /\ linkUp' = FALSE
    /\ UNCHANGED <<x, channel>>

Next ==
    \/ SendQueues
    \/ SendStarts
    \/ SendDrops
    \/ TransmitComplete
    \/ \E c \in Links : Attach(c)
    \/ Detach
    \/ SetLinkDown

\* Every scheduled event of the simulator is eventually executed.
Spec == Init /\ [][Next]_vars /\ WF_vars(TransmitComplete)

-----------------------------------------------------------------------------
\* The three assertions of TransmitStart and TransmitComplete, and what they
\* rest on: BUSY, a current packet and exactly one scheduled TransmitComplete
\* always come together, whatever is attached or detached meanwhile.
OneCompletionWhileBusy ==
    /\ x.state = "BUSY"  <=> x.completions = 1
    /\ x.state = "READY" <=> x.completions = 0
    /\ x.currentPkt = NULL <=> x.state = "READY"

\* The transmitter never rests while a packet waits: a packet queued behind a
\* link that broke cannot be forgotten.
NoIdleBacklog == x.state = "READY" => x.queue = <<>>

\* Packets are started exactly once and in the order in which SendFrom took
\* them; the one SendFrom starts itself is the one it was called with.
StartedInOrder ==
    /\ x.begun + Len(x.queue) = x.accepted
    /\ \A i \in 1 .. Len(x.queue) : x.queue[i] = x.begun + i
    /\ x.state = "BUSY" => x.currentPkt = x.begun

\* Every packet accepted is eventually started, also when the link goes down.
EveryPacketStarts ==
    \A k \in 1 .. MaxPackets : (x.accepted >= k) ~> (x.begun >= k)

=============================================================================

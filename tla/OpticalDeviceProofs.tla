------------------------- MODULE OpticalDeviceProofs -------------------------
(***************************************************************************)
(* The transmit machine of a laser terminal is correct for every queue     *)
(* size, every set of channels and any number of packets.                  *)
(***************************************************************************)
EXTENDS OpticalDevice, SequenceTheorems, TLAPS

\* The inductive invariant. NoIdleBacklog is what makes the packet that
\* SendStarts dequeues the packet it has just put in; OneCompletionWhileBusy
\* is what makes a second TransmitComplete event impossible.
DeviceInv ==
    /\ TypeOK
    /\ OneCompletionWhileBusy
    /\ NoIdleBacklog
    /\ StartedInOrder

\* A queue that holds the numbers after b, and what Append and Tail make of it.
Numbered(q, b) == \A i \in 1 .. Len(q) : q[i] = b + i

\* A packet put at the end of the queue takes the next number.
LEMMA AppendNumbered ==
    ASSUME NEW q \in Seq(Nat), NEW b \in Nat, Numbered(q, b)
    PROVE  /\ Append(q, b + Len(q) + 1) \in Seq(Nat)
           /\ Len(Append(q, b + Len(q) + 1)) = Len(q) + 1
           /\ Numbered(Append(q, b + Len(q) + 1), b)
           /\ Append(q, b + Len(q) + 1) # <<>>
  <1> DEFINE k == b + Len(q) + 1
             a == Append(q, k)
  <1>1. Len(q) \in Nat /\ k \in Nat
    OBVIOUS
  <1> HIDE DEF k
  <1>2. /\ a \in Seq(Nat) /\ Len(a) = Len(q) + 1
        /\ \A i \in 1 .. Len(q) : a[i] = q[i]
        /\ a[Len(q) + 1] = k
    BY <1>1, AppendProperties
  <1>3. a # <<>>
    BY <1>1, <1>2
  <1>4. Numbered(a, b)
    BY <1>1, <1>2 DEF Numbered, k
  <1> QED
    BY <1>2, <1>3, <1>4 DEF k

\* The packet taken from the front is the one after b, and the rest follows it.
LEMMA TailNumbered ==
    ASSUME NEW q \in Seq(Nat), NEW b \in Nat, Numbered(q, b), q # <<>>
    PROVE  /\ Head(q) = b + 1
           /\ Tail(q) \in Seq(Nat)
           /\ Len(Tail(q)) = Len(q) - 1
           /\ Numbered(Tail(q), b + 1)
  BY DEF Numbered

\* The operations on the transmitter return transmitters.
LEMMA EnqueueType ==
    ASSUME NEW y \in TxType
    PROVE  /\ Enqueue(y) \in TxType
           /\ Enqueue(y).state = y.state
           /\ Enqueue(y).completions = y.completions
           /\ Enqueue(y).currentPkt = y.currentPkt
  <1>1. y.queue \in Seq(Nat) /\ y.accepted \in Nat
    BY DEF TxType
  <1>2. Append(y.queue, y.accepted + 1) \in Seq(Nat) /\ y.accepted + 1 \in Nat
    BY <1>1
  <1>3. Enqueue(y) \in TxType
    BY <1>2 DEF Enqueue, TxType
  <1>4. /\ Enqueue(y).state = y.state
        /\ Enqueue(y).completions = y.completions
        /\ Enqueue(y).currentPkt = y.currentPkt
    BY DEF Enqueue, TxType
  <1> QED
    BY <1>3, <1>4

\* The end of a transmission returns an idle transmitter with its queue untouched.
LEMMA TransmitEndType ==
    ASSUME NEW y \in TxType, y.completions = 1
    PROVE  /\ TransmitEnd(y) \in TxType
           /\ TransmitEnd(y).completions = 0
           /\ TransmitEnd(y).state = "READY"
           /\ TransmitEnd(y).currentPkt = NULL
           /\ TransmitEnd(y).queue = y.queue
           /\ TransmitEnd(y).begun = y.begun
           /\ TransmitEnd(y).accepted = y.accepted
  <1>0. y.completions - 1 \in Nat
    OBVIOUS
  <1>1. TransmitEnd(y) \in TxType
    BY <1>0 DEF TransmitEnd, TxType
  <1>2. /\ TransmitEnd(y).completions = 0
        /\ TransmitEnd(y).state = "READY"
        /\ TransmitEnd(y).currentPkt = NULL
    BY DEF TransmitEnd, TxType
  <1>3. /\ TransmitEnd(y).queue = y.queue
        /\ TransmitEnd(y).begun = y.begun
        /\ TransmitEnd(y).accepted = y.accepted
    BY DEF TransmitEnd, TxType
  <1> QED
    BY <1>1, <1>2, <1>3

\* Putting a packet in the queue keeps the numbering of StartedInOrder.
LEMMA EnqueueKeepsOrder ==
    ASSUME TypeOK, StartedInOrder
    PROVE  LET y == Enqueue(x)
           IN  /\ y.queue \in Seq(Nat) /\ y.accepted \in Nat
               /\ y.begun = x.begun
               /\ y.begun + Len(y.queue) = y.accepted
               /\ \A i \in 1 .. Len(y.queue) : y.queue[i] = y.begun + i
               /\ y.queue # <<>>
  <1> DEFINE q == x.queue
             y == Enqueue(x)
  <1>1. q \in Seq(Nat) /\ x.accepted \in Nat /\ x.begun \in Nat
    BY DEF TypeOK, TxType
  <1>2. /\ y.queue = Append(q, x.accepted + 1)
        /\ y.accepted = x.accepted + 1 /\ y.begun = x.begun
    BY DEF TypeOK, TxType, Enqueue
  <1>3. x.begun + Len(q) = x.accepted /\ \A i \in 1 .. Len(q) : q[i] = x.begun + i
    BY DEF StartedInOrder
  <1> HIDE DEF q, y
  <1>4. /\ Append(q, x.begun + Len(q) + 1) \in Seq(Nat)
        /\ Len(Append(q, x.begun + Len(q) + 1)) = Len(q) + 1
        /\ Numbered(Append(q, x.begun + Len(q) + 1), x.begun)
        /\ Append(q, x.begun + Len(q) + 1) # <<>>
    BY <1>1, <1>3, AppendNumbered DEF Numbered
  <1>5. y.queue = Append(q, x.begun + Len(q) + 1)
    BY <1>2, <1>3
  <1>6. y.accepted \in Nat /\ y.begun + (Len(q) + 1) = y.accepted
    <2>1. Len(q) \in Nat
      BY <1>1
    <2> QED
      BY <2>1, <1>1, <1>2, <1>3
  <1> QED
    BY <1>2, <1>4, <1>5, <1>6 DEF y, Numbered

\* The invariant holds when the terminal is created.
THEOREM DeviceInitInv == Init => DeviceInv
  <1> SUFFICES ASSUME Init PROVE DeviceInv
    OBVIOUS
  <1>1. /\ x.state = "READY" /\ x.queue = <<>> /\ x.currentPkt = NULL
        /\ x.completions = 0 /\ x.accepted = 0 /\ x.begun = 0
    BY DEF Init, TxInit
  <1>2. TypeOK
    <2>1. <<>> \in Seq(Nat) /\ 0 \in Nat
      OBVIOUS
    <2>2. TxInit \in TxType
      BY <2>1 DEF TxInit, TxType
    <2> QED
      BY <2>2 DEF Init, TypeOK
  <1>3. OneCompletionWhileBusy /\ NoIdleBacklog
    BY <1>1 DEF OneCompletionWhileBusy, NoIdleBacklog
  <1>4. StartedInOrder
    BY <1>1 DEF StartedInOrder
  <1> QED
    BY <1>2, <1>3, <1>4 DEF DeviceInv

\* Starting the head of a well numbered queue on a transmitter that rests.
LEMMA StartKeepsInv ==
    ASSUME NEW y \in TxType,
           y.queue # <<>>,
           y.completions = 0,
           y.begun + Len(y.queue) = y.accepted,
           \A i \in 1 .. Len(y.queue) : y.queue[i] = y.begun + i,
           x' = TransmitStart(y),
           channel' \in Links \cup {NULL}, linkUp' \in BOOLEAN
    PROVE  DeviceInv'
  <1>1. y.queue \in Seq(Nat) /\ y.begun \in Nat /\ y.accepted \in Nat
    BY DEF TxType
  <1>2. /\ Head(y.queue) = y.begun + 1
        /\ Tail(y.queue) \in Seq(Nat)
        /\ Len(Tail(y.queue)) = Len(y.queue) - 1
        /\ Numbered(Tail(y.queue), y.begun + 1)
    BY <1>1, TailNumbered DEF Numbered
  <1>3. /\ y.completions + 1 = 1 /\ y.begun + 1 \in Nat /\ Head(y.queue) \in Nat
        /\ Len(y.queue) \in Nat /\ 1 \in Nat
    BY <1>1, <1>2
  <1>4. TransmitStart(y) \in TxType
    BY <1>2, <1>3 DEF TransmitStart, TxType
  <1>5. /\ x'.state = "BUSY" /\ x'.currentPkt = y.begun + 1
        /\ x'.queue = Tail(y.queue) /\ x'.completions = 1
        /\ x'.begun = y.begun + 1 /\ x'.accepted = y.accepted
    BY <1>2, <1>3 DEF TransmitStart, TxType
  <1>6. TypeOK'
    BY <1>4 DEF TypeOK
  <1>7. OneCompletionWhileBusy' /\ NoIdleBacklog'
    BY <1>3, <1>5, DeviceAssumption DEF OneCompletionWhileBusy, NoIdleBacklog
  <1>8. x'.begun + Len(x'.queue) = x'.accepted
    BY <1>1, <1>2, <1>3, <1>5
  <1>9. StartedInOrder'
    BY <1>2, <1>5, <1>8 DEF StartedInOrder, Numbered
  <1> QED
    BY <1>6, <1>7, <1>9 DEF DeviceInv

\* Every step of the terminal keeps the invariant.
THEOREM DeviceStepInv == DeviceInv /\ [Next]_vars => DeviceInv'
  <1> SUFFICES ASSUME DeviceInv, [Next]_vars PROVE DeviceInv'
    OBVIOUS
  <1> USE DEF DeviceInv
  <1>1. CASE SendQueues
    <2>1. /\ x'.queue \in Seq(Nat) /\ x'.accepted \in Nat
          /\ x'.begun = x.begun
          /\ x'.begun + Len(x'.queue) = x'.accepted
          /\ \A i \in 1 .. Len(x'.queue) : x'.queue[i] = x'.begun + i
      BY <1>1, EnqueueKeepsOrder DEF SendQueues
    <2>2. /\ x'.state = x.state /\ x'.currentPkt = x.currentPkt
          /\ x'.completions = x.completions /\ UNCHANGED <<channel, linkUp>>
          /\ x'.state # "READY"
      BY <1>1, EnqueueType DEF SendQueues, TypeOK
    <2>3. TypeOK'
      BY <1>1, EnqueueType, <2>2 DEF TypeOK, SendQueues
    <2>4. OneCompletionWhileBusy' /\ NoIdleBacklog'
      BY <2>2 DEF OneCompletionWhileBusy, NoIdleBacklog
    <2>5. StartedInOrder'
      BY <2>1, <2>2 DEF StartedInOrder
    <2> QED
      BY <2>3, <2>4, <2>5
  <1>2. CASE SendStarts
    <2> DEFINE y == Enqueue(x)
    <2>1. /\ y.queue # <<>>
          /\ y.begun + Len(y.queue) = y.accepted
          /\ \A i \in 1 .. Len(y.queue) : y.queue[i] = y.begun + i
      BY EnqueueKeepsOrder
    <2>2. y \in TxType
      BY EnqueueType DEF TypeOK
    <2>3. y.completions = 0
      BY <1>2, EnqueueType DEF SendStarts, OneCompletionWhileBusy, TypeOK
    <2>4. x' = TransmitStart(y) /\ channel' \in Links \cup {NULL} /\ linkUp' \in BOOLEAN
      BY <1>2 DEF SendStarts, ChannelSend, TypeOK
    <2> HIDE DEF y, DeviceInv
    <2> QED
      BY <2>1, <2>2, <2>3, <2>4, StartKeepsInv
  <1>3. CASE SendDrops
    BY <1>3 DEF SendDrops, vars, TypeOK, OneCompletionWhileBusy, NoIdleBacklog, StartedInOrder
  <1>4. CASE TransmitComplete
    <2> DEFINE y == TransmitEnd(x)
    <2>1. x.completions = 1 /\ x.state = "BUSY"
      <3>1. x.completions > 0 /\ x.completions \in Nat /\ x.state \in {"READY", "BUSY"}
        BY <1>4 DEF TransmitComplete, TypeOK, TxType
      <3>2. x.state # "READY"
        BY <3>1 DEF OneCompletionWhileBusy
      <3> QED
        BY <3>1, <3>2 DEF OneCompletionWhileBusy
    <2>2. /\ y \in TxType
          /\ y.completions = 0 /\ y.state = "READY" /\ y.currentPkt = NULL
          /\ y.queue = x.queue /\ y.begun = x.begun /\ y.accepted = x.accepted
      BY <2>1, TransmitEndType DEF TypeOK
    <2>3. /\ y.begun + Len(y.queue) = y.accepted
          /\ \A i \in 1 .. Len(y.queue) : y.queue[i] = y.begun + i
      BY <2>2 DEF StartedInOrder
    <2>4. channel' \in Links \cup {NULL} /\ linkUp' \in BOOLEAN
      BY <1>4 DEF TransmitComplete, ChannelSend, TypeOK
    <2>5. CASE x.queue = <<>>
      <3>1. x' = y
        BY <1>4, <2>5 DEF TransmitComplete
      <3> HIDE DEF y
      <3>2. TypeOK'
        BY <3>1, <2>2, <2>4 DEF TypeOK
      <3>3. OneCompletionWhileBusy' /\ NoIdleBacklog'
        BY <3>1, <2>2, <2>5 DEF OneCompletionWhileBusy, NoIdleBacklog
      <3>4. StartedInOrder'
        BY <3>1, <2>2, <2>3 DEF StartedInOrder
      <3> QED
        BY <3>2, <3>3, <3>4
    <2>6. CASE x.queue # <<>>
      <3>1. x' = TransmitStart(y)
        BY <1>4, <2>6 DEF TransmitComplete
      <3> HIDE DEF y, DeviceInv
      <3> QED
        BY <3>1, <2>2, <2>3, <2>4, <2>6, StartKeepsInv
    <2> QED
      BY <2>5, <2>6
  <1>5. ASSUME NEW c \in Links, Attach(c) PROVE DeviceInv'
    BY <1>5 DEF Attach, TypeOK, OneCompletionWhileBusy, NoIdleBacklog, StartedInOrder
  <1>6. CASE Detach
    BY <1>6 DEF Detach, TypeOK, OneCompletionWhileBusy, NoIdleBacklog, StartedInOrder
  <1>7. CASE SetLinkDown
    BY <1>7 DEF SetLinkDown, TypeOK, OneCompletionWhileBusy, NoIdleBacklog, StartedInOrder
  <1>8. CASE UNCHANGED vars
    BY <1>8 DEF vars, TypeOK, OneCompletionWhileBusy, NoIdleBacklog, StartedInOrder
  <1> QED
    BY <1>1, <1>2, <1>3, <1>4, <1>5, <1>6, <1>7, <1>8 DEF Next

\* The variables of the transmit machine keep their types.
THEOREM DeviceTypeCorrect == Spec => []TypeOK
  <1>1. DeviceInv => TypeOK
    BY DEF DeviceInv
  <1> QED
    BY DeviceInitInv, DeviceStepInv, <1>1, PTL DEF Spec

\* The assertions of TransmitStart and TransmitComplete never fail: whatever
\* is attached or detached, BUSY goes with one scheduled completion and a
\* current packet.
THEOREM DeviceAssertionsHold == Spec => []OneCompletionWhileBusy
  <1>1. DeviceInv => OneCompletionWhileBusy
    BY DEF DeviceInv
  <1> QED
    BY DeviceInitInv, DeviceStepInv, <1>1, PTL DEF Spec

\* The transmitter never rests while a packet waits.
THEOREM DeviceNeverIdlesOnBacklog == Spec => []NoIdleBacklog
  <1>1. DeviceInv => NoIdleBacklog
    BY DEF DeviceInv
  <1> QED
    BY DeviceInitInv, DeviceStepInv, <1>1, PTL DEF Spec

\* Accepted packets are started once each and in order.
THEOREM DeviceStartsInOrder == Spec => []StartedInOrder
  <1>1. DeviceInv => StartedInOrder
    BY DEF DeviceInv
  <1> QED
    BY DeviceInitInv, DeviceStepInv, <1>1, PTL DEF Spec

=============================================================================

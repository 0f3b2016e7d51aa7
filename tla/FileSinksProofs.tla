---------------------------- MODULE FileSinksProofs ----------------------------
(***************************************************************************)
(* The files of the sinks, for any limits and whatever failed.             *)
(*                                                                         *)
(* First the timed sinks: what a sink knows of its files holds up to the   *)
(* next rotation (TimedInv): all that are there and were not missed are in *)
(* the queue, in order when it rotates at midnight, and the last ones are  *)
(* there.                                                                  *)
(*                                                                         *)
(* Then the rotating sink: its files, with what is in stdio's buffer and   *)
(* without, are a chain of sequences that fit and follow each other, and   *)
(* current_size_ is never less than the log file has (RotatingInv). How a  *)
(* step moves the files (FilesMove) says what it does to the messages.     *)
(***************************************************************************)
EXTENDS MCFileSinks, CircularQProofs, Integers, FunctionTheorems,
        FiniteSetTheorems, SequenceTheorems, WellFoundedInduction, TLAPS

-----------------------------------------------------------------------------
(* Counting up                                                              *)

\* A set of naturals that is not empty has a least element. The proofs about
\* folds use it in place of an induction.
LEMMA LeastElement ==
    ASSUME NEW bad \in SUBSET Nat, bad # {}
    PROVE  \E m \in bad : \A j \in bad : m <= j
<1>1. PICK m \in bad : \A j \in bad : ~(<<j, m>> \in OpToRel(<, Nat))
  BY NatLessThanWellFounded, WFMin
<1>2. ASSUME NEW j \in bad, j < m PROVE FALSE
  <2>1. <<j, m>> \in OpToRel(<, Nat)
    BY <1>2 DEF OpToRel
  <2> QED
    BY <1>1, <2>1
<1>3. \A j \in bad : j \in Nat /\ m \in Nat
  OBVIOUS
<1> QED
  BY <1>2, <1>3

\* The largest number of an initial stretch.
LEMMA MaxOfStretch ==
    ASSUME NEW k \in Nat \ {0}
    PROVE  /\ (CHOOSE x \in 1 .. k : \A y \in 1 .. k : x >= y) = k
           /\ (1 .. k) \ {k} = 1 .. k - 1
<1>1. k \in 1 .. k /\ \A y \in 1 .. k : k >= y
  OBVIOUS
<1>2. \A x \in 1 .. k : (\A y \in 1 .. k : x >= y) => x = k
  BY <1>1
<1>3. (CHOOSE x \in 1 .. k : \A y \in 1 .. k : x >= y) = k
  BY <1>1, <1>2
<1> QED
  BY <1>3

\* A set that has k but nothing above it, with k taken out.
LEMMA MaxWithTop ==
    ASSUME NEW k \in Nat \ {0}, NEW x \in SUBSET (1 .. k), k \in x
    PROVE  /\ (CHOOSE m \in x : \A y \in x : m >= y) = k
           /\ x \ {k} \in SUBSET (1 .. k - 1)
<1>1. \A y \in x : k >= y
  OBVIOUS
<1>2. \A m \in x : (\A y \in x : m >= y) => m = k
  BY <1>1
<1>3. (CHOOSE m \in x : \A y \in x : m >= y) = k
  BY <1>1, <1>2
<1> QED
  BY <1>3

-----------------------------------------------------------------------------
(* Folds                                                                    *)

\* The two operations that are folded over sequences: of init_filenames_q_, and of
\* the size of a file.
Step(how, a, b) == IF how = "push" THEN PushBack(a, b) ELSE a + b.size

\* f is what the fold over s computes for each set of positions of s.
Folds(how, base, s, k, f) ==
    f = [x \in SUBSET (1 .. k) |->
            IF x = {} THEN base
            ELSE LET m == CHOOSE i \in x : \A j \in x : i >= j
                 IN  Step(how, f[x \ {m}], s[m])]

\* There is such a function: one for the first k - 1 positions can be continued.
LEMMA FoldsExist ==
    ASSUME NEW how, NEW base, NEW s, NEW k \in Nat
    PROVE  \E f : Folds(how, base, s, k, f)
<1> DEFINE bad == {i \in Nat : ~ \E f : Folds(how, base, s, i, f)}
<1> SUFFICES ASSUME bad # {} PROVE FALSE
  OBVIOUS
<1>1. PICK k0 \in bad : \A j \in bad : k0 <= j
  BY LeastElement
<1>2. CASE k0 = 0
  <2> DEFINE f == [x \in SUBSET (1 .. 0) |-> base]
  <2>1. \A x \in SUBSET (1 .. 0) : x = {}
    OBVIOUS
  <2>2. Folds(how, base, s, 0, f)
    BY <2>1 DEF Folds
  <2> QED
    BY <1>2, <2>2
<1>3. CASE k0 # 0
  <2>1. k0 - 1 \in Nat /\ k0 \in Nat \ {0} /\ k0 - 1 \notin bad
    BY <1>1, <1>3
  <2>2. PICK f : Folds(how, base, s, k0 - 1, f)
    BY <2>1
  <2> DEFINE top(x) == CHOOSE i \in x : \A j \in x : i >= j
             g == [x \in SUBSET (1 .. k0) |->
                     IF k0 \in x THEN Step(how, f[x \ {k0}], s[k0]) ELSE f[x]]
  <2>3. \A x \in SUBSET (1 .. k0 - 1) :
           f[x] = IF x = {} THEN base ELSE Step(how, f[x \ {top(x)}], s[top(x)])
    BY <2>2 DEF Folds
  <2>4. ASSUME NEW x \in SUBSET (1 .. k0)
        PROVE  g[x] = IF x = {} THEN base ELSE Step(how, g[x \ {top(x)}], s[top(x)])
    <3>1. CASE k0 \in x
      <4>1. top(x) = k0 /\ x \ {k0} \in SUBSET (1 .. k0 - 1)
        BY <2>1, <3>1, MaxWithTop
      <4>2. x \ {k0} \in SUBSET (1 .. k0) /\ k0 \notin x \ {k0}
        OBVIOUS
      <4>3. g[x \ {k0}] = f[x \ {k0}]
        BY <4>2
      <4>4. g[x] = Step(how, f[x \ {k0}], s[k0])
        BY <3>1
      <4> HIDE DEF g, top
      <4> QED
        BY <3>1, <4>1, <4>3, <4>4
    <3>2. CASE k0 \notin x
      <4>1. x \in SUBSET (1 .. k0 - 1)
        BY <2>1, <3>2
      <4>2. x \ {top(x)} \in SUBSET (1 .. k0) /\ k0 \notin x \ {top(x)}
        BY <3>2
      <4>3. g[x] = f[x] /\ g[x \ {top(x)}] = f[x \ {top(x)}]
        BY <3>2, <4>2
      <4> HIDE DEF g, top
      <4> QED
        BY <2>3, <4>1, <4>3
    <3> QED
      BY <3>1, <3>2
  <2>5. Folds(how, base, s, k0, g)
    <3> DEFINE body(x) == IF x = {} THEN base ELSE Step(how, g[x \ {top(x)}], s[top(x)])
    <3>1. \A x \in SUBSET (1 .. k0) : g[x] = body(x)
      BY <2>4
    <3>2. g = [x \in SUBSET (1 .. k0) |-> g[x]]
      OBVIOUS
    <3>3. g = [x \in SUBSET (1 .. k0) |-> body(x)]
      <4> HIDE DEF g, body
      <4> QED
        BY <3>1, <3>2
    <3> HIDE DEF g
    <3> QED
      BY <3>3 DEF Folds
  <2> QED
    BY <1>1, <2>5
<1> QED
  BY <1>2, <1>3

\* Over the initial stretches of s it takes one step after the other.
LEMMA FoldStretches ==
    ASSUME NEW how, NEW base, NEW s, NEW k \in Nat, NEW f, Folds(how, base, s, k, f)
    PROVE  /\ f[{}] = base
           /\ \A i \in 1 .. k : f[1 .. i] = Step(how, f[1 .. i - 1], s[i])
<1>1. f[{}] = base
  BY DEF Folds
<1>2. ASSUME NEW i \in 1 .. k
      PROVE  f[1 .. i] = Step(how, f[1 .. i - 1], s[i])
  <2>1. i \in Nat \ {0} /\ 1 .. i \in SUBSET (1 .. k) /\ 1 .. i # {}
    <3>1. i \in Nat \ {0} /\ i <= k
      OBVIOUS
    <3>2. 1 \in 1 .. i /\ \A j \in 1 .. i : j \in 1 .. k
      BY <3>1
    <3> QED
      BY <3>1, <3>2
  <2>2. f[1 .. i] = LET m == CHOOSE x \in 1 .. i : \A y \in 1 .. i : x >= y
                    IN  Step(how, f[(1 .. i) \ {m}], s[m])
    BY <2>1 DEF Folds
  <2> QED
    BY <2>1, <2>2, MaxOfStretch
<1> QED
  BY <1>1, <1>2

-----------------------------------------------------------------------------
(* init_filenames_q_                                                        *)

\* init_filenames_q_ fills a queue in which all its names have room.
LEMMA FoldPushes ==
    ASSUME NEW n \in Nat, NEW s \in Seq(Int), Len(s) <= n
    PROVE  LET q == Seqs!FoldLeft(PushBack, NewQ(n), s)
           IN  q \in QOf(n, Int \cup {NoItem}) /\ Items(q) = s
<1> DEFINE N == Len(s)
           f == CHOOSE g : Folds("push", NewQ(n), s, N, g)
           I == Int \cup {NoItem}
<1>1. /\ N \in Nat /\ DOMAIN s = 1 .. N /\ N <= n
      /\ SubSeq(s, 1, 0) = <<>> /\ SubSeq(s, 1, N) = s
      /\ \A k \in 1 .. N : /\ Len(SubSeq(s, 1, k - 1)) = k - 1 /\ s[k] \in I
                            /\ Append(SubSeq(s, 1, k - 1), s[k]) = SubSeq(s, 1, k)
  OBVIOUS
<1>2. Folds("push", NewQ(n), s, N, f)
  BY <1>1, FoldsExist
<1>3. Seqs!FoldLeft(PushBack, NewQ(n), s) = f[1 .. N]
  BY <1>1 DEF Seqs!FoldLeft, Seqs!MapThenFoldSet, Seqs!Max, Folds, Step
<1> HIDE DEF f, N, I
<1>4. /\ f[{}] = NewQ(n)
      /\ \A k \in 1 .. N : f[1 .. k] = Step("push", f[1 .. k - 1], s[k])
  <2>1. N \in Nat
    BY <1>1
  <2> QED
    BY <1>2, <2>1, FoldStretches
<1>5. \A k \in 1 .. N : f[1 .. k] = PushBack(f[1 .. k - 1], s[k])
  BY <1>4 DEF Step
<1> DEFINE Good(k) == f[1 .. k] \in QOf(n, I) /\ Items(f[1 .. k]) = SubSeq(s, 1, k)
           bad == {k \in 0 .. N : ~ Good(k)}
<1>6. ASSUME bad # {} PROVE FALSE
  <2> HIDE DEF Good
  <2>0. bad \in SUBSET Nat
    BY <1>1
  <2>1. PICK k \in bad : \A j \in bad : k <= j
    BY <1>6, <2>0, LeastElement
  <2>2. CASE k = 0
    <3>1. 1 .. 0 = {} /\ NoItem \in I
      BY DEF I
    <3>2. NewQ(n) \in QOf(n, I) /\ Items(NewQ(n)) = <<>>
      BY <3>1, NewQFacts
    <3>3. Good(0)
      BY <1>1, <1>4, <3>1, <3>2 DEF Good
    <3> QED
      BY <2>1, <2>2, <3>3
  <2>3. CASE k # 0
    <3>1. k \in 1 .. N /\ k - 1 \in 0 .. N /\ k - 1 \notin bad
      BY <1>1, <2>1, <2>3
    <3> DEFINE q == f[1 .. k - 1]
    <3>2. q \in QOf(n, I) /\ Items(q) = SubSeq(s, 1, k - 1)
      BY <3>1 DEF Good
    <3>3. f[1 .. k] = PushBack(q, s[k])
      BY <1>5, <3>1
    <3>4. /\ Len(SubSeq(s, 1, k - 1)) = k - 1 /\ s[k] \in I
          /\ Append(SubSeq(s, 1, k - 1), s[k]) = SubSeq(s, 1, k)
      BY <1>1, <3>1
    <3> HIDE DEF q
    <3>5. ~ Full(q)
      <4>1. Size(q) = k - 1
        BY <3>2, <3>4, ItemsFacts
      <4> QED
        BY <1>1, <3>1, <3>2, <4>1, SizeFacts
    <3>6. PushBack(q, s[k]) \in QOf(n, I) /\ Items(PushBack(q, s[k])) = Append(Items(q), s[k])
      BY <3>2, <3>4, <3>5, PushBackFacts
    <3>7. Good(k)
      BY <3>2, <3>3, <3>4, <3>6 DEF Good
    <3> QED
      BY <2>1, <3>7
  <2> QED
    BY <2>2, <2>3
<1>7. Good(N)
  <2> HIDE DEF Good
  <2>1. N \in 0 .. N
    BY <1>1
  <2> QED
    BY <1>6, <2>1
<1> QED
  BY <1>1, <1>3, <1>7 DEF I

\* The names init_filenames_q_ finds are consecutive, and end with that of today.
LEMMA FilenamesFound ==
    ASSUME max_files_ \in Nat \ {0}, FileOf(now) \in Int,
           NEW disk, FileOf(now) \in DOMAIN disk
    PROVE  \E n \in 1 .. max_files_ :
              /\ InitFilenames(disk) \in QOf(max_files_, Int \cup {NoItem})
              /\ Items(InitFilenames(disk)) = [i \in 1 .. n |-> FileOf(now) - n + i]
<1> DEFINE M == max_files_
           today == FileOf(now)
           there == {k \in 0 .. M - 1 : \A j \in 0 .. k : today - j \in DOMAIN disk}
           n == Cardinality(there)
           s == [i \in 1 .. n |-> today - n + i]
<1>1. IsFiniteSet(0 .. M - 1) /\ Cardinality(0 .. M - 1) = M
  BY FS_Interval
<1>2. IsFiniteSet(there) /\ n \in Nat /\ n <= M
  BY <1>1, FS_Subset, FS_CardinalityType
<1>3. 0 \in there
  <2>1. \A j \in 0 .. 0 : today - j = today
    OBVIOUS
  <2> QED
    BY <2>1
<1>4. n # 0
  BY <1>2, <1>3, FS_EmptySet
<1>5. InitFilenames(disk) = Seqs!FoldLeft(PushBack, NewQ(M), s)
  BY DEF InitFilenames
<1> HIDE DEF n, today
<1>6. n \in 1 .. M /\ M \in Nat /\ s \in Seq(Int) /\ Len(s) = n /\ n <= M
  BY <1>2, <1>4 DEF today
<1> HIDE DEF s, M
<1>7. LET q == Seqs!FoldLeft(PushBack, NewQ(M), s)
      IN  q \in QOf(M, Int \cup {NoItem}) /\ Items(q) = s
  BY <1>6, FoldPushes
<1> QED
  BY <1>5, <1>6, <1>7 DEF s, today, M

-----------------------------------------------------------------------------
(* Days and hours                                                           *)

\* A tick lies in its period.
LEMMA PeriodOfTick ==
    ASSUME TimedAssumption, NEW t \in Nat
    PROVE  /\ FileOf(t) \in Nat
           /\ FileOf(t) * Period <= t /\ t < FileOf(t) * Period + Period
<1>1. Period \in Nat \ {0}
  BY DEF TimedAssumption
<1> QED
  BY <1>1 DEF FileOf

\* Later ticks lie in later periods or in the same.
LEMMA PeriodsInOrder ==
    ASSUME TimedAssumption, NEW s \in Nat, NEW t \in Nat, s <= t
    PROVE  FileOf(s) <= FileOf(t)
<1>1. Period \in Nat \ {0}
  BY DEF TimedAssumption
<1> QED
  BY <1>1 DEF FileOf

\* The ticks of period k.
LEMMA TicksOfPeriod ==
    ASSUME TimedAssumption, NEW k \in Nat, NEW r \in 0 .. Period - 1
    PROVE  k * Period + r \in Nat /\ FileOf(k * Period + r) = k
<1>1. Period \in Nat \ {0}
  BY DEF TimedAssumption
<1> QED
  BY <1>1 DEF FileOf

-----------------------------------------------------------------------------
(* file_helper                                                              *)

\* A helper as the sinks use it: the file it has open exists under its name unless
\* it was removed.
Helper(h) ==
    /\ {"disk", "filename", "open", "linked", "buffer"} \subseteq DOMAIN h
    /\ h.linked => h.filename \in DOMAIN h.disk

\* A new file_helper has no file.
LEMMA NewHelperFacts ==
    ASSUME NEW disk, NEW name
    PROVE  Helper(NewHelper(disk, name))
  BY DEF Helper, NewHelper

\* fflush creates no file.
LEMMA FlushFacts ==
    ASSUME NEW h, Helper(h)
    PROVE  LET g == Flush(h)
           IN  /\ Helper(g) /\ DOMAIN g.disk = DOMAIN h.disk
               /\ g.filename = h.filename /\ g.open = h.open /\ g.linked = h.linked
<1>1. CASE ~ h.open
  BY <1>1 DEF Flush
<1>2. CASE h.open
  <2> DEFINE d == IF h.linked THEN Put(h.disk, h.filename, h.disk[h.filename] \o h.buffer)
                  ELSE h.disk
  <2>1. Flush(h) = [h EXCEPT !.buffer = <<>>, !.disk = d]
    BY <1>2 DEF Flush
  <2>2. DOMAIN d = DOMAIN h.disk
    BY DEF Put, Helper
  <2> HIDE DEF d
  <2> QED
    BY <2>1, <2>2 DEF Helper
<1> QED
  BY <1>1, <1>2

\* write, with or without a flush by stdio.
LEMMA WritesFacts ==
    ASSUME NEW h, Helper(h), NEW m, NEW g \in Writes(h, m)
    PROVE  /\ Helper(g) /\ DOMAIN g.disk = DOMAIN h.disk
           /\ g.filename = h.filename /\ g.open = h.open
<1> DEFINE written == [h EXCEPT !.buffer = Append(@, m)]
<1>1. /\ Helper(written) /\ written.disk = h.disk
      /\ written.filename = h.filename /\ written.open = h.open
  BY DEF Helper
<1>2. g \in {h, written, Flush(written)}
  BY DEF Writes
<1> HIDE DEF written
<1> QED
  BY <1>1, <1>2, FlushFacts

\* close
LEMMA CloseFacts ==
    ASSUME NEW h, Helper(h)
    PROVE  LET g == Close(h)
           IN  /\ Helper(g) /\ DOMAIN g.disk = DOMAIN h.disk
               /\ g.filename = h.filename /\ ~ g.open
<1> DEFINE f == Flush(h)
<1>1. Helper(f) /\ DOMAIN f.disk = DOMAIN h.disk /\ f.filename = h.filename
  BY FlushFacts
<1> HIDE DEF f
<1>2. Close(h) = [f EXCEPT !.open = FALSE, !.linked = FALSE]
  BY DEF Close, f
<1> QED
  BY <1>1, <1>2 DEF Helper

\* open, when it succeeds.
LEMMA OpenFacts ==
    ASSUME NEW h, Helper(h), NEW name, NEW truncate
    PROVE  LET g == Open(h, name, truncate)
           IN  /\ Helper(g) /\ DOMAIN g.disk = DOMAIN h.disk \cup {name}
               /\ g.filename = name /\ g.open
<1> DEFINE c == Close(h)
           d == Put(c.disk, name, IF truncate \/ name \notin DOMAIN c.disk THEN <<>>
                                  ELSE c.disk[name])
<1>1. Helper(c) /\ DOMAIN c.disk = DOMAIN h.disk
  BY CloseFacts
<1> HIDE DEF c
<1>2. Open(h, name, truncate) =
        [c EXCEPT !.filename = name, !.open = TRUE, !.linked = TRUE, !.disk = d]
  BY DEF Open, c
<1>3. DOMAIN d = DOMAIN c.disk \cup {name}
  BY DEF Put
<1> HIDE DEF d
<1> QED
  BY <1>1, <1>2, <1>3 DEF Helper

\* open, when it throws: the file may exist all the same.
LEMMA OpenFailuresFacts ==
    ASSUME NEW h, Helper(h), NEW name, NEW truncate, NEW g \in OpenFailures(h, name, truncate)
    PROVE  /\ Helper(g) /\ g.filename = name
           /\ DOMAIN h.disk \subseteq DOMAIN g.disk
           /\ DOMAIN g.disk \subseteq DOMAIN h.disk \cup {name}
<1> DEFINE b == Close(h)
           c == [b EXCEPT !.filename = name]
           e == [c EXCEPT !.disk = Put(c.disk, name, <<>>)]
<1>1. Helper(b) /\ DOMAIN b.disk = DOMAIN h.disk /\ ~ b.linked
  <2>1. ~ b.linked
    BY FlushFacts DEF Close, Helper
  <2> QED
    BY <2>1, CloseFacts
<1>2. g = c \/ g = e
  BY DEF OpenFailures
<1> HIDE DEF b
<1>3. Helper(c) /\ c.disk = b.disk /\ c.filename = name
  BY <1>1 DEF Helper
<1>4. DOMAIN Put(c.disk, name, <<>>) = DOMAIN c.disk \cup {name}
  BY DEF Put
<1> HIDE DEF c
<1>5. Helper(e) /\ DOMAIN e.disk = DOMAIN c.disk \cup {name} /\ e.filename = name
  BY <1>3, <1>4 DEF Helper
<1> QED
  BY <1>1, <1>2, <1>3, <1>5

\* os::remove
LEMMA RemoveFacts ==
    ASSUME NEW h, Helper(h), NEW name
    PROVE  LET g == RemoveFile(h, name)
           IN  /\ Helper(g) /\ DOMAIN g.disk = DOMAIN h.disk \ {name}
               /\ g.filename = h.filename /\ g.open = h.open
<1> DEFINE d == Restrict(h.disk, DOMAIN h.disk \ {name})
<1>1. RemoveFile(h, name) = [h EXCEPT !.disk = d, !.linked = h.linked /\ name # h.filename]
  BY DEF RemoveFile
<1>2. DOMAIN d = DOMAIN h.disk \ {name}
  BY DEF Restrict
<1> HIDE DEF d
<1> QED
  BY <1>1, <1>2 DEF Helper

-----------------------------------------------------------------------------
(* Names in a queue                                                         *)

\* What is in a sequence after an element was added, or the first taken off.
LEMMA RangeFacts ==
    ASSUME NEW S, NEW s \in Seq(S), NEW x \in S
    PROVE  /\ Range(Append(s, x)) = Range(s) \cup {x}
           /\ s # <<>> => /\ Tail(s) \in Seq(S)
                          /\ Range(s) = Range(Tail(s)) \cup {Head(s)}
<1>1. Range(Append(s, x)) = Range(s) \cup {x}
  <2>1. /\ Append(s, x) \in Seq(S) /\ Len(Append(s, x)) = Len(s) + 1
        /\ \A i \in 1 .. Len(s) : Append(s, x)[i] = s[i]
        /\ Append(s, x)[Len(s) + 1] = x
    OBVIOUS
  <2> DEFINE a == Append(s, x)
  <2> HIDE DEF a
  <2>2. DOMAIN a = 1 .. Len(s) + 1 /\ DOMAIN s = 1 .. Len(s) /\ Len(s) \in Nat
    BY <2>1 DEF a
  <2>3. \A i \in DOMAIN a : a[i] = x \/ (i \in DOMAIN s /\ a[i] = s[i])
    BY <2>1, <2>2 DEF a
  <2>4. \A i \in DOMAIN s : i \in DOMAIN a /\ a[i] = s[i]
    BY <2>1, <2>2 DEF a
  <2>5. Len(s) + 1 \in DOMAIN a /\ a[Len(s) + 1] = x
    BY <2>1, <2>2 DEF a
  <2>6. Range(a) = Range(s) \cup {x}
    BY <2>3, <2>4, <2>5 DEF Range
  <2> QED
    BY <2>6 DEF a
<1>2. ASSUME s # <<>>
      PROVE  Tail(s) \in Seq(S) /\ Range(s) = Range(Tail(s)) \cup {Head(s)}
  <2> DEFINE t == Tail(s)
  <2>1. /\ t \in Seq(S) /\ Len(t) = Len(s) - 1 /\ Len(s) \in Nat \ {0} /\ Head(s) = s[1]
        /\ \A i \in 1 .. Len(s) - 1 : t[i] = s[i + 1]
    BY <1>2
  <2> HIDE DEF t
  <2>2. DOMAIN t = 1 .. Len(s) - 1 /\ DOMAIN s = 1 .. Len(s)
    BY <2>1
  <2>3. \A i \in DOMAIN s : s[i] = Head(s) \/ (i - 1 \in DOMAIN t /\ s[i] = t[i - 1])
    BY <2>1, <2>2
  <2>4. \A i \in DOMAIN t : i + 1 \in DOMAIN s /\ t[i] = s[i + 1]
    BY <2>1, <2>2
  <2>5. 1 \in DOMAIN s /\ s[1] = Head(s)
    BY <2>1, <2>2
  <2>6. Range(s) = Range(t) \cup {Head(s)}
    BY <2>3, <2>4, <2>5 DEF Range
  <2> QED
    BY <2>1, <2>6 DEF t
<1> QED
  BY <1>1, <1>2

\* A sequence has no more values than positions, and one that rises as many.
LEMMA RangeCardinality ==
    ASSUME NEW s \in Seq(Int)
    PROVE  /\ IsFiniteSet(Range(s)) /\ Cardinality(Range(s)) <= Len(s)
           /\ (\A i, j \in 1 .. Len(s) : i < j => s[i] < s[j]) => Cardinality(Range(s)) = Len(s)
<1> DEFINE N == Len(s)
<1>1. N \in Nat /\ DOMAIN s = 1 .. N /\ s \in [1 .. N -> Int]
  OBVIOUS
<1>2. IsFiniteSet(1 .. N) /\ Cardinality(1 .. N) = N
  BY <1>1, FS_Interval
<1>3. s \in Surjection(1 .. N, Range(s))
  BY <1>1 DEF Range, Surjection
<1>4. IsFiniteSet(Range(s)) /\ Cardinality(Range(s)) <= N
  BY <1>2, <1>3, FS_Surjection
<1>5. ASSUME \A i, j \in 1 .. N : i < j => s[i] < s[j]
      PROVE  Cardinality(Range(s)) = N
  <2>1. \A i, j \in 1 .. N : s[i] = s[j] => i = j
    BY <1>1, <1>5
  <2>2. s \in Injection(1 .. N, Range(s))
    BY <1>1, <2>1 DEF Injection, IsInjective, Range
  <2> QED
    BY <1>2, <1>3, <2>2, FS_Surjection
<1> QED
  BY <1>4, <1>5

-----------------------------------------------------------------------------
(* What a sink knows of the files it opened                                 *)

\* In these O are the files opened, D those on the disk, M those missed, s the
\* names in the queue and b the period that the next rotation lies in.

\* No file is younger than the next rotation; at midnight they are all older.
UpTo(O, b) == \A n \in O : n <= b /\ (rotation_ = 0 => n < b)

\* Files that are left are in the queue, and so is one that the next rotation
\* might open again.
Complete(O, D, M, s, b) ==
    /\ (O \cap D) \ M \subseteq Range(s)
    /\ b \in O => b \in Range(s) \cup M

\* The queue goes from old to new; behind a file that the sink opened there are
\* only such.
Ordered(O, s, b) ==
    \A i, j \in 1 .. Len(s) :
        /\ s[i] < b
        /\ i < j => s[i] < s[j] /\ (s[i] \in O => s[j] \in O)

Newer(O, n) == {o \in O : o > n}

\* The last max_files_ files are on the disk.
Retained(O, D) ==
    \A n \in O : max_files_ = 0 \/ Cardinality(Newer(O, n)) < max_files_ => n \in D

\* Among more files fewer count as the last ones.
LEMMA FewerAreLast ==
    ASSUME max_files_ \in Nat, NEW O, IsFiniteSet(O), NEW F, NEW n \in O,
           max_files_ = 0 \/ Cardinality(Newer(O \cup {F}, n)) < max_files_
    PROVE  max_files_ = 0 \/ Cardinality(Newer(O, n)) < max_files_
<1> DEFINE P == Newer(O \cup {F}, n)
<1>1. IsFiniteSet(O \cup {F})
  BY FS_AddElement
<1>2. P \subseteq O \cup {F} /\ Newer(O, n) \subseteq P
  BY DEF Newer
<1>3. IsFiniteSet(P)
  BY <1>1, <1>2, FS_Subset
<1>4. Cardinality(Newer(O, n)) <= Cardinality(P) /\ IsFiniteSet(Newer(O, n))
  BY <1>2, <1>3, FS_Subset
<1>5. Cardinality(P) \in Nat /\ Cardinality(Newer(O, n)) \in Nat
  BY <1>3, <1>4, FS_CardinalityType
<1> QED
  BY <1>4, <1>5

\* Files stay when a new one comes and none goes.
LEMMA RetainedWithNew ==
    ASSUME max_files_ \in Nat, NEW O, IsFiniteSet(O), NEW D, NEW F, NEW E,
           Retained(O, D), D \cup {F} \subseteq E
    PROVE  Retained(O \cup {F}, E)
<1> SUFFICES ASSUME NEW n \in O \cup {F},
                    max_files_ = 0 \/ Cardinality(Newer(O \cup {F}, n)) < max_files_
             PROVE  n \in E
  BY DEF Retained
<1>1. CASE n \in O
  <2>1. max_files_ = 0 \/ Cardinality(Newer(O, n)) < max_files_
    BY <1>1, FewerAreLast
  <2> QED
    BY <1>1, <2>1 DEF Retained
<1> QED
  BY <1>1

\* When the first of a full queue goes as well, it is not one of the last.
LEMMA RetainedWithoutFirst ==
    ASSUME max_files_ \in Nat \ {0}, NEW O, O \subseteq Nat, IsFiniteSet(O), NEW D, NEW F \in Nat, NEW b \in Nat,
           NEW s \in Seq(Int), Len(s) = max_files_, Ordered(O, s, b), b <= F,
           Retained(O, D)
    PROVE  Retained(O \cup {F}, (D \cup {F}) \ {Head(s)})
<1> DEFINE P == O \cup {F}
<1>1. Head(s) = s[1] /\ 1 \in 1 .. Len(s) /\ Len(s) \in Nat /\ s # <<>>
  OBVIOUS
<1>2. \A i \in 1 .. Len(s) : s[i] \in Int /\ s[i] < F
  BY DEF Ordered
<1>3. Retained(P, D \cup {F})
  BY RetainedWithNew
<1> SUFFICES ASSUME NEW n \in P, Cardinality(Newer(P, n)) < max_files_, n = Head(s)
             PROVE  FALSE
  BY <1>3 DEF Retained
<1> DEFINE t == Append(Tail(s), F)
<1>4. n \in O
  BY <1>1, <1>2
<1>5. /\ t \in Seq(Int) /\ Len(t) = Len(s)
      /\ \A i \in 1 .. Len(s) : t[i] = IF i = Len(s) THEN F ELSE s[i + 1]
  BY <1>1
<1> HIDE DEF t
<1>6. \A i, j \in 1 .. Len(t) : i < j => t[i] < t[j]
  <2> SUFFICES ASSUME NEW i \in 1 .. Len(s), NEW j \in 1 .. Len(s), i < j
               PROVE  t[i] < t[j]
    BY <1>5
  <2>1. t[i] = s[i + 1] /\ i + 1 \in 1 .. Len(s)
    BY <1>1, <1>5
  <2>2. CASE j = Len(s)
    BY <1>2, <1>5, <2>1, <2>2
  <2>3. CASE j # Len(s)
    <3>1. t[j] = s[j + 1] /\ j + 1 \in 1 .. Len(s) /\ i + 1 < j + 1
      BY <1>1, <1>5, <2>3
    <3> QED
      BY <2>1, <3>1 DEF Ordered
  <2> QED
    BY <2>2, <2>3
<1>7. Cardinality(Range(t)) = max_files_
  BY <1>5, <1>6, RangeCardinality
<1>8. Range(t) \subseteq Newer(P, n)
  <2> SUFFICES ASSUME NEW i \in 1 .. Len(s)
               PROVE  t[i] \in P /\ t[i] > n
    BY <1>5 DEF Range, Newer
  <2>1. CASE i = Len(s)
    BY <1>1, <1>2, <1>5, <2>1
  <2>2. CASE i # Len(s)
    <3>1. t[i] = s[i + 1] /\ i + 1 \in 1 .. Len(s) /\ 1 < i + 1
      BY <1>1, <1>5, <2>2
    <3>2. s[1] < s[i + 1] /\ s[i + 1] \in O
      BY <1>1, <1>4, <3>1 DEF Ordered
    <3> QED
      BY <1>1, <1>2, <3>1, <3>2
  <2> QED
    BY <2>1, <2>2
<1>9. IsFiniteSet(Newer(P, n))
  <2>1. IsFiniteSet(P) /\ Newer(P, n) \subseteq P
    BY FS_AddElement DEF Newer
  <2> QED
    BY <2>1, FS_Subset
<1>10. max_files_ <= Cardinality(Newer(P, n)) /\ Cardinality(Newer(P, n)) \in Nat
  BY <1>7, <1>8, <1>9, FS_Subset, FS_CardinalityType
<1> QED
  BY <1>10

\* The queue stays in order without its first name, and with a new last one.
LEMMA OrderedTail ==
    ASSUME NEW O, NEW b \in Nat, NEW s \in Seq(Int), s # <<>>, Ordered(O, s, b)
    PROVE  Tail(s) \in Seq(Int) /\ Ordered(O, Tail(s), b)
<1> DEFINE t == Tail(s)
<1>1. /\ t \in Seq(Int) /\ Len(t) = Len(s) - 1 /\ Len(s) \in Nat
      /\ \A i \in 1 .. Len(s) - 1 : t[i] = s[i + 1] /\ i + 1 \in 1 .. Len(s)
  OBVIOUS
<1> HIDE DEF t
<1>2. \A i, j \in 1 .. Len(t) : i < j => i + 1 < j + 1
  BY <1>1
<1>3. Ordered(O, t, b)
  BY <1>1, <1>2 DEF Ordered
<1> QED
  BY <1>1, <1>3 DEF t

\* A file that is opened but not queued.
LEMMA OrderedUnqueued ==
    ASSUME NEW O, NEW b \in Nat, NEW s \in Seq(Int), Ordered(O, s, b),
           NEW F \in Nat, b <= F, NEW c \in Nat, F < c
    PROVE  Ordered(O \cup {F}, s, c)
<1> SUFFICES ASSUME NEW i \in 1 .. Len(s), NEW j \in 1 .. Len(s)
             PROVE  /\ s[i] < c
                    /\ i < j => s[i] < s[j] /\ (s[i] \in O \cup {F} => s[j] \in O \cup {F})
  BY DEF Ordered
<1>1. s[i] \in Int /\ s[j] \in Int /\ s[i] < b
  BY DEF Ordered
<1>2. s[i] # F /\ s[i] < c
  BY <1>1
<1>3. i < j => s[i] < s[j] /\ (s[i] \in O => s[j] \in O)
  BY DEF Ordered
<1> QED
  BY <1>2, <1>3

\* A file that is opened and queued.
LEMMA OrderedAppend ==
    ASSUME NEW O, NEW b \in Nat, NEW s \in Seq(Int), Ordered(O, s, b),
           NEW F \in Nat, b <= F, NEW c \in Nat, F < c
    PROVE  Append(s, F) \in Seq(Int) /\ Ordered(O \cup {F}, Append(s, F), c)
<1> DEFINE t == Append(s, F)
<1>1. /\ t \in Seq(Int) /\ Len(t) = Len(s) + 1 /\ Len(s) \in Nat /\ t[Len(s) + 1] = F
      /\ \A i \in 1 .. Len(s) : t[i] = s[i] /\ s[i] \in Int
  OBVIOUS
<1> HIDE DEF t
<1>2. Ordered(O \cup {F}, s, c)
  BY OrderedUnqueued
<1>3. Ordered(O \cup {F}, t, c)
  <2> SUFFICES ASSUME NEW i \in 1 .. Len(t), NEW j \in 1 .. Len(t)
               PROVE  /\ t[i] < c
                      /\ i < j => t[i] < t[j] /\ (t[i] \in O \cup {F} => t[j] \in O \cup {F})
    BY DEF Ordered
  <2>1. CASE i \in 1 .. Len(s) /\ j \in 1 .. Len(s)
    BY <1>1, <1>2, <2>1 DEF Ordered
  <2>2. CASE i \in 1 .. Len(s) /\ j = Len(s) + 1
    <3>1. t[i] = s[i] /\ s[i] \in Int /\ s[i] < b /\ t[j] = F
      BY <1>1, <2>2 DEF Ordered
    <3> QED
      BY <3>1
  <2>3. CASE i = Len(s) + 1
    BY <1>1, <2>3
  <2> QED
    BY <1>1, <2>1, <2>2, <2>3
<1> QED
  BY <1>1, <1>3 DEF t

-----------------------------------------------------------------------------
(* The invariant of the timed sinks                                         *)

TimedTypes ==
    /\ now \in Nat /\ StartTick <= now /\ rotation_tp_ \in Nat
    /\ rotation_ \in 0 .. Period - 1 /\ max_files_ \in Nat
    /\ Helper(file)
    /\ opened \subseteq Nat /\ IsFiniteSet(opened)

\* Of the files O that the sink opened those in D are on the disk.
FilesKnown(O, D) ==
    /\ UpTo(O, FileOf(rotation_tp_))
    /\ rotation_ = 0 => Retained(O, D)
    /\ max_files_ > 0 =>
          /\ filenames_q_ \in QOf(max_files_, Int \cup {NoItem}) /\ Items(filenames_q_) \in Seq(Int)
          /\ Complete(O, D, missed, Items(filenames_q_), FileOf(rotation_tp_))
          /\ rotation_ = 0 => Ordered(O, Items(filenames_q_), FileOf(rotation_tp_))

TimedInv ==
    /\ TimedTypes
    /\ running =>
          /\ FilesKnown(opened, DOMAIN file.disk)
          /\ remove_init_file_ => opened \subseteq {file.filename}
          /\ ~ file.open => now >= rotation_tp_

\* next_rotation_tp_ lies in the present period or later, at midnight later.
LEMMA NextRotationFacts ==
    ASSUME TimedAssumption, now \in Nat, rotation_ \in 0 .. Period - 1
    PROVE  /\ NextRotation \in Nat
           /\ FileOf(now) <= FileOf(NextRotation)
           /\ rotation_ = 0 => FileOf(now) < FileOf(NextRotation)
<1> DEFINE today == FileOf(now)
           rotation_time == today * Period + rotation_
<1>1. Period \in Nat \ {0}
  BY DEF TimedAssumption
<1>2. today \in Nat /\ today * Period \in Nat /\ today * Period <= now
  <2>1. today \in Nat /\ today * Period <= now
    BY PeriodOfTick
  <2> HIDE DEF today
  <2> QED
    BY <1>1, <2>1
<1>3. /\ rotation_time \in Nat /\ FileOf(rotation_time) = today
      /\ (today + 1) * Period + rotation_ \in Nat
      /\ FileOf((today + 1) * Period + rotation_) = today + 1
  BY <1>2, TicksOfPeriod
<1>4. rotation_time + Period = (today + 1) * Period + rotation_
  <2> HIDE DEF today
  <2> QED
    BY <1>1, <1>2
<1>5. NextRotation = IF rotation_time > now THEN rotation_time ELSE rotation_time + Period
  BY DEF NextRotation
<1>6. rotation_ = 0 => ~ (rotation_time > now)
  <2> HIDE DEF today
  <2> QED
    BY <1>2
<1> HIDE DEF rotation_time, today
<1>7. CASE rotation_time > now
  BY <1>2, <1>3, <1>5, <1>6, <1>7 DEF today
<1>8. CASE ~ (rotation_time > now)
  BY <1>2, <1>3, <1>4, <1>5, <1>8 DEF today
<1> QED
  BY <1>7, <1>8

\* delete_old_ after a rotation that opened file F.
LEMMA DeleteOldKeeps ==
    ASSUME TimedAssumption, TimedTypes, NEW O \in SUBSET Nat, IsFiniteSet(O), NEW D,
           FilesKnown(O, D),
           NEW F \in Nat, NEW c \in Nat, FileOf(rotation_tp_) <= F, F <= c,
           rotation_ = 0 => F < c,
           NEW h, Helper(h), h.filename = F, DOMAIN h.disk = D \cup {F},
           DeleteOld(h), opened' = O \cup {F}, FileOf(rotation_tp_') = c,
           UNCHANGED <<rotation_, max_files_>>
    PROVE  /\ FilesKnown(opened, DOMAIN file.disk)'
           /\ Helper(file') /\ file'.open = h.open
<1> DEFINE q == filenames_q_
           s == Items(q)
           b == FileOf(rotation_tp_)
           P == O \cup {F}
           I == Int \cup {NoItem}
<1>1. b \in Nat /\ max_files_ \in Nat
  BY PeriodOfTick DEF TimedTypes
<1>2. /\ UpTo(P, c) /\ (c \in P => c = F) /\ (F \in O => F = b)
  <2>1. UpTo(O, b) /\ O \subseteq Nat /\ b <= F
    BY DEF FilesKnown
  <2> HIDE DEF b
  <2> QED
    BY <1>1, <2>1 DEF UpTo
<1> HIDE DEF P
<1>3. UpTo(opened, FileOf(rotation_tp_))' /\ opened' = P
  BY <1>2 DEF UpTo, P
<1>4. CASE max_files_ = 0
  <2>1. file' = h
    BY <1>4 DEF DeleteOld
  <2>2. rotation_ = 0 => Retained(P, D \cup {F})
    BY <1>1, RetainedWithNew DEF FilesKnown, P
  <2>3. (rotation_ = 0 => Retained(opened, DOMAIN file.disk))'
    BY <1>3, <2>1, <2>2 DEF Retained, Newer
  <2> QED
    BY <1>3, <1>4, <2>1, <2>3 DEF FilesKnown
<1>5. CASE max_files_ # 0
  <2>1. /\ max_files_ \in Nat \ {0} /\ q \in QOf(max_files_, I) /\ s \in Seq(Int) /\ F \in I
        /\ Complete(O, D, missed, s, b)
        /\ rotation_ = 0 => Ordered(O, s, b) /\ Retained(O, D)
        /\ b <= F
    BY <1>1, <1>5 DEF FilesKnown
  <2>2. Len(s) = Size(q) /\ Size(q) \in 0 .. max_files_ /\ (Full(q) <=> Size(q) = max_files_)
        /\ (IsEmpty(q) <=> Size(q) = 0)
    BY <2>1, ItemsFacts, SizeFacts
  <2> HIDE DEF s, b, I
  <2>3. CASE Full(q)
    <3>1. Len(s) = max_files_ /\ ~ IsEmpty(q) /\ s # <<>>
      BY <2>1, <2>2, <2>3
    <3> DEFINE r == PopFront(q)
               t == Append(Tail(s), F)
    <3>2. r \in QOf(max_files_, I) /\ Front(q) = Head(s) /\ Items(r) = Tail(s)
      BY <2>1, <3>1, PopFrontFacts DEF s
    <3> HIDE DEF r
    <3>3. ~ Full(r)
      <4>1. Size(r) = Len(Tail(s)) /\ Len(Tail(s)) = Len(s) - 1
        BY <2>1, <3>1, <3>2, ItemsFacts
      <4> QED
        BY <2>1, <3>1, <3>2, <4>1, SizeFacts
    <3>4. PushBack(r, F) \in QOf(max_files_, I) /\ Items(PushBack(r, F)) = t
      <4>1. max_files_ \in Nat /\ r \in QOf(max_files_, I) /\ F \in I /\ ~ Full(r)
        BY <2>1, <3>2, <3>3
      <4>2. Items(PushBack(r, F)) = Append(Items(r), F) /\ PushBack(r, F) \in QOf(max_files_, I)
        BY <4>1, PushBackFacts
      <4> QED
        BY <3>2, <4>2
    <3>5. /\ filenames_q_' = PushBack(r, F)
          /\ \/ file' = RemoveFile(h, Head(s)) /\ missed' = missed
             \/ file' = h /\ missed' = missed \cup {Head(s)}
      BY <1>5, <2>3, <3>2 DEF DeleteOld, r
    <3>6. Tail(s) \in Seq(Int) /\ t \in Seq(Int) /\ Range(s) = Range(Tail(s)) \cup {Head(s)}
          /\ Range(t) = Range(Tail(s)) \cup {F}
      <4>1. Tail(s) \in Seq(Int) /\ Range(s) = Range(Tail(s)) \cup {Head(s)}
        BY <2>1, <3>1, RangeFacts
      <4>2. F \in Int
        OBVIOUS
      <4>3. Range(t) = Range(Tail(s)) \cup {F} /\ t \in Seq(Int)
        <5>1. t \in Seq(Int)
          BY <4>1, <4>2
        <5> DEFINE u == Tail(s)
        <5>2. u \in Seq(Int)
          BY <4>1
        <5> HIDE DEF u
        <5>3. Range(Append(u, F)) = Range(u) \cup {F}
          BY <4>2, <5>2, RangeFacts
        <5> QED
          BY <5>1, <5>3 DEF u
      <4> QED
        BY <4>1, <4>3
    <3>7. rotation_ = 0 => Ordered(P, t, c)
      BY <1>1, <2>1, <3>1, <3>6, OrderedTail, OrderedAppend DEF P
    <3> HIDE DEF t
    <3>8. (/\ filenames_q_ \in QOf(max_files_, I) /\ Items(filenames_q_) \in Seq(Int)
           /\ rotation_ = 0 => Ordered(opened, Items(filenames_q_), FileOf(rotation_tp_)))'
      BY <1>3, <3>4, <3>5, <3>6, <3>7 DEF Ordered
    <3>9. CASE file' = RemoveFile(h, Head(s)) /\ missed' = missed
      <4>1. Helper(file') /\ file'.open = h.open /\ DOMAIN file'.disk = (D \cup {F}) \ {Head(s)}
        BY <3>9, RemoveFacts
      <4>2. rotation_ = 0 => Retained(P, DOMAIN file'.disk)
        <5>1. ASSUME rotation_ = 0
              PROVE  Retained(O \cup {F}, (D \cup {F}) \ {Head(s)})
          <6>1. /\ Ordered(O, s, b) /\ Retained(O, D) /\ b \in Nat /\ b <= F
                /\ s \in Seq(Int) /\ Len(s) = max_files_ /\ max_files_ \in Nat \ {0}
                /\ O \subseteq Nat /\ IsFiniteSet(O) /\ F \in Nat
            BY <1>1, <2>1, <3>1, <5>1
          <6> QED
            BY <6>1, RetainedWithoutFirst
        <5> QED
          BY <4>1, <5>1 DEF P
      <4>3. (rotation_ = 0 => Retained(opened, DOMAIN file.disk))'
        BY <1>3, <4>2 DEF Retained, Newer
      <4>4. Complete(P, DOMAIN file'.disk, missed, t, c)
        <5> DEFINE E == DOMAIN file'.disk
        <5>1. /\ c \in O \cup {F} => c = F
              /\ F \in Range(t) \cup missed /\ missed \subseteq missed /\ E \subseteq D \cup {F}
              /\ \A x \in Range(s) : x \in Range(t) \/ x \in missed \/ x \notin E
          BY <1>2, <3>6, <4>1 DEF P
        <5> HIDE DEF E
        <5>2. Complete(O \cup {F}, E, missed, t, c)
          BY <2>1, <5>1 DEF Complete
        <5> QED
          BY <5>2 DEF P, E
      <4>5. (Complete(opened, DOMAIN file.disk, missed, Items(filenames_q_), FileOf(rotation_tp_)))'
        BY <1>3, <3>4, <3>5, <3>9, <4>4 DEF Complete
      <4> QED
        BY <1>3, <3>8, <4>1, <4>3, <4>5 DEF FilesKnown, I
    <3>10. CASE file' = h /\ missed' = missed \cup {Head(s)}
      <4>1. rotation_ = 0 => Retained(P, DOMAIN file'.disk)
        BY <1>1, <2>1, <3>10, RetainedWithNew DEF P
      <4>2. (rotation_ = 0 => Retained(opened, DOMAIN file.disk))'
        BY <1>3, <4>1 DEF Retained, Newer
      <4>3. Complete(P, DOMAIN file'.disk, missed', t, c)
        <5> DEFINE E == DOMAIN file'.disk
                   N == missed \cup {Head(s)}
        <5>1. /\ c \in O \cup {F} => c = F
              /\ F \in Range(t) \cup N /\ missed \subseteq N /\ E \subseteq D \cup {F}
              /\ \A x \in Range(s) : x \in Range(t) \/ x \in N \/ x \notin E
          BY <1>2, <3>6, <3>10 DEF P
        <5> HIDE DEF E, N
        <5>2. Complete(O \cup {F}, E, N, t, c)
          BY <2>1, <5>1 DEF Complete
        <5> QED
          BY <3>10, <5>2 DEF P, E, N
      <4>4. (Complete(opened, DOMAIN file.disk, missed, Items(filenames_q_), FileOf(rotation_tp_)))'
        BY <1>3, <3>4, <3>5, <4>3 DEF Complete
      <4> QED
        BY <1>3, <3>8, <3>10, <4>2, <4>4 DEF FilesKnown, I
    <3> QED
      BY <3>5, <3>9, <3>10
  <2>4. CASE ~ Full(q)
    <3> DEFINE t == Append(s, F)
    <3>1. PushBack(q, F) \in QOf(max_files_, I) /\ Items(PushBack(q, F)) = t
      <4>1. max_files_ \in Nat /\ q \in QOf(max_files_, I) /\ F \in I /\ ~ Full(q)
        BY <2>1, <2>4
      <4>2. Items(PushBack(q, F)) = Append(Items(q), F) /\ PushBack(q, F) \in QOf(max_files_, I)
        BY <4>1, PushBackFacts
      <4> QED
        BY <4>2 DEF s
    <3>2. filenames_q_' = PushBack(q, F) /\ file' = h /\ missed' = missed
      BY <1>1, <1>5, <2>4 DEF DeleteOld
    <3>3. t \in Seq(Int) /\ Range(t) = Range(s) \cup {F}
      <4>1. F \in Int
        OBVIOUS
      <4> QED
        BY <2>1, <4>1, RangeFacts
    <3>4. rotation_ = 0 => Ordered(P, t, c)
      BY <1>1, <2>1, OrderedAppend DEF P
    <3> HIDE DEF t
    <3>5. (/\ filenames_q_ \in QOf(max_files_, I) /\ Items(filenames_q_) \in Seq(Int)
           /\ rotation_ = 0 => Ordered(opened, Items(filenames_q_), FileOf(rotation_tp_)))'
      BY <1>3, <3>1, <3>2, <3>3, <3>4 DEF Ordered
    <3>6. rotation_ = 0 => Retained(P, DOMAIN file'.disk)
      BY <1>1, <2>1, <3>2, RetainedWithNew DEF P
    <3>7. (rotation_ = 0 => Retained(opened, DOMAIN file.disk))'
      BY <1>3, <3>6 DEF Retained, Newer
    <3>8. Complete(P, DOMAIN file'.disk, missed, t, c)
      <4> DEFINE E == DOMAIN file'.disk
      <4>1. /\ c \in O \cup {F} => c = F
            /\ F \in Range(t) \cup missed /\ missed \subseteq missed /\ E \subseteq D \cup {F}
            /\ \A x \in Range(s) : x \in Range(t) \/ x \in missed \/ x \notin E
        BY <1>2, <3>2, <3>3 DEF P
      <4> HIDE DEF E
      <4>2. Complete(O \cup {F}, E, missed, t, c)
        BY <2>1, <4>1 DEF Complete
      <4> QED
        BY <4>2 DEF P, E
    <3>9. (Complete(opened, DOMAIN file.disk, missed, Items(filenames_q_), FileOf(rotation_tp_)))'
      BY <1>3, <3>1, <3>2, <3>8 DEF Complete
    <3> QED
      BY <1>3, <3>2, <3>5, <3>7, <3>9 DEF FilesKnown, I
  <2> QED
    BY <2>3, <2>4
<1> QED
  BY <1>4, <1>5

\* Before it opens the next file an hourly sink may remove the first, and forgets it.
LEMMA BeforeOpenFacts ==
    ASSUME TimedTypes, FilesKnown(opened, DOMAIN file.disk),
           remove_init_file_ => opened \subseteq {file.filename},
           NEW before \in BeforeOpen
    PROVE  /\ Helper(before) /\ FilesKnown(StillOpened, DOMAIN before.disk)
           /\ StillOpened \in SUBSET Nat /\ IsFiniteSet(StillOpened)
           /\ remove_init_file_ => StillOpened = {}
<1>1. CASE remove_init_file_
  <2>1. StillOpened = {}
    BY <1>1 DEF StillOpened
  <2>2. before \in {RemoveFile(Close(file), file.filename), Close(file)}
    BY <1>1 DEF BeforeOpen
  <2>3. Helper(before)
    BY <2>2, CloseFacts, RemoveFacts DEF TimedTypes
  <2>4. ASSUME NEW D PROVE FilesKnown({}, D)
    <3>1. UpTo({}, FileOf(rotation_tp_)) /\ Retained({}, D)
      BY DEF UpTo, Retained
    <3>2. ASSUME max_files_ > 0
          PROVE  /\ Complete({}, D, missed, Items(filenames_q_), FileOf(rotation_tp_))
                 /\ rotation_ = 0 => Ordered({}, Items(filenames_q_), FileOf(rotation_tp_))
      <4>1. Complete({}, D, missed, Items(filenames_q_), FileOf(rotation_tp_))
        BY DEF Complete
      <4>2. rotation_ = 0 => Ordered(opened, Items(filenames_q_), FileOf(rotation_tp_))
        BY <3>2 DEF FilesKnown
      <4>3. rotation_ = 0 => Ordered({}, Items(filenames_q_), FileOf(rotation_tp_))
        BY <4>2 DEF Ordered
      <4> QED
        BY <4>1, <4>3
    <3> QED
      BY <3>1, <3>2 DEF FilesKnown
  <2> QED
    BY <2>1, <2>3, <2>4, FS_EmptySet
<1>2. CASE ~ remove_init_file_
  BY <1>2 DEF BeforeOpen, StillOpened, TimedTypes
<1> QED
  BY <1>1, <1>2

\* A rotation, successful or not.
LEMMA RotateKeeps ==
    ASSUME TimedAssumption, TimedInv, NEW time \in Nat, time <= now, Rotate(time)
    PROVE  TimedInv'
<1> DEFINE F == FileOf(time)
           c == FileOf(NextRotation)
           O == StillOpened
<1>1. /\ TimedTypes /\ FilesKnown(opened, DOMAIN file.disk)
      /\ remove_init_file_ => opened \subseteq {file.filename}
  BY DEF TimedInv, Rotate
<1>2. UNCHANGED <<now, rotation_, max_files_, running>> /\ time >= rotation_tp_ /\ running
  BY DEF Rotate, args
<1>3. PICK before \in BeforeOpen :
        \/ /\ rotation_tp_' = NextRotation
           /\ remove_init_file_' = FALSE
           /\ opened' = StillOpened \cup {FileOf(time)}
           /\ LET new == Open(before, FileOf(time), truncate_)
              IN  \/ \E h \in Writes(new, Line) : DeleteOld(h)
                  \/ /\ file' = new /\ missed' = missed \cup {FileOf(time)}
                     /\ UNCHANGED filenames_q_
        \/ /\ file' \in OpenFailures(before, FileOf(time), truncate_)
           /\ opened' = StillOpened
           /\ UNCHANGED <<rotation_tp_, filenames_q_, remove_init_file_, missed>>
  BY DEF Rotate
<1> DEFINE D == DOMAIN before.disk
           new == Open(before, FileOf(time), truncate_)
<1>4. /\ Helper(before) /\ FilesKnown(O, D) /\ O \in SUBSET Nat /\ IsFiniteSet(O)
      /\ remove_init_file_ => O = {}
  BY <1>1, BeforeOpenFacts
<1>5. /\ now \in Nat /\ StartTick <= now /\ rotation_tp_ \in Nat /\ max_files_ \in Nat
      /\ rotation_ \in 0 .. Period - 1
  BY <1>1 DEF TimedTypes
<1>6. /\ F \in Nat /\ c \in Nat /\ FileOf(rotation_tp_) \in Nat /\ FileOf(rotation_tp_) <= F
      /\ F <= c /\ (rotation_ = 0 => F < c) /\ NextRotation \in Nat
  <2>1. /\ F \in Nat /\ FileOf(now) \in Nat /\ FileOf(rotation_tp_) \in Nat
        /\ FileOf(rotation_tp_) <= F /\ F <= FileOf(now)
    BY <1>2, <1>5, PeriodOfTick, PeriodsInOrder
  <2>2. /\ NextRotation \in Nat /\ FileOf(now) <= c
        /\ (rotation_ = 0 => FileOf(now) < c)
    BY <1>5, NextRotationFacts
  <2>3. c \in Nat
    BY <2>2, PeriodOfTick
  <2> HIDE DEF F, c
  <2> QED
    BY <2>1, <2>2, <2>3
<1>7. Helper(new) /\ DOMAIN new.disk = D \cup {F} /\ new.filename = F /\ new.open
  BY <1>4, OpenFacts
<1>8. IsFiniteSet(O \cup {F}) /\ O \cup {F} \subseteq Nat
  BY <1>4, <1>6, FS_AddElement
<1> HIDE DEF F, c, O, D, new
<1>9. ASSUME rotation_tp_' = NextRotation, remove_init_file_' = FALSE, opened' = O \cup {F},
             NEW h \in Writes(new, Line), DeleteOld(h)
      PROVE  TimedInv'
  <2>1. Helper(h) /\ DOMAIN h.disk = D \cup {F} /\ h.filename = F /\ h.open
    BY <1>7, WritesFacts
  <2>2. FileOf(rotation_tp_') = c
    BY <1>9 DEF c, FileOf
  <2>3. /\ FilesKnown(opened, DOMAIN file.disk)'
        /\ Helper(file') /\ file'.open = h.open
    <3>1. /\ O \in SUBSET Nat /\ IsFiniteSet(O) /\ FilesKnown(O, D)
          /\ F \in Nat /\ c \in Nat /\ FileOf(rotation_tp_) <= F /\ F <= c
          /\ (rotation_ = 0 => F < c)
          /\ Helper(h) /\ h.filename = F /\ DOMAIN h.disk = D \cup {F}
          /\ opened' = O \cup {F} /\ FileOf(rotation_tp_') = c
          /\ UNCHANGED <<rotation_, max_files_>>
      BY <1>2, <1>4, <1>6, <1>9, <2>1, <2>2
    <3> QED
      BY <1>1, <1>9, <3>1, DeleteOldKeeps
  <2> QED
    BY <1>2, <1>5, <1>6, <1>8, <1>9, <2>1, <2>3 DEF TimedInv, TimedTypes
<1>10. ASSUME rotation_tp_' = NextRotation, remove_init_file_' = FALSE, opened' = O \cup {F},
              file' = new, missed' = missed \cup {F}, UNCHANGED filenames_q_
       PROVE  TimedInv'
  <2> DEFINE s == Items(filenames_q_)
             b == FileOf(rotation_tp_)
             E == DOMAIN file'.disk
  <2>1. UpTo(O, b) /\ (rotation_ = 0 => Retained(O, D))
    BY <1>4 DEF FilesKnown
  <2>2. /\ UpTo(O \cup {F}, c) /\ (c \in O \cup {F} => c = F) /\ E = D \cup {F}
    <3> HIDE DEF b
    <3> QED
      BY <1>4, <1>6, <1>7, <1>10, <2>1 DEF UpTo, b
  <2>3. rotation_ = 0 => Retained(O \cup {F}, E)
    BY <1>4, <1>5, <2>1, <2>2, RetainedWithNew
  <2>4. ASSUME max_files_ > 0
        PROVE  /\ filenames_q_ \in QOf(max_files_, Int \cup {NoItem}) /\ s \in Seq(Int)
               /\ Complete(O \cup {F}, E, missed', s, c)
               /\ rotation_ = 0 => Ordered(O \cup {F}, s, c)
    <3>1. /\ filenames_q_ \in QOf(max_files_, Int \cup {NoItem}) /\ s \in Seq(Int)
          /\ Complete(O, D, missed, s, b) /\ (rotation_ = 0 => Ordered(O, s, b))
      BY <1>4, <2>4 DEF FilesKnown
    <3> HIDE DEF s, b, E
    <3>2. Complete(O \cup {F}, E, missed', s, c)
      BY <1>10, <2>2, <3>1 DEF Complete
    <3>3. rotation_ = 0 => Ordered(O \cup {F}, s, c)
      BY <1>6, <3>1, OrderedUnqueued DEF b
    <3> QED
      BY <3>1, <3>2, <3>3
  <2>5. FileOf(rotation_tp_') = c
    BY <1>10 DEF c, FileOf
  <2>6. FilesKnown(opened, DOMAIN file.disk)'
    <3>1. UpTo(opened, FileOf(rotation_tp_))'
      BY <1>2, <1>10, <2>2, <2>5 DEF UpTo
    <3>2. (rotation_ = 0 => Retained(opened, DOMAIN file.disk))'
      BY <1>2, <1>10, <2>3 DEF Retained, Newer
    <3>3. (max_files_ > 0 =>
             /\ filenames_q_ \in QOf(max_files_, Int \cup {NoItem}) /\ Items(filenames_q_) \in Seq(Int)
             /\ Complete(opened, DOMAIN file.disk, missed, Items(filenames_q_), FileOf(rotation_tp_))
             /\ rotation_ = 0 => Ordered(opened, Items(filenames_q_), FileOf(rotation_tp_)))'
      BY <1>2, <1>10, <2>4, <2>5 DEF Complete, Ordered
    <3> QED
      BY <3>1, <3>2, <3>3 DEF FilesKnown
  <2> QED
    BY <1>2, <1>5, <1>6, <1>7, <1>8, <1>10, <2>6 DEF TimedInv, TimedTypes
<1>11. ASSUME file' \in OpenFailures(before, F, truncate_), opened' = O,
              UNCHANGED <<rotation_tp_, filenames_q_, remove_init_file_, missed>>
       PROVE  TimedInv'
  <2> DEFINE s == Items(filenames_q_)
             b == FileOf(rotation_tp_)
             E == DOMAIN file'.disk
  <2>1. Helper(file') /\ D \subseteq E /\ E \subseteq D \cup {F}
    BY <1>4, <1>11, OpenFailuresFacts DEF D
  <2>2. UpTo(O, b) /\ (rotation_ = 0 => Retained(O, D))
    BY <1>4 DEF FilesKnown
  <2>3. F \in O => F = b
    <3> HIDE DEF b
    <3> QED
      BY <1>6, <2>2 DEF UpTo, b
  <2>4. rotation_ = 0 => Retained(O, E)
    BY <2>1, <2>2 DEF Retained
  <2>5. ASSUME max_files_ > 0
        PROVE  /\ filenames_q_ \in QOf(max_files_, Int \cup {NoItem}) /\ s \in Seq(Int)
               /\ Complete(O, E, missed, s, b)
               /\ rotation_ = 0 => Ordered(O, s, b)
    <3>1. /\ filenames_q_ \in QOf(max_files_, Int \cup {NoItem}) /\ s \in Seq(Int)
          /\ Complete(O, D, missed, s, b) /\ (rotation_ = 0 => Ordered(O, s, b))
      BY <1>4, <2>5 DEF FilesKnown
    <3> HIDE DEF s, b, E
    <3>2. Complete(O, E, missed, s, b)
      BY <2>1, <2>3, <3>1 DEF Complete
    <3> QED
      BY <3>1, <3>2
  <2>6. FileOf(rotation_tp_') = b
    BY <1>11 DEF FileOf
  <2>7. FilesKnown(opened, DOMAIN file.disk)'
    <3>1. UpTo(opened, FileOf(rotation_tp_))'
      BY <1>2, <1>11, <2>2, <2>6 DEF UpTo
    <3>2. (rotation_ = 0 => Retained(opened, DOMAIN file.disk))'
      BY <1>2, <1>11, <2>4 DEF Retained, Newer
    <3>3. (max_files_ > 0 =>
             /\ filenames_q_ \in QOf(max_files_, Int \cup {NoItem}) /\ Items(filenames_q_) \in Seq(Int)
             /\ Complete(opened, DOMAIN file.disk, missed, Items(filenames_q_), FileOf(rotation_tp_))
             /\ rotation_ = 0 => Ordered(opened, Items(filenames_q_), FileOf(rotation_tp_)))'
      BY <1>2, <1>11, <2>5, <2>6 DEF Complete, Ordered
    <3> QED
      BY <3>1, <3>2, <3>3 DEF FilesKnown
  <2>8. now >= rotation_tp_
    BY <1>2, <1>5
  <2> QED
    BY <1>2, <1>4, <1>5, <1>11, <2>1, <2>7, <2>8 DEF TimedInv, TimedTypes
<1> QED
  BY <1>3, <1>9, <1>10, <1>11 DEF F, O, new

\* Steps that open and delete no file.
LEMMA FilesKnownKept ==
    ASSUME FilesKnown(opened, DOMAIN file.disk), DOMAIN file'.disk = DOMAIN file.disk,
           UNCHANGED <<rotation_, max_files_, rotation_tp_, filenames_q_, opened, missed>>
    PROVE  FilesKnown(opened, DOMAIN file.disk)'
<1>1. UpTo(opened, FileOf(rotation_tp_)) => UpTo(opened, FileOf(rotation_tp_))'
  BY DEF UpTo, FileOf
<1>2. Retained(opened, DOMAIN file.disk) => Retained(opened, DOMAIN file.disk)'
  BY DEF Retained, Newer
<1> QED
  BY <1>1, <1>2 DEF FilesKnown, FileOf, Complete, Ordered

\* The constructor.
LEMMA StartKeeps ==
    ASSUME TimedAssumption, TimedInv, Start
    PROVE  TimedInv'
<1> DEFINE today == FileOf(now)
           c == FileOf(NextRotation)
<1>1. /\ now \in Nat /\ StartTick <= now /\ rotation_tp_ \in Nat /\ max_files_ \in Nat
      /\ rotation_ \in 0 .. Period - 1 /\ Helper(file)
      /\ opened \subseteq Nat /\ IsFiniteSet(opened)
  BY DEF TimedInv, TimedTypes
<1>2. UNCHANGED <<now, rotation_, max_files_>> /\ ~ running
  BY DEF Start, args
<1>3. /\ today \in Nat /\ c \in Nat /\ NextRotation \in Nat /\ today <= c
      /\ rotation_ = 0 => today < c
  BY <1>1, PeriodOfTick, NextRotationFacts
<1>4. ASSUME file' = Open(file, today, truncate_), rotation_tp_' = NextRotation,
             filenames_q_' = IF max_files_ > 0 THEN InitFilenames(file'.disk) ELSE NewQ(0),
             opened' = {today}, missed' = {}
      PROVE  TimedInv'
  <2> DEFINE D == DOMAIN file'.disk
  <2>1. Helper(file') /\ today \in D /\ file'.filename = today /\ file'.open
    BY <1>1, <1>4, OpenFacts
  <2> HIDE DEF today, c
  <2>2. FileOf(rotation_tp_') = c
    BY <1>4 DEF c, FileOf
  <2>3. UpTo({today}, c) /\ Retained({today}, D)
    BY <1>3, <2>1 DEF UpTo, Retained
  <2>4. UpTo(opened, FileOf(rotation_tp_))' /\ (rotation_ = 0 => Retained(opened, DOMAIN file.disk))'
    BY <1>2, <1>4, <2>2, <2>3 DEF UpTo, Retained, Newer
  <2>5. ASSUME max_files_ > 0
        PROVE  (/\ filenames_q_ \in QOf(max_files_, Int \cup {NoItem}) /\ Items(filenames_q_) \in Seq(Int)
                /\ Complete(opened, DOMAIN file.disk, missed, Items(filenames_q_), FileOf(rotation_tp_))
                /\ rotation_ = 0 => Ordered(opened, Items(filenames_q_), FileOf(rotation_tp_)))'
    <3>1. PICK n \in 1 .. max_files_ :
             /\ InitFilenames(file'.disk) \in QOf(max_files_, Int \cup {NoItem})
             /\ Items(InitFilenames(file'.disk)) = [i \in 1 .. n |-> today - n + i]
      <4> DEFINE disk == file'.disk
      <4>1. max_files_ \in Nat \ {0} /\ FileOf(now) \in Int /\ FileOf(now) \in DOMAIN disk
        BY <1>1, <1>3, <2>1, <2>5 DEF today
      <4> HIDE DEF disk
      <4>2. \E n \in 1 .. max_files_ :
               /\ InitFilenames(disk) \in QOf(max_files_, Int \cup {NoItem})
               /\ Items(InitFilenames(disk)) = [i \in 1 .. n |-> FileOf(now) - n + i]
        BY <4>1, FilenamesFound
      <4> QED
        BY <4>2 DEF today, disk
    <3> DEFINE s == [i \in 1 .. n |-> today - n + i]
    <3>2. n \in Nat \ {0} /\ s \in Seq(Int) /\ Len(s) = n /\ DOMAIN s = 1 .. n /\ s[n] = today
      BY <1>1, <1>3
    <3>3. \A i \in 1 .. n : s[i] = today - n + i
      OBVIOUS
    <3> HIDE DEF s
    <3>4. today \in Range(s)
      BY <3>2 DEF Range
    <3>5. Complete({today}, D, {}, s, c)
      BY <3>4 DEF Complete
    <3>6. rotation_ = 0 => Ordered({today}, s, c)
      <4> SUFFICES ASSUME rotation_ = 0, NEW i \in 1 .. n, NEW j \in 1 .. n
                   PROVE  s[i] < c /\ (i < j => s[i] < s[j] /\ (s[i] \in {today} => s[j] \in {today}))
        BY <3>2 DEF Ordered
      <4> QED
        BY <1>3, <3>2, <3>3
    <3>7. filenames_q_' = InitFilenames(file'.disk) /\ Items(filenames_q_)' = s
      BY <1>4, <2>5, <3>1 DEF s
    <3> QED
      BY <1>2, <1>4, <2>2, <3>1, <3>2, <3>5, <3>6, <3>7 DEF Complete, Ordered
  <2>6. FilesKnown(opened, DOMAIN file.disk)'
    BY <1>2, <2>4, <2>5 DEF FilesKnown
  <2>7. IsFiniteSet({today})
    BY FS_Singleton
  <2> QED
    BY <1>1, <1>2, <1>3, <1>4, <2>1, <2>6, <2>7 DEF TimedInv, TimedTypes
<1>5. ASSUME file' \in OpenFailures(file, today, truncate_), UNCHANGED <<rotation_tp_, running, opened>>
      PROVE  TimedInv'
  <2>1. Helper(file')
    BY <1>1, <1>5, OpenFailuresFacts
  <2> QED
    BY <1>1, <1>2, <1>5, <2>1 DEF TimedInv, TimedTypes
<1> QED
  BY <1>4, <1>5 DEF Start

\* There is no sink at first.
LEMMA InitTimed == TimedAssumption /\ Init => TimedInv
<1> SUFFICES ASSUME TimedAssumption, Init PROVE TimedInv
  OBVIOUS
<1>1. /\ now \in Nat /\ StartTick <= now /\ rotation_tp_ \in Nat /\ max_files_ \in Nat
      /\ rotation_ \in 0 .. Period - 1 /\ ~ running /\ opened = {}
  BY DEF TimedAssumption, Init
<1>2. Helper(file)
  BY NewHelperFacts DEF Init
<1> QED
  BY <1>1, <1>2, FS_EmptySet DEF TimedInv, TimedTypes

\* Every step keeps the invariant.
LEMMA TimedStep == TimedAssumption /\ TimedInv /\ [Next]_vars => TimedInv'
<1> SUFFICES ASSUME TimedAssumption, TimedInv, [Next]_vars PROVE TimedInv'
  OBVIOUS
<1>1. /\ now \in Nat /\ StartTick <= now /\ rotation_tp_ \in Nat /\ max_files_ \in Nat
      /\ rotation_ \in 0 .. Period - 1 /\ Helper(file)
      /\ opened \subseteq Nat /\ IsFiniteSet(opened)
  BY DEF TimedInv, TimedTypes
<1>2. /\ StartTick \in Nat /\ Delay \in 0 .. StartTick
  BY DEF TimedAssumption
<1>3. ASSUME UNCHANGED <<rotation_, max_files_, rotation_tp_, filenames_q_, opened, missed, running>>,
             now' \in {now, now + 1}, Helper(file'), DOMAIN file'.disk = DOMAIN file.disk,
             file'.filename = file.filename, file'.open = file.open,
             remove_init_file_' => remove_init_file_
      PROVE  TimedInv'
  <2>1. running => FilesKnown(opened, DOMAIN file.disk)'
    BY <1>3, FilesKnownKept DEF TimedInv
  <2> QED
    BY <1>1, <1>2, <1>3, <2>1 DEF TimedInv, TimedTypes
<1>4. CASE Tick
  BY <1>1, <1>3, <1>4 DEF Tick, args
<1>5. CASE Start
  BY <1>5, StartKeeps
<1>6. CASE Stop
  <2>1. Helper(Close(file))
    BY <1>1, CloseFacts
  <2>2. Helper([file EXCEPT !.open = FALSE, !.linked = FALSE, !.buffer = <<>>])
    BY <1>1 DEF Helper
  <2>3. Helper(file') /\ ~ running' /\ UNCHANGED <<now, rotation_, max_files_, rotation_tp_, opened>>
    BY <1>6, <2>1, <2>2 DEF Stop, args
  <2> QED
    BY <1>1, <2>3 DEF TimedInv, TimedTypes
<1>7. ASSUME NEW d \in 0 .. Delay, SinkIt(now - d)
      PROVE  TimedInv'
  <2>1. /\ UNCHANGED <<now, rotation_, max_files_, rotation_tp_, filenames_q_, opened, missed, running>>
        /\ remove_init_file_' = FALSE /\ file' \in Writes(file, Line) \cup {file}
    BY <1>7 DEF SinkIt, args
  <2>2. /\ Helper(file') /\ DOMAIN file'.disk = DOMAIN file.disk
        /\ file'.filename = file.filename /\ file'.open = file.open
    BY <1>1, <2>1, WritesFacts
  <2> QED
    BY <1>3, <2>1, <2>2
<1>8. ASSUME NEW d \in 0 .. Delay, Rotate(now - d)
      PROVE  TimedInv'
  <2>1. now - d \in Nat /\ now - d <= now
    BY <1>1, <1>2
  <2> QED
    BY <1>8, <2>1, RotateKeeps
<1>9. CASE UNCHANGED vars
  BY <1>1, <1>3, <1>9 DEF vars, args
<1> QED
  BY <1>4, <1>5, <1>6, <1>7, <1>8, <1>9 DEF Next

\* What the invariant says of the properties.
LEMMA TimedConsequences ==
    TimedAssumption /\ TimedInv => LastFilesRetained /\ OldFilesDeleted /\ ClosedOnlyWhileDue
<1> SUFFICES ASSUME TimedAssumption, TimedInv
             PROVE  LastFilesRetained /\ OldFilesDeleted /\ ClosedOnlyWhileDue
  OBVIOUS
<1>1. ASSUME running, rotation_ = 0
      PROVE  LastFiles \subseteq DOMAIN file.disk
  <2>1. Retained(opened, DOMAIN file.disk)
    BY <1>1 DEF TimedInv, FilesKnown
  <2> QED
    BY <2>1 DEF Retained, Newer, LastFiles
<1>2. ASSUME running, max_files_ > 0
      PROVE  Cardinality((opened \cap DOMAIN file.disk) \ missed) <= max_files_
  <2> DEFINE q == filenames_q_
             s == Items(q)
             left == (opened \cap DOMAIN file.disk) \ missed
  <2>1. /\ max_files_ \in Nat /\ q \in QOf(max_files_, Int \cup {NoItem}) /\ s \in Seq(Int)
        /\ left \subseteq Range(s)
    BY <1>2 DEF TimedInv, TimedTypes, FilesKnown, Complete
  <2>2. Len(s) \in 0 .. max_files_
    <3> DEFINE I == Int \cup {NoItem}
    <3> HIDE DEF I, q
    <3>1. q \in QOf(max_files_, I)
      BY <2>1 DEF I
    <3>2. Size(q) \in 0 .. max_files_ /\ Len(s) = Size(q)
      BY <2>1, <3>1, SizeFacts, ItemsFacts
    <3> QED
      BY <3>2
  <2> HIDE DEF s
  <2>3. /\ IsFiniteSet(Range(s)) /\ Cardinality(Range(s)) <= Len(s)
    BY <2>1, RangeCardinality
  <2>4. Cardinality(left) <= Cardinality(Range(s)) /\ IsFiniteSet(left)
    BY <2>1, <2>3, FS_Subset
  <2>5. Cardinality(left) \in Nat /\ Cardinality(Range(s)) \in Nat
    BY <2>3, <2>4, FS_CardinalityType
  <2> QED
    BY <2>1, <2>2, <2>3, <2>4, <2>5
<1>3. ClosedOnlyWhileDue
  BY DEF ClosedOnlyWhileDue, TimedInv
<1> QED
  BY <1>1, <1>2, <1>3 DEF LastFilesRetained, OldFilesDeleted

\* daily_file_sink with a rotation at midnight, and hourly_file_sink: the last max_files_
\* files are on the disk, whatever failed and however late messages came.
THEOREM LastFilesAreRetained ==
    ASSUME TimedAssumption
    PROVE  Spec => []LastFilesRetained
<1>1. Init => TimedInv
  BY InitTimed
<1>2. TimedInv /\ [Next]_vars => TimedInv'
  BY TimedStep
<1>3. TimedInv => LastFilesRetained
  BY TimedConsequences
<1> QED
  BY <1>1, <1>2, <1>3, PTL DEF Spec

\* delete_old_, at any time of rotation: of the files that the sink opened and that no
\* failure saved from deletion, at most max_files_ are left.
THEOREM OldFilesAreDeleted ==
    ASSUME TimedAssumption
    PROVE  Spec => []OldFilesDeleted
<1>1. Init => TimedInv
  BY InitTimed
<1>2. TimedInv /\ [Next]_vars => TimedInv'
  BY TimedStep
<1>3. TimedInv => OldFilesDeleted
  BY TimedConsequences
<1> QED
  BY <1>1, <1>2, <1>3, PTL DEF Spec

\* daily_file_sink and hourly_file_sink: a failure to open a file is not for good.
THEOREM ClosedFileIsDue ==
    ASSUME TimedAssumption
    PROVE  Spec => []ClosedOnlyWhileDue
<1>1. Init => TimedInv
  BY InitTimed
<1>2. TimedInv /\ [Next]_vars => TimedInv'
  BY TimedStep
<1>3. TimedInv => ClosedOnlyWhileDue
  BY TimedConsequences
<1> QED
  BY <1>1, <1>2, <1>3, PTL DEF Spec

-----------------------------------------------------------------------------
(* The size of a file                                                       *)

\* Messages logged so far, when these are k.
Logged(k) == [n : 1 .. k, size : Sizes]

\* p holds the sizes of the initial stretches of content.
Measures(content, p) ==
    /\ p[0] = 0
    /\ \A i \in 1 .. Len(content) : p[i] = p[i - 1] + content[i].size

\* Total is the last of these sizes.
LEMMA TotalMeasures ==
    ASSUME NEW content, Len(content) \in Nat, DOMAIN content = 1 .. Len(content)
    PROVE  \E p : Measures(content, p) /\ Rotating!Total(content) = p[Len(content)]
<1> DEFINE N == Len(content)
           f == CHOOSE g : Folds("sum", 0, content, N, g)
           p == [i \in 0 .. N |-> f[1 .. i]]
<1>1. Folds("sum", 0, content, N, f)
  BY FoldsExist
<1>2. Rotating!Total(content) = f[1 .. N]
  BY DEF Rotating!Total, Rotating!FoldLeft, Rotating!MapThenFoldSet, Rotating!Max, Folds, Step
<1> HIDE DEF f
<1>3. /\ f[{}] = 0
      /\ \A i \in 1 .. N : f[1 .. i] = Step("sum", f[1 .. i - 1], content[i])
  BY <1>1, FoldStretches
<1>4. f[1 .. 0] = 0 /\ \A i \in 1 .. N : f[1 .. i] = f[1 .. i - 1] + content[i].size
  BY <1>3 DEF Step
<1>5. \A i \in 0 .. N : p[i] = f[1 .. i]
  OBVIOUS
<1>6. 0 \in 0 .. N /\ N \in 0 .. N /\ \A i \in 1 .. N : i \in 0 .. N /\ i - 1 \in 0 .. N
  OBVIOUS
<1> HIDE DEF p
<1>7. Measures(content, p) /\ Rotating!Total(content) = p[N]
  BY <1>2, <1>4, <1>5, <1>6 DEF Measures
<1> QED
  BY <1>7

\* The sizes of stretches are naturals, and the same however they are found.
LEMMA MeasuresAgree ==
    ASSUME NEW M, \A m \in M : m.size \in Nat, NEW a \in Seq(M),
           NEW b \in Seq(M), NEW p, NEW q,
           Measures(a, p), Measures(b, q), Len(a) <= Len(b),
           \A i \in 1 .. Len(a) : a[i] = b[i]
    PROVE  \A i \in 0 .. Len(a) : p[i] \in Nat /\ p[i] = q[i]
<1> DEFINE bad == {i \in 0 .. Len(a) : ~ (p[i] \in Nat /\ p[i] = q[i])}
<1> SUFFICES ASSUME bad # {} PROVE FALSE
  OBVIOUS
<1>0. Len(a) \in Nat /\ bad \in SUBSET Nat
  OBVIOUS
<1>1. PICK k \in bad : \A j \in bad : k <= j
  BY <1>0, LeastElement
<1>2. CASE k = 0
  BY <1>1, <1>2 DEF Measures
<1>3. CASE k # 0
  <2>1. k \in 1 .. Len(a) /\ k \in 1 .. Len(b) /\ k - 1 \in 0 .. Len(a) /\ k - 1 \notin bad
    BY <1>1, <1>3
  <2>2. p[k] = p[k - 1] + a[k].size /\ q[k] = q[k - 1] + b[k].size /\ a[k] = b[k]
    BY <2>1 DEF Measures
  <2>3. a[k].size \in Nat
    <3>1. a[k] \in M
      BY <2>1
    <3> QED
      BY <3>1
  <2> QED
    BY <1>1, <2>1, <2>2, <2>3
<1> QED
  BY <1>2, <1>3

\* The size of a file.
LEMMA TotalIsNat ==
    ASSUME NEW M, \A m \in M : m.size \in Nat, NEW a \in Seq(M)
    PROVE  Rotating!Total(a) \in Nat
<1>1. Len(a) \in Nat /\ DOMAIN a = 1 .. Len(a)
  OBVIOUS
<1>2. PICK p : Measures(a, p) /\ Rotating!Total(a) = p[Len(a)]
  BY <1>1, TotalMeasures
<1>3. \A i \in 0 .. Len(a) : p[i] \in Nat /\ p[i] = p[i]
  BY <1>1, <1>2, MeasuresAgree
<1> QED
  BY <1>1, <1>2, <1>3

\* The size of a file with a message more.
LEMMA TotalFacts ==
    ASSUME NEW M, \A m \in M : m.size \in Nat, NEW a \in Seq(M),
           NEW m \in M
    PROVE  /\ Rotating!Total(a) \in Nat
           /\ Rotating!Total(Append(a, m)) = Rotating!Total(a) + m.size
<1> DEFINE b == Append(a, m)
           N == Len(a)
<1>1. /\ N \in Nat /\ DOMAIN a = 1 .. N /\ Len(b) = N + 1 /\ DOMAIN b = 1 .. N + 1
      /\ b[N + 1] = m /\ \A i \in 1 .. N : a[i] = b[i]
      /\ b \in Seq(M)
  OBVIOUS
<1> HIDE DEF b
<1>2. PICK p : Measures(a, p) /\ Rotating!Total(a) = p[N]
  BY <1>1, TotalMeasures
<1>3. PICK q : Measures(b, q) /\ Rotating!Total(b) = q[N + 1]
  BY <1>1, TotalMeasures
<1>4. p[N] \in Nat /\ p[N] = q[N]
  <2>1. Measures(a, p) /\ Measures(b, q) /\ Len(a) <= Len(b) /\ \A i \in 1 .. Len(a) : a[i] = b[i]
    BY <1>1, <1>2, <1>3
  <2> HIDE DEF N
  <2>2. \A i \in 0 .. Len(a) : p[i] \in Nat /\ p[i] = q[i]
    BY <1>1, <2>1, MeasuresAgree
  <2> QED
    BY <1>1, <2>2 DEF N
<1>5. q[N + 1] = q[N] + m.size
  <2>1. N + 1 \in 1 .. Len(b) /\ N + 1 - 1 = N
    BY <1>1
  <2> QED
    BY <1>1, <1>3, <2>1 DEF Measures
<1> QED
  BY <1>2, <1>3, <1>4, <1>5 DEF b

-----------------------------------------------------------------------------
(* The files of a rotating sink                                             *)

Increasing(c) == \A i, j \in 1 .. Len(c) : i < j => c[i].n < c[j].n

Before(c, e) == \A i \in 1 .. Len(c), j \in 1 .. Len(e) : c[i].n < e[j].n

Fits(c) == Rotating!Total(c) <= MaxSize \/ Len(c) = 1

\* The files d of a sink that was given k messages.
Chain(d, k) ==
    /\ DOMAIN d \subseteq 0 .. MaxFiles
    /\ d \in [DOMAIN d -> Seq(Logged(k))]
    /\ \A i \in DOMAIN d : Fits(d[i]) /\ Increasing(d[i])
    /\ \A i, j \in DOMAIN d : i < j => Before(d[j], d[i])

\* What is in a message.
LEMMA LoggedFacts ==
    ASSUME Rotating!RotatingAssumption, NEW k \in Nat
    PROVE  /\ \A m \in Logged(k) : m.n \in 1 .. k /\ m.size \in Nat
           /\ Logged(k) \subseteq Logged(k + 1)
           /\ \A size \in Sizes : LET m == [n |-> k + 1, size |-> size]
                                  IN  m \in Logged(k + 1) /\ m.n = k + 1 /\ m.size = size
<1>1. Sizes \subseteq Nat \ {0}
  BY DEF Rotating!RotatingAssumption
<1>2. 1 .. k \subseteq 1 .. k + 1 /\ k + 1 \in 1 .. k + 1
  OBVIOUS
<1> QED
  BY <1>1, <1>2 DEF Logged

\* A file of the first k messages is one of the first k + 1.
LEMMA SeqLogged ==
    ASSUME Rotating!RotatingAssumption, NEW k \in Nat, NEW c \in Seq(Logged(k))
    PROVE  c \in Seq(Logged(k + 1))
<1>1. Logged(k) \subseteq Logged(k + 1)
  BY LoggedFacts
<1> DEFINE L == Logged(k)
           M == Logged(k + 1)
<1> HIDE DEF L, M
<1>2. L \subseteq M /\ c \in Seq(L)
  BY <1>1 DEF L, M
<1>3. c \in Seq(M)
  BY <1>2
<1> QED
  BY <1>3 DEF M

\* The next message makes no old file wrong.
LEMMA ChainLater ==
    ASSUME Rotating!RotatingAssumption, NEW k \in Nat, NEW d, Chain(d, k)
    PROVE  Chain(d, k + 1)
<1>1. \A c \in Seq(Logged(k)) : c \in Seq(Logged(k + 1))
  BY SeqLogged
<1>2. d \in [DOMAIN d -> Seq(Logged(k + 1))]
  <2> DEFINE A == Seq(Logged(k))
             B == Seq(Logged(k + 1))
  <2>1. d \in [DOMAIN d -> A] /\ A \subseteq B
    BY <1>1 DEF Chain
  <2> HIDE DEF A, B
  <2>2. d \in [DOMAIN d -> B]
    BY <2>1
  <2> QED
    BY <2>2 DEF B
<1> QED
  BY <1>2 DEF Chain

\* A log file takes the place of file 0.
LEMMA PutChain ==
    ASSUME NEW k \in Nat, NEW d, Chain(d, k), NEW c \in Seq(Logged(k)),
           MaxFiles \in Nat, Fits(c), Increasing(c),
           \A j \in DOMAIN d : j # 0 => Before(d[j], c)
    PROVE  Chain(Put(d, 0, c), k)
<1> DEFINE e == Put(d, 0, c)
<1>1. /\ DOMAIN e = DOMAIN d \cup {0} /\ e[0] = c
      /\ \A i \in DOMAIN d : i # 0 => e[i] = d[i]
      /\ e \in [DOMAIN d \cup {0} -> Seq(Logged(k))]
  <2> DEFINE S == Seq(Logged(k))
  <2>1. d \in [DOMAIN d -> S] /\ c \in S
    BY DEF Chain
  <2> HIDE DEF S
  <2>2. /\ DOMAIN e = DOMAIN d \cup {0} /\ e[0] = c
        /\ \A i \in DOMAIN d : i # 0 => e[i] = d[i]
        /\ e \in [DOMAIN d \cup {0} -> S]
    BY <2>1 DEF Put
  <2> QED
    BY <2>2 DEF S
<1> HIDE DEF e
<1>2. DOMAIN e \subseteq 0 .. MaxFiles
  BY <1>1 DEF Chain
<1>3. \A i \in DOMAIN e : Fits(e[i]) /\ Increasing(e[i])
  BY <1>1 DEF Chain
<1>4. ASSUME NEW i \in DOMAIN e, NEW j \in DOMAIN e, i < j
      PROVE  Before(e[j], e[i])
  <2>1. j # 0 /\ j \in DOMAIN d /\ e[j] = d[j]
    BY <1>1, <1>2, <1>4
  <2>2. CASE i = 0
    BY <1>1, <2>1, <2>2
  <2>3. CASE i # 0
    BY <1>1, <1>4, <2>1, <2>3 DEF Chain
  <2> QED
    BY <2>2, <2>3
<1>5. Chain(e, k)
  BY <1>1, <1>2, <1>3, <1>4 DEF Chain
<1> QED
  BY <1>5 DEF e

\* An empty file.
LEMMA EmptyFits ==
    ASSUME Rotating!RotatingAssumption
    PROVE  /\ Fits(<<>>) /\ Increasing(<<>>) /\ \A c : Before(c, <<>>) /\ Before(<<>>, c)
           /\ Rotating!Total(<<>>) = 0
<1>1. Rotating!Total(<<>>) = 0
  <2>1. \E p : Measures(<<>>, p) /\ Rotating!Total(<<>>) = p[0]
    <3>1. Len(<<>>) = 0 /\ DOMAIN <<>> = 1 .. 0
      OBVIOUS
    <3> QED
      BY <3>1, TotalMeasures
  <2> QED
    BY <2>1 DEF Measures
<1> QED
  BY <1>1 DEF Fits, Increasing, Before, Rotating!RotatingAssumption

\* An empty log file.
LEMMA PutEmptyChain ==
    ASSUME Rotating!RotatingAssumption, NEW k \in Nat, NEW d, Chain(d, k)
    PROVE  Chain(Put(d, 0, <<>>), k)
<1>1. <<>> \in Seq(Logged(k)) /\ MaxFiles \in Nat
  BY DEF Rotating!RotatingAssumption
<1> QED
  BY <1>1, EmptyFits, PutChain

\* The log file with the next message.
LEMMA PutNextChain ==
    ASSUME Rotating!RotatingAssumption, NEW k \in Nat, NEW d, Chain(d, k), 0 \in DOMAIN d,
           NEW m \in Logged(k + 1), m.n = k + 1, Fits(Append(d[0], m))
    PROVE  Chain(Put(d, 0, Append(d[0], m)), k + 1)
<1> DEFINE c == Append(d[0], m)
<1>1. Chain(d, k + 1) /\ d[0] \in Seq(Logged(k)) /\ d[0] \in Seq(Logged(k + 1)) /\ MaxFiles \in Nat
  <2>1. Chain(d, k + 1)
    BY ChainLater
  <2> QED
    BY <2>1 DEF Chain, Rotating!RotatingAssumption
<1>2. \A x \in Logged(k) : x.n \in 1 .. k
  BY LoggedFacts
<1>3. /\ c \in Seq(Logged(k + 1)) /\ Len(c) = Len(d[0]) + 1 /\ Len(d[0]) \in Nat
      /\ \A i \in 1 .. Len(c) : c[i] = IF i = Len(c) THEN m ELSE d[0][i]
  <2> DEFINE M == Logged(k + 1)
             a == d[0]
  <2>1. a \in Seq(M) /\ m \in M
    BY <1>1
  <2> HIDE DEF M, a
  <2>2. /\ Append(a, m) \in Seq(M) /\ Len(Append(a, m)) = Len(a) + 1 /\ Len(a) \in Nat
        /\ \A i \in 1 .. Len(a) + 1 : Append(a, m)[i] = IF i = Len(a) + 1 THEN m ELSE a[i]
    BY <2>1
  <2> QED
    BY <2>2 DEF M, a
<1>4. \A i \in 1 .. Len(c) : i # Len(c) => i \in 1 .. Len(d[0]) /\ c[i] = d[0][i] /\ c[i].n \in 1 .. k
  <2> SUFFICES ASSUME NEW i \in 1 .. Len(c), i # Len(c)
               PROVE  i \in 1 .. Len(d[0]) /\ c[i] = d[0][i] /\ c[i].n \in 1 .. k
    OBVIOUS
  <2>1. i \in 1 .. Len(d[0]) /\ c[i] = d[0][i]
    BY <1>3
  <2>2. d[0][i] \in Logged(k)
    BY <1>1, <2>1
  <2> QED
    BY <1>2, <2>1, <2>2
<1>5. Increasing(c)
  <2> HIDE DEF c
  <2> SUFFICES ASSUME NEW i \in 1 .. Len(c), NEW j \in 1 .. Len(c), i < j
               PROVE  c[i].n < c[j].n
    BY DEF Increasing
  <2>1. i # Len(c)
    BY <1>3
  <2>2. CASE j = Len(c)
    BY <1>3, <1>4, <2>1, <2>2
  <2>3. CASE j # Len(c)
    BY <1>4, <2>1, <2>3 DEF Increasing, Chain
  <2> QED
    BY <2>2, <2>3
<1>6. ASSUME NEW j \in DOMAIN d, j # 0
      PROVE  Before(d[j], c)
  <2>1. Before(d[j], d[0]) /\ d[j] \in Seq(Logged(k))
    <3>1. j \in 0 .. MaxFiles
      BY DEF Chain
    <3>2. 0 < j
      BY <1>1, <1>6, <3>1
    <3> QED
      BY <3>2 DEF Chain
  <2> HIDE DEF c
  <2> SUFFICES ASSUME NEW x \in 1 .. Len(d[j]), NEW y \in 1 .. Len(c)
               PROVE  d[j][x].n < c[y].n
    BY DEF Before
  <2>2. d[j][x].n \in 1 .. k
    <3>1. d[j][x] \in Logged(k)
      BY <2>1
    <3> QED
      BY <1>2, <3>1
  <2>3. CASE y = Len(c)
    BY <1>3, <2>2, <2>3
  <2>4. CASE y # Len(c)
    BY <1>4, <2>1, <2>4 DEF Before
  <2> QED
    BY <2>3, <2>4
<1> HIDE DEF c
<1>7. Fits(c) /\ k + 1 \in Nat
  BY DEF c
<1>8. Chain(Put(d, 0, c), k + 1)
  BY <1>1, <1>3, <1>5, <1>6, <1>7, PutChain
<1> QED
  BY <1>8 DEF c

\* The files when those that e has are some of d's, in the same order.
LEMMA ThinnedChain ==
    ASSUME NEW k \in Nat, NEW d, Chain(d, k), NEW D, D \subseteq 0 .. MaxFiles,
           NEW g, \A i \in D : g[i] \in DOMAIN d,
           \A i, j \in D : i < j => g[i] < g[j],
           NEW e, e \in [D -> Seq(Logged(k))], \A i \in D : e[i] = d[g[i]]
    PROVE  Chain(e, k)
<1>1. DOMAIN e = D /\ e \in [DOMAIN e -> Seq(Logged(k))]
  OBVIOUS
<1>2. \A i \in D : Fits(e[i]) /\ Increasing(e[i])
  BY DEF Chain
<1>3. \A i, j \in D : i < j => Before(e[j], e[i])
  BY DEF Chain
<1> QED
  BY <1>1, <1>2, <1>3 DEF Chain

\* The values of a function, when it is given by a term.
LEMMA FilesOfChain ==
    ASSUME NEW k \in Nat, NEW d, Chain(d, k)
    PROVE  \A i \in DOMAIN d : d[i] \in Seq(Logged(k)) /\ i \in 0 .. MaxFiles
<1> DEFINE S == Seq(Logged(k))
<1>1. d \in [DOMAIN d -> S] /\ DOMAIN d \subseteq 0 .. MaxFiles
  BY DEF Chain
<1> HIDE DEF S
<1>2. \A i \in DOMAIN d : d[i] \in S /\ i \in 0 .. MaxFiles
  BY <1>1
<1> QED
  BY <1>2 DEF S

\* A file less.
LEMMA RestrictChain ==
    ASSUME NEW k \in Nat, NEW d, Chain(d, k), NEW i
    PROVE  Chain(Restrict(d, DOMAIN d \ {i}), k)
<1> DEFINE e == Restrict(d, DOMAIN d \ {i})
<1>1. DOMAIN e = DOMAIN d \ {i} /\ \A j \in DOMAIN e : e[j] = d[j]
  BY DEF Restrict
<1>2. e \in [DOMAIN e -> Seq(Logged(k))]
  BY FilesOfChain DEF Restrict
<1> HIDE DEF e
<1>3. Chain(e, k)
  BY <1>1, <1>2 DEF Chain
<1> QED
  BY <1>3 DEF e

\* rotate_, up to the rename of file k or to the end, keeps the order.
LEMMA RenamedChain ==
    ASSUME NEW k \in Nat, NEW d, Chain(d, k), NEW from \in Nat, MaxFiles \in Nat
    PROVE  Chain(Rotating!Renamed(d, from), k)
<1> DEFINE moved == {i \in DOMAIN d : i >= from /\ i < MaxFiles}
           D == (DOMAIN d \ moved) \cup {i + 1 : i \in moved}
           g == [i \in D |-> IF i - 1 \in moved THEN i - 1 ELSE i]
<1>1. DOMAIN d \subseteq 0 .. MaxFiles
  BY DEF Chain
<1>2. D \subseteq 0 .. MaxFiles
  BY <1>1
<1>3. \A i \in D : g[i] = IF i - 1 \in moved THEN i - 1 ELSE i
  OBVIOUS
<1>4. \A i \in D : g[i] \in DOMAIN d
  <2> SUFFICES ASSUME NEW i \in D PROVE g[i] \in DOMAIN d
    OBVIOUS
  <2>1. CASE i \in DOMAIN d \ moved
    BY <1>3, <2>1
  <2>2. CASE \E j \in moved : i = j + 1
    <3>1. PICK j \in moved : i = j + 1
      BY <2>2
    <3>2. i - 1 = j
      BY <1>1, <3>1
    <3> QED
      BY <1>3, <3>1, <3>2
  <2> QED
    BY <2>1, <2>2
<1>5. ASSUME NEW i \in D, NEW j \in D, i < j
      PROVE  g[i] < g[j]
  <2>1. i \in Nat /\ j \in Nat
    BY <1>2
  <2>2. CASE j - 1 \in moved /\ i - 1 \notin moved
    <3>1. i \in DOMAIN d \ moved
      <4>1. ASSUME NEW x \in moved, i = x + 1 PROVE FALSE
        <5>1. i - 1 = x
          BY <1>1, <4>1
        <5> QED
          BY <2>2, <5>1
      <4> QED
        BY <4>1
    <3>2. i # j - 1
      BY <2>2, <3>1
    <3> QED
      BY <1>3, <1>5, <2>1, <2>2, <3>2
  <2>3. CASE ~ (j - 1 \in moved /\ i - 1 \notin moved)
    BY <1>3, <1>5, <2>1, <2>3
  <2> QED
    BY <2>2, <2>3
<1> DEFINE e == Rotating!Renamed(d, from)
<1>6. (\A i \in D : e[i] = d[g[i]]) /\ e \in [D -> Seq(Logged(k))]
  <2>1. \A i \in D : d[g[i]] = IF i - 1 \in moved THEN d[i - 1] ELSE d[i]
    BY <1>3
  <2>2. e = [i \in D |-> IF i - 1 \in moved THEN d[i - 1] ELSE d[i]]
    BY DEF Rotating!Renamed
  <2>3. \A i \in D : d[g[i]] \in Seq(Logged(k))
    BY <1>4, FilesOfChain
  <2> HIDE DEF g, D, moved, e
  <2> QED
    BY <2>1, <2>2, <2>3
<1> HIDE DEF g, D, e
<1>7. Chain(e, k)
  BY <1>2, <1>4, <1>5, <1>6, ThinnedChain
<1> QED
  BY <1>7 DEF e

\* The files of a rotation that stops at a rename.
LEMMA CutShortChain ==
    ASSUME NEW k \in Nat, NEW d, Chain(d, k), MaxFiles \in Nat, NEW e \in Rotating!CutShort(d)
    PROVE  Chain(e, k)
<1>1. PICK i \in 1 .. MaxFiles :
         e = Rotating!Restrict(Rotating!Renamed(d, i), DOMAIN Rotating!Renamed(d, i) \ {i})
  BY DEF Rotating!CutShort
<1> DEFINE r == Rotating!Renamed(d, i)
<1>2. Chain(r, k)
  BY RenamedChain
<1> HIDE DEF r
<1>3. e = Restrict(r, DOMAIN r \ {i})
  BY <1>1 DEF r, Rotating!Restrict, Restrict
<1> QED
  BY <1>2, <1>3, RestrictChain

-----------------------------------------------------------------------------
(* file_helper in a rotating sink                                           *)

\* The helper of a sink that was given k messages: it has file 0 open or none, and
\* its files are a chain with what is in the buffer and without.
LogFile(h, k) ==
    /\ Helper(h)
    /\ h.filename = 0 /\ h.open \in BOOLEAN /\ h.linked = h.open
    /\ h.buffer \in Seq(Logged(k)) /\ (~ h.open => h.buffer = <<>>)
    /\ Chain(h.disk, k)
    /\ Chain(Flush(h).disk, k)

\* A helper that has nothing in the buffer.
Settled(h, d, k) ==
    /\ LogFile(h, k)
    /\ h.buffer = <<>> /\ h.disk = d /\ Flush(h).disk = d
    /\ h.open => 0 \in DOMAIN d

LEMMA SettledFile ==
    ASSUME NEW k \in Nat, NEW h, Helper(h), h.filename = 0, h.open \in BOOLEAN, h.linked = h.open,
           h.buffer = <<>>, Chain(h.disk, k)
    PROVE  Settled(h, h.disk, k)
<1> DEFINE d == h.disk
<1>1. h.open => 0 \in DOMAIN d
  BY DEF Helper
<1>2. Flush(h).disk = d
  <2>1. CASE ~ h.open
    BY <2>1 DEF Flush
  <2>2. CASE h.open
    <3> DEFINE S == Seq(Logged(k))
    <3>1. d \in [DOMAIN d -> S] /\ d[0] \in Seq(Logged(k))
      BY <1>1, <2>2, FilesOfChain DEF Chain
    <3>2. d[0] \o <<>> = d[0]
      BY <3>1
    <3>3. Flush(h).disk = Put(d, 0, d[0] \o <<>>)
      BY <2>2 DEF Flush, Helper
    <3> HIDE DEF d, S
    <3>4. Put(d, 0, d[0]) = d
      BY <1>1, <2>2, <3>1 DEF Put
    <3> QED
      BY <3>2, <3>3, <3>4 DEF d
  <2> QED
    BY <2>1, <2>2
<1>3. h.buffer \in Seq(Logged(k))
  OBVIOUS
<1> QED
  BY <1>1, <1>2, <1>3 DEF Settled, LogFile

\* fflush
LEMMA FlushSettles ==
    ASSUME NEW k \in Nat, NEW h, LogFile(h, k)
    PROVE  /\ Settled(Flush(h), Flush(h).disk, k)
           /\ Flush(h).open = h.open
           /\ h.open => 0 \in DOMAIN Flush(h).disk /\ Flush(h).disk[0] = h.disk[0] \o h.buffer
<1> DEFINE g == Flush(h)
<1>1. /\ Helper(g) /\ g.filename = 0 /\ g.open = h.open /\ g.linked = g.open
  BY FlushFacts DEF LogFile
<1>2. g.buffer = <<>>
  BY DEF Flush, LogFile, Helper
<1>3. ASSUME h.open PROVE 0 \in DOMAIN g.disk /\ g.disk[0] = h.disk[0] \o h.buffer
  <2>1. 0 \in DOMAIN h.disk
    BY <1>3 DEF LogFile, Helper
  <2>2. g.disk = Put(h.disk, 0, h.disk[0] \o h.buffer)
    BY <1>3 DEF Flush, LogFile, Helper
  <2> QED
    BY <2>1, <2>2 DEF Put
<1>4. Chain(g.disk, k) /\ g.open \in BOOLEAN
  BY <1>1 DEF LogFile
<1> HIDE DEF g
<1>5. Settled(g, g.disk, k)
  BY <1>1, <1>2, <1>4, SettledFile
<1> QED
  BY <1>1, <1>3, <1>5 DEF g

\* close
LEMMA CloseSettles ==
    ASSUME NEW k \in Nat, NEW h, LogFile(h, k)
    PROVE  Settled(Close(h), Flush(h).disk, k) /\ ~ Close(h).open
<1> DEFINE f == Flush(h)
           g == Close(h)
<1>1. LogFile(f, k) /\ f.buffer = <<>>
  BY FlushSettles DEF Settled
<1> HIDE DEF f
<1>2. /\ g.disk = f.disk /\ g.filename = 0 /\ g.open = FALSE /\ g.linked = FALSE
      /\ g.buffer = <<>> /\ Helper(g) /\ Chain(f.disk, k)
  <2>1. g = [f EXCEPT !.open = FALSE, !.linked = FALSE]
    BY DEF f, Close
  <2> HIDE DEF g
  <2> QED
    BY <1>1, <2>1 DEF LogFile, Helper
<1> HIDE DEF g
<1>3. Settled(g, g.disk, k)
  BY <1>2, SettledFile
<1> QED
  BY <1>2, <1>3 DEF f, g

\* A closed helper, over other files.
LEMMA ReplacedSettles ==
    ASSUME NEW k \in Nat, NEW h, LogFile(h, k), ~ h.open, NEW d, Chain(d, k)
    PROVE  LET g == [h EXCEPT !.disk = d] IN Settled(g, d, k) /\ ~ g.open
<1> DEFINE g == [h EXCEPT !.disk = d]
<1>1. /\ g.disk = d /\ g.filename = 0 /\ g.open = FALSE /\ g.linked = FALSE
      /\ g.buffer = <<>> /\ Helper(g)
  BY DEF LogFile, Helper
<1> HIDE DEF g
<1>2. Settled(g, g.disk, k)
  BY <1>1, SettledFile
<1> QED
  BY <1>1, <1>2 DEF g

\* open, when it succeeds.
LEMMA OpenSettles ==
    ASSUME Rotating!RotatingAssumption, NEW k \in Nat, NEW h, LogFile(h, k), NEW truncate \in BOOLEAN
    PROVE  LET g == Open(h, 0, truncate)
               d == Flush(h).disk
               e == IF ~ truncate /\ 0 \in DOMAIN d THEN d ELSE Put(d, 0, <<>>)
           IN  Settled(g, e, k) /\ g.open
<1> DEFINE d == Flush(h).disk
           e == IF ~ truncate /\ 0 \in DOMAIN d THEN d ELSE Put(d, 0, <<>>)
           g == Open(h, 0, truncate)
           c == Close(h)
<1>1. c.disk = d /\ LogFile(c, k) /\ c.buffer = <<>> /\ Chain(d, k)
  BY CloseSettles DEF Settled, LogFile
<1> HIDE DEF c, d
<1>2. Put(d, 0, IF truncate \/ 0 \notin DOMAIN d THEN <<>> ELSE d[0]) = e
  <2>1. CASE ~ truncate /\ 0 \in DOMAIN d
    <3> DEFINE S == Seq(Logged(k))
    <3>1. d \in [DOMAIN d -> S]
      BY <1>1 DEF Chain
    <3> HIDE DEF S
    <3> QED
      BY <2>1, <3>1 DEF Put
  <2>2. CASE ~ (~ truncate /\ 0 \in DOMAIN d)
    BY <2>2
  <2> QED
    BY <2>1, <2>2
<1>3. Chain(e, k)
  BY <1>1, PutEmptyChain
<1>4. 0 \in DOMAIN e
  BY DEF Put
<1> HIDE DEF e
<1>5. /\ g.disk = e /\ g.filename = 0 /\ g.open = TRUE /\ g.linked = TRUE
      /\ g.buffer = <<>> /\ Helper(g)
  <2>1. g = [c EXCEPT !.filename = 0, !.open = TRUE, !.linked = TRUE, !.disk = e]
    BY <1>1, <1>2 DEF Open, c
  <2> HIDE DEF g
  <2> QED
    BY <1>1, <1>4, <2>1 DEF LogFile, Helper
<1> HIDE DEF g
<1>6. Settled(g, g.disk, k)
  BY <1>3, <1>5, SettledFile
<1> QED
  BY <1>5, <1>6 DEF g, e, d

\* open with truncate, when it throws.
LEMMA OpenFailureSettles ==
    ASSUME Rotating!RotatingAssumption, NEW k \in Nat, NEW h, LogFile(h, k),
           NEW g \in OpenFailures(h, 0, TRUE)
    PROVE  LogFile(g, k) /\ ~ g.open
<1> DEFINE b == Close(h)
           c == [b EXCEPT !.filename = 0]
           e == [c EXCEPT !.disk = Put(c.disk, 0, <<>>)]
<1>1. LogFile(b, k) /\ ~ b.open /\ b.buffer = <<>>
  BY CloseSettles DEF Settled
<1>2. g = c \/ g = e
  BY DEF OpenFailures
<1> HIDE DEF b
<1>3. /\ c.disk = b.disk /\ c.filename = 0 /\ c.open = FALSE /\ c.linked = FALSE
      /\ c.buffer = <<>> /\ Helper(c)
  BY <1>1 DEF LogFile, Helper
<1> HIDE DEF c
<1>4. Chain(c.disk, k)
  BY <1>1, <1>3 DEF LogFile
<1>5. Settled(c, c.disk, k)
  BY <1>3, <1>4, SettledFile
<1>6. Chain(Put(c.disk, 0, <<>>), k)
  BY <1>4, PutEmptyChain
<1>7. Settled(e, Put(c.disk, 0, <<>>), k) /\ ~ e.open
  BY <1>3, <1>5, <1>6, ReplacedSettles DEF Settled
<1> HIDE DEF e
<1> QED
  BY <1>2, <1>3, <1>5, <1>7 DEF Settled

\* The sink's file_helper is the same as that of the timed sinks.
LEMMA SameHelper ==
    /\ \A d, x, c : Rotating!Put(d, x, c) = Put(d, x, c)
    /\ \A h : Rotating!Flush(h) = Flush(h)
    /\ \A h : Rotating!Close(h) = Close(h)
    /\ \A h, x, t : Rotating!Open(h, x, t) = Open(h, x, t)
    /\ \A h, x, t : Rotating!OpenFailures(h, x, t) = OpenFailures(h, x, t)
    /\ \A h, m : Rotating!Writes(h, m) = Writes(h, m)
    /\ \A h : Rotating!OnDisk(h) = OnDisk(h)
<1>1. \A d, x, c : Rotating!Put(d, x, c) = Put(d, x, c)
  BY DEF Rotating!Put, Put
<1>2. \A h : Rotating!Flush(h) = Flush(h)
  BY <1>1 DEF Rotating!Flush, Flush
<1>3. \A h : Rotating!Close(h) = Close(h)
  BY <1>2 DEF Rotating!Close, Close
<1>4. \A h, x, t : Rotating!Open(h, x, t) = Open(h, x, t)
  BY <1>1, <1>3 DEF Rotating!Open, Open
<1>5. \A h, x, t : Rotating!OpenFailures(h, x, t) = OpenFailures(h, x, t)
  BY <1>1, <1>3 DEF Rotating!OpenFailures, OpenFailures
<1>6. \A h, m : Rotating!Writes(h, m) = Writes(h, m)
  BY <1>2 DEF Rotating!Writes, Writes
<1>7. \A h : Rotating!OnDisk(h) = OnDisk(h)
  BY DEF Rotating!OnDisk, OnDisk
<1> QED
  BY <1>1, <1>2, <1>3, <1>4, <1>5, <1>6, <1>7

\* rotate_: the files move up, and the log file is a new one.
LEMMA RotatedSettles ==
    ASSUME Rotating!RotatingAssumption, NEW k \in Nat, NEW h, LogFile(h, k)
    PROVE  /\ Settled(Rotating!Rotated(h), Put(Rotating!Renamed(Flush(h).disk, 0), 0, <<>>), k)
           /\ Rotating!Rotated(h).open
<1> DEFINE c == Close(h)
           d == Rotating!Renamed(c.disk, 0)
           g == [c EXCEPT !.disk = d]
           r == Open(g, 0, TRUE)
<1>1. LogFile(c, k) /\ ~ c.open /\ c.disk = Flush(h).disk /\ Chain(c.disk, k)
  BY CloseSettles DEF Settled, LogFile
<1>2. Rotating!Rotated(h) = r
  BY SameHelper DEF Rotating!Rotated
<1>3. MaxFiles \in Nat
  BY DEF Rotating!RotatingAssumption
<1> HIDE DEF c
<1>4. Chain(d, k)
  BY <1>1, <1>3, RenamedChain
<1> HIDE DEF d
<1>5. LogFile(g, k) /\ Flush(g).disk = d
  BY <1>1, <1>4, ReplacedSettles DEF Settled
<1> HIDE DEF g
<1>6. Settled(r, Put(d, 0, <<>>), k) /\ r.open
  BY <1>5, OpenSettles
<1> QED
  BY <1>1, <1>2, <1>6 DEF d

\* rotate_, when it throws: the log file is empty if there is one.
LEMMA RotationFailureSettles ==
    ASSUME Rotating!RotatingAssumption, NEW k \in Nat, NEW h, LogFile(h, k),
           NEW r \in Rotating!RotationFailures(h)
    PROVE  /\ LogFile(r.file, k)
           /\ r.size \in {0, current_size_}
           /\ r.file.open => 0 \in DOMAIN Flush(r.file).disk /\ Flush(r.file).disk[0] = <<>>
<1> DEFINE c == Close(h)
           with(d) == [c EXCEPT !.disk = d]
<1>1. LogFile(c, k) /\ ~ c.open /\ Chain(c.disk, k)
  BY CloseSettles DEF Settled, LogFile
<1>2. MaxFiles \in Nat
  BY DEF Rotating!RotatingAssumption
<1>3. \/ \E d \in Rotating!CutShort(c.disk) :
            r = [file |-> Open(with(d), 0, TRUE), size |-> 0]
      \/ \E d \in Rotating!CutShort(c.disk) \cup {Rotating!Renamed(c.disk, 0)} :
            \E f \in OpenFailures(with(d), 0, TRUE) : r = [file |-> f, size |-> current_size_]
  BY SameHelper DEF Rotating!RotationFailures
<1> HIDE DEF c
<1>4. \A d \in Rotating!CutShort(c.disk) \cup {Rotating!Renamed(c.disk, 0)} : Chain(d, k)
  BY <1>1, <1>2, RenamedChain, CutShortChain
<1>5. ASSUME NEW d, Chain(d, k)
      PROVE  LogFile(with(d), k)
  BY <1>1, <1>5, ReplacedSettles DEF Settled
<1> HIDE DEF with
<1>6. ASSUME NEW d \in Rotating!CutShort(c.disk),
             r = [file |-> Open(with(d), 0, TRUE), size |-> 0]
      PROVE  /\ LogFile(r.file, k) /\ r.size = 0
             /\ 0 \in DOMAIN Flush(r.file).disk /\ Flush(r.file).disk[0] = <<>>
  <2> DEFINE g == Open(with(d), 0, TRUE)
             e == Put(Flush(with(d)).disk, 0, <<>>)
  <2>1. LogFile(with(d), k)
    BY <1>4, <1>5
  <2>2. Settled(g, e, k)
    BY <2>1, OpenSettles
  <2>3. 0 \in DOMAIN e /\ e[0] = <<>>
    BY DEF Put
  <2>4. r.file = g /\ r.size = 0
    BY <1>6
  <2> HIDE DEF g, e
  <2> QED
    BY <2>2, <2>3, <2>4 DEF Settled
<1>7. ASSUME NEW d \in Rotating!CutShort(c.disk) \cup {Rotating!Renamed(c.disk, 0)},
             NEW f \in OpenFailures(with(d), 0, TRUE), r = [file |-> f, size |-> current_size_]
      PROVE  LogFile(r.file, k) /\ ~ r.file.open /\ r.size = current_size_
  <2>1. LogFile(with(d), k)
    BY <1>4, <1>5
  <2> QED
    BY <1>7, <2>1, OpenFailureSettles
<1> QED
  BY <1>3, <1>6, <1>7

\* write, when there is a file and room for the message.
LEMMA WritesKeep ==
    ASSUME Rotating!RotatingAssumption, NEW k \in Nat, NEW h, LogFile(h, k), h.open,
           NEW m \in Logged(k + 1), m.n = k + 1, Fits(Append(Flush(h).disk[0], m)),
           NEW g \in Writes(h, m)
    PROVE  /\ LogFile(g, k + 1) /\ g.open
           /\ Flush(g).disk = Put(Flush(h).disk, 0, Append(Flush(h).disk[0], m))
<1> DEFINE b == Append(h.buffer, m)
           w == [h EXCEPT !.buffer = b]
<1>1. g = w \/ g = Flush(w)
  BY DEF Writes
<1> DEFINE d == Flush(h).disk
           e == Put(d, 0, Append(d[0], m))
<1>2. /\ 0 \in DOMAIN d /\ d[0] = h.disk[0] \o h.buffer
      /\ d = Put(h.disk, 0, h.disk[0] \o h.buffer)
      /\ 0 \in DOMAIN h.disk
  <2>1. d = Put(h.disk, 0, h.disk[0] \o h.buffer) /\ 0 \in DOMAIN h.disk
    BY DEF Flush, LogFile, Helper
  <2> QED
    BY <2>1, FlushSettles
<1>3. /\ h.buffer \in Seq(Logged(k + 1)) /\ h.disk[0] \in Seq(Logged(k + 1))
  BY <1>2, SeqLogged, FilesOfChain DEF LogFile
<1>4. /\ b \in Seq(Logged(k + 1))
      /\ h.disk[0] \o b = Append(d[0], m)
  <2> DEFINE M == Logged(k + 1)
             s == h.disk[0]
             t == h.buffer
  <2>1. s \in Seq(M) /\ t \in Seq(M) /\ m \in M
    BY <1>3
  <2> HIDE DEF M, s, t
  <2>2. Append(t, m) \in Seq(M) /\ s \o Append(t, m) = Append(s \o t, m)
    BY <2>1
  <2> QED
    BY <1>2, <2>2 DEF M, s, t
<1>5. Chain(e, k + 1) /\ Chain(h.disk, k + 1)
  BY <1>2, PutNextChain, ChainLater DEF LogFile
<1>6. /\ w.disk = h.disk /\ w.buffer = b /\ w.open = h.open /\ w.linked = h.linked
      /\ w.filename = h.filename /\ Helper(w)
  BY DEF Helper, LogFile
<1> HIDE DEF w, b
<1>7. Flush(w).disk = e
  <2>1. Flush(w).disk = Put(h.disk, 0, Append(d[0], m))
    BY <1>4, <1>6 DEF Flush, LogFile, Helper
  <2>2. Put(h.disk, 0, Append(d[0], m)) = Put(Put(h.disk, 0, h.disk[0] \o h.buffer), 0, Append(d[0], m))
    BY DEF Put
  <2> QED
    BY <1>2, <2>1, <2>2
<1> HIDE DEF e, d
<1>8. LogFile(w, k + 1) /\ w.open
  BY <1>4, <1>5, <1>6, <1>7 DEF LogFile
<1>9. /\ LogFile(Flush(w), k + 1) /\ Flush(w).open /\ Flush(Flush(w)).disk = e
  <2>1. k + 1 \in Nat
    OBVIOUS
  <2> QED
    BY <1>7, <1>8, <2>1, FlushSettles DEF Settled
<1> QED
  BY <1>1, <1>7, <1>8, <1>9 DEF e, d

LEMMA LogFileLater ==
    ASSUME Rotating!RotatingAssumption, NEW k \in Nat, NEW h, LogFile(h, k)
    PROVE  LogFile(h, k + 1)
  BY ChainLater, SeqLogged DEF LogFile

-----------------------------------------------------------------------------
(* The invariant of a rotating sink                                         *)

\* The size of the log file with what is in the buffer.
LogSize(h) == Rotating!Total(Flush(h).disk[0])

\* current_size_ may be more than the log file has, after a write that threw or a
\* rotation that somebody asked for, and never less.
RotatingInv ==
    /\ current_size_ \in Nat /\ sent \in Nat
    /\ LogFile(log, sent)
    /\ log.open => current_size_ >= LogSize(log)
    /\ log_running /\ ~ troubled /\ ~ asked => log.open /\ current_size_ = LogSize(log)

\* How a step changes the files, unless something failed.
FilesMove ==
    LET d == Flush(log).disk
        e == Flush(log').disk
        r == Put(Rotating!Renamed(d, 0), 0, <<>>)
    IN  \/ troubled'
        \/ e = d
        \/ 0 \notin DOMAIN d /\ e = Put(d, 0, <<>>)
        \/ 0 \in DOMAIN d /\ \E m \in Logged(sent + 1) : e = Put(d, 0, Append(d[0], m))
        \/ asked' /\ e = r
        \/ \E m \in Logged(sent + 1) :
              /\ e = Put(r, 0, <<m>>)
              /\ asked' \/ (0 \in DOMAIN d /\ Rotating!Total(d[0]) + m.size > MaxSize)

\* The size of the log file.
LEMMA LogSizeIsNat ==
    ASSUME Rotating!RotatingAssumption, NEW k \in Nat, NEW h, LogFile(h, k), h.open
    PROVE  LogSize(h) \in Nat
<1> DEFINE M == Logged(k)
<1>1. Flush(h).disk[0] \in Seq(M) /\ \A x \in M : x.size \in Nat
  BY FlushSettles, FilesOfChain, LoggedFacts DEF LogFile
<1> HIDE DEF M
<1> QED
  BY <1>1, TotalIsNat DEF LogSize

\* The log file with a message more.
LEMMA SizeOfNext ==
    ASSUME Rotating!RotatingAssumption, NEW k \in Nat, NEW h, LogFile(h, k), h.open,
           NEW m \in Logged(k + 1)
    PROVE  /\ LogSize(h) \in Nat
           /\ Rotating!Total(Append(Flush(h).disk[0], m)) = LogSize(h) + m.size
<1> DEFINE a == Flush(h).disk[0]
           M == Logged(k + 1)
<1>1. a \in Seq(Logged(k))
  BY FlushSettles, FilesOfChain DEF LogFile
<1>2. a \in Seq(M) /\ \A x \in M : x.size \in Nat
  <2>1. k + 1 \in Nat
    OBVIOUS
  <2> QED
    BY <1>1, <2>1, SeqLogged, LoggedFacts
<1> HIDE DEF a, M
<1>3. m \in M
  BY DEF M
<1>4. Rotating!Total(a) \in Nat /\ Rotating!Total(Append(a, m)) = Rotating!Total(a) + m.size
  BY <1>2, <1>3, TotalFacts
<1> QED
  BY <1>4 DEF a, LogSize

\* The end of sink_it_: the message is written, or there is no file, or write throws.
LEMMA WriteToKeeps ==
    ASSUME Rotating!RotatingAssumption, NEW k \in Nat, NEW h, LogFile(h, k),
           NEW m \in Logged(k + 1), m.n = k + 1, NEW new_size,
           h.open => Fits(Append(Flush(h).disk[0], m)),
           Rotating!WriteTo(h, m, new_size)
    PROVE  /\ LogFile(log', k + 1)
           /\ \/ /\ h.open /\ log'.open /\ current_size_' = new_size /\ troubled' = troubled
                 /\ Flush(log').disk = Put(Flush(h).disk, 0, Append(Flush(h).disk[0], m))
                 /\ LogSize(log') = LogSize(h) + m.size
              \/ ~ h.open /\ log' = h /\ current_size_' = new_size /\ troubled' = troubled
              \/ log' = h /\ current_size_' = current_size_ /\ troubled'
<1>1. \/ log' \in Writes(h, m) /\ current_size_' = new_size /\ troubled' = troubled
      \/ h.open /\ log' = h /\ current_size_' = current_size_ /\ troubled'
  BY SameHelper DEF Rotating!WriteTo, Rotating!Fail
<1>2. LogFile(h, k + 1)
  BY LogFileLater
<1>3. CASE h.open /\ log' \in Writes(h, m) /\ current_size_' = new_size /\ troubled' = troubled
  <2> DEFINE d == Flush(h).disk
             a == Append(d[0], m)
  <2>1. LogFile(log', k + 1) /\ log'.open /\ Flush(log').disk = Put(d, 0, a)
    BY <1>3, WritesKeep
  <2>2. Put(d, 0, a)[0] = a
    BY DEF Put
  <2>3. Rotating!Total(a) = LogSize(h) + m.size
    BY <1>3, SizeOfNext
  <2> QED
    BY <1>3, <2>1, <2>2, <2>3 DEF LogSize
<1>4. CASE ~ h.open /\ log' \in Writes(h, m) /\ current_size_' = new_size /\ troubled' = troubled
  BY <1>2, <1>4 DEF Writes
<1> QED
  BY <1>1, <1>2, <1>3, <1>4

\* sink_it_
LEMMA SinkKeeps ==
    ASSUME Rotating!RotatingAssumption, RotatingInv, Rotating!SinkIt
    PROVE  RotatingInv' /\ FilesMove
<1>1. PICK size \in Sizes : Rotating!Sink([n |-> sent + 1, size |-> size])
  BY DEF Rotating!SinkIt
<1> DEFINE m == [n |-> sent + 1, size |-> size]
           new_size == current_size_ + m.size
           flushed == Flush(log)
           d == Flush(log).disk
           k == sent
<1>2. /\ k \in Nat /\ current_size_ \in Nat /\ LogFile(log, k) /\ MaxSize \in Nat
      /\ log_running /\ sent' = k + 1 /\ log_running' = log_running /\ asked' = asked
      /\ (log.open => current_size_ >= LogSize(log))
      /\ (~ troubled /\ ~ asked => log.open /\ current_size_ = LogSize(log))
  BY DEF RotatingInv, Rotating!SinkIt, Rotating!RotatingAssumption
<1>3. m \in Logged(k + 1) /\ m.n = k + 1 /\ m.size \in Nat /\ new_size \in Nat
  <2>1. k + 1 \in Nat
    BY <1>2
  <2>2. m \in Logged(k + 1) /\ m.n = k + 1
    BY <1>2, LoggedFacts
  <2> HIDE DEF m
  <2>3. m.size \in Nat
    BY <2>1, <2>2, LoggedFacts
  <2> QED
    BY <1>2, <2>2, <2>3
<1>4. \/ new_size <= MaxSize /\ Rotating!WriteTo(log, m, new_size)
      \/ /\ new_size > MaxSize /\ log.open
         /\ \/ OnDisk(flushed) = <<>> /\ Rotating!WriteTo(flushed, m, new_size)
            \/ Rotating!WriteTo(Rotating!Rotated(flushed), m, m.size)
            \/ /\ \E r \in Rotating!RotationFailures(flushed) :
                     log' = r.file /\ current_size_' = r.size
               /\ troubled'
      \/ log' = log /\ current_size_' = current_size_ /\ troubled'
  BY <1>1, SameHelper DEF Rotating!Sink, Rotating!Fail
<1> HIDE DEF m
<1>5. LogFile(log, k + 1) /\ (log.open => LogSize(log) \in Nat)
  BY <1>2, <1>3, LogFileLater, SizeOfNext
<1>6. /\ LogFile(flushed, k) /\ Flush(flushed).disk = d /\ LogSize(flushed) = LogSize(log)
      /\ flushed.open = log.open
      /\ log.open => OnDisk(flushed) = d[0] /\ 0 \in DOMAIN d
  <2>1. LogFile(flushed, k) /\ Flush(flushed).disk = d /\ flushed.open = log.open
    BY <1>2, FlushSettles DEF Settled
  <2>2. ASSUME log.open PROVE OnDisk(flushed) = d[0] /\ 0 \in DOMAIN d
    BY <2>1, <2>2, <1>2, FlushSettles DEF OnDisk, LogFile
  <2> QED
    BY <2>1, <2>2 DEF LogSize
<1>7. ASSUME NEW h, LogFile(h, k), Flush(h).disk = d, LogSize(h) = LogSize(log), h.open = log.open,
             log.open => Fits(Append(d[0], m)) /\ 0 \in DOMAIN d,
             Rotating!WriteTo(h, m, new_size)
      PROVE  RotatingInv' /\ FilesMove
  <2>1. /\ LogFile(log', k + 1)
        /\ \/ /\ log.open /\ log'.open /\ current_size_' = new_size /\ troubled' = troubled
              /\ Flush(log').disk = Put(d, 0, Append(d[0], m))
              /\ LogSize(log') = LogSize(log) + m.size
           \/ ~ log.open /\ log' = h /\ current_size_' = new_size /\ troubled' = troubled
           \/ log' = h /\ current_size_' = current_size_ /\ troubled'
    BY <1>2, <1>3, <1>7, WriteToKeeps
  <2> HIDE DEF d, flushed
  <2>2. RotatingInv'
    BY <1>2, <1>3, <1>5, <1>7, <2>1 DEF RotatingInv
  <2>3. FilesMove
    BY <1>3, <1>7, <2>1 DEF FilesMove, d
  <2> QED
    BY <2>2, <2>3
<1>8. CASE new_size <= MaxSize /\ Rotating!WriteTo(log, m, new_size)
  <2>1. ASSUME log.open PROVE Fits(Append(d[0], m)) /\ 0 \in DOMAIN d
    <3>1. Rotating!Total(Append(d[0], m)) = LogSize(log) + m.size /\ LogSize(log) \in Nat
      BY <1>2, <1>3, <2>1, SizeOfNext
    <3>2. Rotating!Total(Append(d[0], m)) <= MaxSize
      BY <1>2, <1>3, <1>8, <2>1, <3>1
    <3> QED
      BY <1>6, <2>1, <3>2 DEF Fits
  <2> QED
    BY <1>2, <1>7, <1>8, <2>1
<1>9. CASE OnDisk(flushed) = <<>> /\ log.open /\ Rotating!WriteTo(flushed, m, new_size)
  <2>1. d[0] = <<>> /\ 0 \in DOMAIN d
    BY <1>6, <1>9
  <2>2. Fits(Append(d[0], m))
    BY <2>1 DEF Fits
  <2> QED
    BY <1>6, <1>7, <1>9, <2>1, <2>2
<1>10. CASE new_size > MaxSize /\ log.open /\ Rotating!WriteTo(Rotating!Rotated(flushed), m, m.size)
  <2> DEFINE h == Rotating!Rotated(flushed)
             r == Put(Rotating!Renamed(d, 0), 0, <<>>)
  <2>1. LogFile(h, k) /\ Flush(h).disk = r /\ h.open
    BY <1>2, <1>6, RotatedSettles DEF Settled
  <2>2. r[0] = <<>> /\ LogSize(h) = 0
    BY <2>1, EmptyFits DEF Put, LogSize
  <2> HIDE DEF h, r
  <2>3. Append(r[0], m) = <<m>>
    BY <2>2
  <2>4. Fits(<<m>>)
    BY DEF Fits
  <2>5. /\ LogFile(log', k + 1)
        /\ \/ /\ log'.open /\ current_size_' = m.size /\ troubled' = troubled
              /\ Flush(log').disk = Put(r, 0, <<m>>)
              /\ LogSize(log') = m.size
           \/ log' = h /\ current_size_' = current_size_ /\ troubled'
    <3>1. Fits(Append(Flush(h).disk[0], m)) /\ Rotating!WriteTo(h, m, m.size)
      BY <1>10, <2>1, <2>3, <2>4 DEF h
    <3>2. /\ LogFile(log', k + 1)
          /\ \/ /\ log'.open /\ current_size_' = m.size /\ troubled' = troubled
                /\ Flush(log').disk = Put(Flush(h).disk, 0, Append(Flush(h).disk[0], m))
                /\ LogSize(log') = LogSize(h) + m.size
             \/ log' = h /\ current_size_' = current_size_ /\ troubled'
      BY <1>2, <1>3, <2>1, <3>1, WriteToKeeps
    <3> QED
      BY <1>3, <2>1, <2>2, <2>3, <3>2
  <2>6. RotatingInv'
    BY <1>2, <1>3, <2>1, <2>2, <2>5 DEF RotatingInv
  <2>7. ASSUME ~ troubled', ~ asked' PROVE 0 \in DOMAIN d /\ Rotating!Total(d[0]) + m.size > MaxSize
    BY <1>2, <1>6, <1>10, <2>5, <2>7 DEF LogSize
  <2>8. FilesMove
    BY <1>3, <2>5, <2>7 DEF FilesMove, r
  <2> QED
    BY <2>6, <2>8
<1>11. CASE troubled' /\ \E r \in Rotating!RotationFailures(flushed) : log' = r.file /\ current_size_' = r.size
  <2>1. PICK r \in Rotating!RotationFailures(flushed) : log' = r.file /\ current_size_' = r.size
    BY <1>11
  <2>2. /\ LogFile(r.file, k) /\ r.size \in {0, current_size_}
        /\ r.file.open => Flush(r.file).disk[0] = <<>>
    BY <1>2, <1>6, RotationFailureSettles
  <2>3. LogFile(log', k + 1) /\ current_size_' \in Nat /\ (log'.open => LogSize(log') = 0)
    BY <1>2, <2>1, <2>2, LogFileLater, EmptyFits DEF LogSize
  <2>4. RotatingInv'
    BY <1>2, <1>11, <2>3 DEF RotatingInv
  <2> QED
    BY <1>11, <2>4 DEF FilesMove
<1>12. CASE log' = log /\ current_size_' = current_size_ /\ troubled'
  <2>1. RotatingInv'
    BY <1>2, <1>5, <1>12 DEF RotatingInv
  <2> QED
    BY <1>12, <2>1 DEF FilesMove
<1> QED
  BY <1>4, <1>8, <1>9, <1>10, <1>11, <1>12

\* rotate_now
LEMMA RotateNowKeeps ==
    ASSUME Rotating!RotatingAssumption, RotatingInv, Rotating!RotateNow
    PROVE  RotatingInv' /\ FilesMove
<1>1. /\ sent \in Nat /\ current_size_ \in Nat /\ LogFile(log, sent) /\ sent' = sent
      /\ log_running /\ log_running' /\ asked'
  BY DEF RotatingInv, Rotating!RotateNow
<1>2. \/ log' = Rotating!Rotated(log) /\ current_size_' = current_size_
      \/ /\ \E r \in Rotating!RotationFailures(log) : log' = r.file /\ current_size_' = r.size
         /\ troubled'
  BY DEF Rotating!RotateNow, Rotating!Fail
<1>3. CASE log' = Rotating!Rotated(log) /\ current_size_' = current_size_
  <2> DEFINE h == Rotating!Rotated(log)
             r == Put(Rotating!Renamed(Flush(log).disk, 0), 0, <<>>)
  <2>1. LogFile(h, sent) /\ Flush(h).disk = r /\ h.open
    BY <1>1, RotatedSettles DEF Settled
  <2>2. LogSize(h) = 0
    BY <2>1, EmptyFits DEF Put, LogSize
  <2> HIDE DEF h, r
  <2>3. log' = h
    BY <1>3 DEF h
  <2>4. RotatingInv'
    BY <1>1, <1>3, <2>1, <2>2, <2>3 DEF RotatingInv
  <2>5. FilesMove
    BY <1>1, <2>1, <2>3 DEF FilesMove, r
  <2> QED
    BY <2>4, <2>5
<1>4. CASE troubled' /\ \E r \in Rotating!RotationFailures(log) : log' = r.file /\ current_size_' = r.size
  <2>1. PICK r \in Rotating!RotationFailures(log) : log' = r.file /\ current_size_' = r.size
    BY <1>4
  <2>2. /\ LogFile(r.file, sent) /\ r.size \in {0, current_size_}
        /\ r.file.open => Flush(r.file).disk[0] = <<>>
    BY <1>1, RotationFailureSettles
  <2>3. current_size_' \in Nat /\ (log'.open => LogSize(log') = 0)
    BY <1>1, <2>1, <2>2, EmptyFits DEF LogSize
  <2>4. RotatingInv'
    BY <1>1, <1>4, <2>1, <2>2, <2>3 DEF RotatingInv
  <2> QED
    BY <1>4, <2>4 DEF FilesMove
<1> QED
  BY <1>2, <1>3, <1>4

\* flush_, and the end of the sink.
LEMMA FlushOrStopKeeps ==
    ASSUME Rotating!RotatingAssumption, RotatingInv, Rotating!FlushIt \/ Rotating!Stop
    PROVE  RotatingInv' /\ FilesMove
<1>1. sent \in Nat /\ LogFile(log, sent) /\ UNCHANGED <<current_size_, sent, troubled, asked>>
  BY DEF RotatingInv, Rotating!FlushIt, Rotating!Stop
<1>2. CASE Rotating!FlushIt
  <2>1. /\ log' = Flush(log) /\ LogFile(log', sent) /\ Flush(log').disk = Flush(log).disk
        /\ log'.open = log.open /\ log_running' = log_running
    BY <1>1, <1>2, FlushSettles, SameHelper DEF Settled, Rotating!FlushIt
  <2>2. LogSize(log') = LogSize(log)
    BY <2>1 DEF LogSize
  <2> QED
    BY <1>1, <2>1, <2>2 DEF RotatingInv, FilesMove
<1>3. CASE Rotating!Stop
  <2>1. /\ LogFile(log', sent) /\ Flush(log').disk = Flush(log).disk
        /\ ~ log'.open /\ ~ log_running'
    BY <1>1, <1>3, CloseSettles, SameHelper DEF Settled, Rotating!Stop
  <2> QED
    BY <1>1, <2>1 DEF RotatingInv, FilesMove
<1> QED
  BY <1>2, <1>3

\* The constructor.
LEMMA RotatingStartKeeps ==
    ASSUME Rotating!RotatingAssumption, RotatingInv, Rotating!Start
    PROVE  RotatingInv' /\ FilesMove
<1> DEFINE fresh == Open(log, 0, FALSE)
           size == Rotating!Total(OnDisk(fresh))
           d == Flush(log).disk
           e == IF 0 \in DOMAIN d THEN d ELSE Put(d, 0, <<>>)
<1>1. /\ sent \in Nat /\ current_size_ \in Nat /\ LogFile(log, sent) /\ sent' = sent
      /\ ~ log_running
  BY DEF RotatingInv, Rotating!Start
<1>2. \/ /\ log' = fresh /\ current_size_' = size /\ log_running'
         /\ asked' = asked /\ troubled' = troubled
      \/ size > 0 /\ log' = Rotating!Rotated(fresh) /\ current_size_' = 0 /\ asked'
      \/ /\ \E r \in Rotating!RotationFailures(fresh) : log' = Close(r.file)
         /\ current_size_' = current_size_ /\ log_running' = log_running /\ troubled'
  BY SameHelper DEF Rotating!Start, Rotating!Fail
<1>3. LogFile(fresh, sent) /\ fresh.disk = e /\ Flush(fresh).disk = e /\ fresh.open
  BY <1>1, OpenSettles DEF Settled
<1> HIDE DEF fresh, e, d
<1>4. size = LogSize(fresh) /\ size \in Nat
  <2>1. OnDisk(fresh) = e[0]
    BY <1>3 DEF OnDisk, LogFile
  <2>2. size = LogSize(fresh)
    BY <1>3, <2>1 DEF LogSize
  <2> QED
    BY <1>1, <1>3, <2>2, LogSizeIsNat
<1>5. size > 0 => e = d
  <2>1. 0 \notin DOMAIN d => e[0] = <<>>
    BY DEF e, Put
  <2>2. 0 \notin DOMAIN d => size = 0
    BY <1>3, <1>4, <2>1, EmptyFits DEF LogSize
  <2> QED
    BY <2>2 DEF e
<1> HIDE DEF size
<1>6. CASE /\ log' = fresh /\ current_size_' = size /\ log_running'
           /\ asked' = asked /\ troubled' = troubled
  <2>1. RotatingInv'
    BY <1>1, <1>3, <1>4, <1>6 DEF RotatingInv
  <2>2. Flush(log').disk = e
    BY <1>3, <1>6
  <2>3. e = d \/ (0 \notin DOMAIN d /\ e = Put(d, 0, <<>>))
    BY DEF e
  <2> QED
    BY <2>1, <2>2, <2>3 DEF FilesMove, d
<1>7. CASE size > 0 /\ log' = Rotating!Rotated(fresh) /\ current_size_' = 0 /\ asked'
  <2> DEFINE h == Rotating!Rotated(fresh)
             r == Put(Rotating!Renamed(d, 0), 0, <<>>)
  <2>1. LogFile(h, sent) /\ Flush(h).disk = r /\ h.open
    BY <1>1, <1>3, <1>5, <1>7, RotatedSettles DEF Settled
  <2>2. LogSize(h) = 0
    BY <2>1, EmptyFits DEF Put, LogSize
  <2> HIDE DEF h, r
  <2>3. log' = h
    BY <1>7 DEF h
  <2>4. RotatingInv'
    BY <1>1, <1>7, <2>1, <2>2, <2>3 DEF RotatingInv
  <2>5. FilesMove
    BY <1>7, <2>1, <2>3 DEF FilesMove, r, d
  <2> QED
    BY <2>4, <2>5
<1>8. CASE /\ \E r \in Rotating!RotationFailures(fresh) : log' = Close(r.file)
           /\ current_size_' = current_size_ /\ log_running' = log_running /\ troubled'
  <2>1. PICK r \in Rotating!RotationFailures(fresh) : log' = Close(r.file)
    BY <1>8
  <2>2. LogFile(r.file, sent)
    BY <1>1, <1>3, RotationFailureSettles
  <2>3. LogFile(log', sent) /\ ~ log'.open
    BY <1>1, <2>1, <2>2, CloseSettles DEF Settled
  <2>4. RotatingInv'
    BY <1>1, <1>8, <2>3 DEF RotatingInv
  <2> QED
    BY <1>8, <2>4 DEF FilesMove
<1> QED
  BY <1>2, <1>6, <1>7, <1>8

\* The program is killed.
LEMMA KillKeeps ==
    ASSUME Rotating!RotatingAssumption, RotatingInv, Rotating!Kill
    PROVE  RotatingInv' /\ FilesMove
<1> DEFINE killed == [log EXCEPT !.open = FALSE, !.linked = FALSE, !.buffer = <<>>]
           c == Close(log)
<1>1. /\ sent \in Nat /\ current_size_ \in Nat /\ LogFile(log, sent)
      /\ sent' = sent /\ current_size_' = current_size_ /\ ~ log_running' /\ troubled'
  BY DEF RotatingInv, Rotating!Kill, Rotating!Fail
<1>2. \/ log' = killed
      \/ \E d \in Rotating!CutShort(c.disk) \cup {Rotating!Renamed(c.disk, k) : k \in 0 .. MaxFiles} :
            log' = [c EXCEPT !.disk = d]
  BY SameHelper DEF Rotating!Kill
<1>3. LogFile(killed, sent) /\ ~ killed.open
  <2>1. /\ killed.disk = log.disk /\ killed.filename = 0 /\ killed.open = FALSE
        /\ killed.linked = FALSE /\ killed.buffer = <<>> /\ Helper(killed)
    BY <1>1 DEF LogFile, Helper
  <2>2. Chain(log.disk, sent)
    BY <1>1 DEF LogFile
  <2> HIDE DEF killed
  <2> QED
    BY <1>1, <2>1, <2>2, SettledFile DEF Settled
<1> HIDE DEF killed
<1>4. LogFile(c, sent) /\ ~ c.open /\ Chain(c.disk, sent)
  BY <1>1, CloseSettles DEF Settled, LogFile
<1> HIDE DEF c
<1>5. ASSUME NEW d \in Rotating!CutShort(c.disk) \cup {Rotating!Renamed(c.disk, k) : k \in 0 .. MaxFiles},
             log' = [c EXCEPT !.disk = d]
      PROVE  LogFile(log', sent) /\ ~ log'.open
  <2>1. MaxFiles \in Nat
    BY DEF Rotating!RotatingAssumption
  <2>2. Chain(d, sent)
    <3>1. CASE d \in Rotating!CutShort(c.disk)
      BY <1>1, <1>4, <2>1, <3>1, CutShortChain
    <3>2. CASE \E k \in 0 .. MaxFiles : d = Rotating!Renamed(c.disk, k)
      BY <1>1, <1>4, <2>1, <3>2, RenamedChain
    <3> QED
      BY <3>1, <3>2
  <2> QED
    BY <1>1, <1>4, <1>5, <2>2, ReplacedSettles DEF Settled
<1>6. RotatingInv'
  BY <1>1, <1>2, <1>3, <1>5 DEF RotatingInv
<1> QED
  BY <1>1, <1>6 DEF FilesMove

\* Every step keeps the invariant and moves the files.
LEMMA RotatingStep ==
    ASSUME Rotating!RotatingAssumption, RotatingInv, [Rotating!Next]_(Rotating!vars)
    PROVE  RotatingInv' /\ FilesMove
<1>1. CASE UNCHANGED Rotating!vars
  <2>1. UNCHANGED <<log, current_size_, log_running, sent, troubled, asked>>
    BY <1>1 DEF Rotating!vars
  <2> QED
    BY <2>1 DEF RotatingInv, FilesMove, LogSize
<1> QED
  BY <1>1, SinkKeeps, RotateNowKeeps, FlushOrStopKeeps, RotatingStartKeeps, KillKeeps
  DEF Rotating!Next

\* At first there are no files.
LEMMA InitRotating ==
    ASSUME Rotating!RotatingAssumption, Rotating!Init
    PROVE  RotatingInv
<1>1. log = NewHelper(<<>>, 0) /\ current_size_ = 0 /\ sent = 0 /\ ~ log_running
  BY DEF Rotating!Init, Rotating!NewHelper, NewHelper
<1>2. /\ log.disk = <<>> /\ log.filename = 0 /\ log.open = FALSE /\ log.linked = FALSE
      /\ log.buffer = <<>> /\ Helper(log)
  BY <1>1, NewHelperFacts DEF NewHelper
<1>3. Chain(log.disk, sent) /\ sent \in Nat
  <2>1. DOMAIN <<>> = {} /\ <<>> \in [{} -> Seq(Logged(0))]
    OBVIOUS
  <2> QED
    BY <1>1, <1>2, <2>1 DEF Chain
<1>4. LogFile(log, sent)
  BY <1>2, <1>3, SettledFile DEF Settled
<1> QED
  BY <1>1, <1>2, <1>4 DEF RotatingInv

-----------------------------------------------------------------------------
(* All messages kept                                                        *)

\* What file i has; nothing when there is no such file.
Has(d, i) == IF i \in DOMAIN d THEN d[i] ELSE <<>>

\* The messages of all files, from the oldest file to the log file.
Whole(d) == Rotating!FlattenSeq([k \in 1 .. MaxFiles + 1 |-> Has(d, MaxFiles + 1 - k)])

\* The sink's content of a file, for a helper h.
ContentIn(h, i) ==
    (IF i \in DOMAIN h.disk THEN h.disk[i] ELSE <<>>) \o (IF i = 0 THEN h.buffer ELSE <<>>)

KeptIn(h) == Rotating!FlattenSeq([k \in 1 .. MaxFiles + 1 |-> ContentIn(h, MaxFiles + 1 - k)])

LEMMA ContentFacts ==
    ASSUME MaxFiles \in Nat, NEW k \in Nat, NEW h, LogFile(h, k)
    PROVE  /\ \A i \in 0 .. MaxFiles : ContentIn(h, i) = Has(Flush(h).disk, i)
           /\ KeptIn(h) = Whole(Flush(h).disk)
<1> DEFINE d == h.disk
           e == Flush(h).disk
<1>1. \A i \in DOMAIN d : d[i] \in Seq(Logged(k))
  BY FilesOfChain DEF LogFile
<1>2. \A i \in DOMAIN d : d[i] \o <<>> = d[i]
  BY <1>1
<1>3. ASSUME NEW i \in 0 .. MaxFiles
      PROVE  ContentIn(h, i) = Has(e, i)
  <2>1. CASE ~ h.open
    <3>1. e = d /\ h.buffer = <<>>
      BY <2>1 DEF Flush, LogFile
    <3> QED
      BY <1>2, <3>1 DEF ContentIn, Has
  <2>2. CASE h.open
    <3>1. 0 \in DOMAIN d /\ e = Put(d, 0, d[0] \o h.buffer)
      BY <2>2 DEF Flush, LogFile, Helper
    <3>2. DOMAIN e = DOMAIN d /\ e[0] = d[0] \o h.buffer /\ \A j \in DOMAIN d : j # 0 => e[j] = d[j]
      BY <3>1 DEF Put
    <3> HIDE DEF e, d
    <3>3. CASE i = 0
      BY <3>1, <3>2, <3>3 DEF ContentIn, Has, d
    <3>4. CASE i # 0
      BY <1>2, <3>2, <3>4 DEF ContentIn, Has, d
    <3> QED
      BY <3>3, <3>4
  <2> QED
    BY <2>1, <2>2
<1>4. [j \in 1 .. MaxFiles + 1 |-> ContentIn(h, MaxFiles + 1 - j)]
        = [j \in 1 .. MaxFiles + 1 |-> Has(e, MaxFiles + 1 - j)]
  <2> HIDE DEF e
  <2>1. \A j \in 1 .. MaxFiles + 1 : MaxFiles + 1 - j \in 0 .. MaxFiles
    OBVIOUS
  <2> QED
    BY <1>3, <2>1
<1> QED
  BY <1>3, <1>4 DEF KeptIn, Whole

\* f[k] is what the k oldest files have.
Joined(d, f) ==
    /\ f[1] = Has(d, MaxFiles)
    /\ \A k \in 2 .. MaxFiles + 1 : f[k] = f[k - 1] \o Has(d, MaxFiles + 1 - k)

\* f is what FlattenSeq computes for the first n sequences of s.
Flattens(s, n, f) == f = [i \in 1 .. n |-> IF i = 1 THEN s[i] ELSE f[i - 1] \o s[i]]

LEMMA FlattensExist ==
    ASSUME NEW s, NEW n \in Nat
    PROVE  \E f : Flattens(s, n, f)
<1> DEFINE bad == {i \in Nat : ~ \E f : Flattens(s, i, f)}
<1> SUFFICES ASSUME bad # {} PROVE FALSE
  OBVIOUS
<1>1. PICK m \in bad : \A j \in bad : m <= j
  BY LeastElement
<1>2. CASE m = 0
  <2> DEFINE f == [i \in 1 .. 0 |-> <<>>]
  <2>1. Flattens(s, 0, f)
    BY DEF Flattens
  <2> QED
    BY <1>1, <1>2, <2>1
<1>3. CASE m # 0
  <2>1. m \in Nat \ {0} /\ m - 1 \in Nat /\ m - 1 \notin bad
    BY <1>1, <1>3
  <2>2. PICK f : Flattens(s, m - 1, f)
    BY <2>1
  <2> DEFINE g == [i \in 1 .. m |-> IF i = m THEN IF m = 1 THEN s[m] ELSE f[m - 1] \o s[m] ELSE f[i]]
  <2>3. \A i \in 1 .. m - 1 : f[i] = IF i = 1 THEN s[i] ELSE f[i - 1] \o s[i]
    BY <2>2 DEF Flattens
  <2>4. \A i \in 1 .. m : g[i] = IF i = 1 THEN s[i] ELSE g[i - 1] \o s[i]
    <3> SUFFICES ASSUME NEW i \in 1 .. m
                 PROVE  g[i] = IF i = 1 THEN s[i] ELSE g[i - 1] \o s[i]
      OBVIOUS
    <3>1. CASE i = 1
      BY <2>1, <2>3, <3>1
    <3>2. CASE i # 1
      <4>1. i - 1 \in 1 .. m /\ i - 1 # m
        BY <2>1, <3>2
      <4>2. g[i - 1] = f[i - 1]
        BY <4>1
      <4>3. CASE i = m
        BY <3>2, <4>2, <4>3
      <4>4. CASE i # m
        <5>1. g[i] = f[i] /\ i \in 1 .. m - 1
          BY <2>1, <4>4
        <5> HIDE DEF g
        <5> QED
          BY <2>3, <3>2, <4>2, <5>1
      <4> QED
        BY <4>3, <4>4
    <3> QED
      BY <3>1, <3>2
  <2>5. Flattens(s, m, g)
    <3> DEFINE body(i) == IF i = 1 THEN s[i] ELSE g[i - 1] \o s[i]
    <3>1. g = [i \in 1 .. m |-> g[i]]
      OBVIOUS
    <3>2. \A i \in 1 .. m : g[i] = body(i)
      BY <2>4
    <3>3. g = [i \in 1 .. m |-> body(i)]
      <4> HIDE DEF g, body
      <4> QED
        BY <3>1, <3>2
    <3> HIDE DEF g
    <3> QED
      BY <3>3 DEF Flattens
  <2> QED
    BY <1>1, <2>1, <2>5
<1> QED
  BY <1>2, <1>3

\* All messages are joined file by file.
LEMMA WholeJoined ==
    ASSUME MaxFiles \in Nat, NEW d
    PROVE  \E f : Joined(d, f) /\ Whole(d) = f[MaxFiles + 1]
<1> DEFINE s == [k \in 1 .. MaxFiles + 1 |-> Has(d, MaxFiles + 1 - k)]
           g == CHOOSE f : Flattens(s, Len(s), f)
<1>1. MaxFiles + 1 \in Nat /\ MaxFiles + 1 # 0 /\ Len(s) = MaxFiles + 1
  OBVIOUS
<1>2. Flattens(s, Len(s), g)
  BY <1>1, FlattensExist
<1>3. \A i \in 1 .. MaxFiles + 1 : s[i] = Has(d, MaxFiles + 1 - i)
  OBVIOUS
<1>4. Whole(d) = Rotating!FlattenSeq(s)
  BY DEF Whole
<1> HIDE DEF s
<1>5. Whole(d) = g[MaxFiles + 1]
  BY <1>1, <1>4 DEF Rotating!FlattenSeq, Flattens
<1>6. PICK f : Flattens(s, Len(s), f) /\ Whole(d) = f[MaxFiles + 1]
  BY <1>2, <1>5
<1>7. \A i \in 1 .. MaxFiles + 1 : f[i] = IF i = 1 THEN s[i] ELSE f[i - 1] \o s[i]
  BY <1>1, <1>6 DEF Flattens
<1>8. f[1] = Has(d, MaxFiles)
  <2>1. 1 \in 1 .. MaxFiles + 1 /\ MaxFiles + 1 - 1 = MaxFiles
    OBVIOUS
  <2> QED
    BY <1>3, <1>7, <2>1
<1>9. \A k \in 2 .. MaxFiles + 1 : f[k] = f[k - 1] \o Has(d, MaxFiles + 1 - k)
  <2>1. \A k \in 2 .. MaxFiles + 1 : k \in 1 .. MaxFiles + 1 /\ k # 1
    OBVIOUS
  <2> QED
    BY <1>3, <1>7, <2>1
<1> QED
  BY <1>6, <1>8, <1>9 DEF Joined

\* Joining is associative.
AllIn(S, p, v, w) == p \in S /\ v \in S /\ w \in S

LEMMA JoinAgain ==
    ASSUME NEW M, NEW p, NEW v, NEW w, AllIn(Seq(M), p, v, w)
    PROVE  (p \o v) \o w = p \o (v \o w)
<1>1. p \in Seq(M) /\ v \in Seq(M) /\ w \in Seq(M)
  BY DEF AllIn
<1> QED
  BY <1>1, ConcatAssociative

\* f and g join the same pieces x, from a to b; f has p in front and is off ahead.
Alike(S, p, a, b, off, f, g, x) ==
    /\ p \in S /\ a \in Nat /\ b \in Nat /\ off \in Nat
    /\ g[a] \in S /\ f[a + off] = p \o g[a]
    /\ \A k \in a + 1 .. b : /\ x[k] \in S
                             /\ g[k] = g[k - 1] \o x[k]
                             /\ f[k + off] = f[k - 1 + off] \o x[k]

LEMMA JoinsAgree ==
    ASSUME NEW M, NEW p, NEW a, NEW b, NEW off, NEW f, NEW g, NEW x,
           Alike(Seq(M), p, a, b, off, f, g, x)
    PROVE  \A k \in a .. b : g[k] \in Seq(M) /\ f[k + off] = p \o g[k]
<1>a. /\ p \in Seq(M) /\ a \in Nat /\ b \in Nat /\ off \in Nat
      /\ g[a] \in Seq(M) /\ f[a + off] = p \o g[a]
  BY DEF Alike
<1>b. \A k \in a + 1 .. b : /\ x[k] \in Seq(M)
                            /\ g[k] = g[k - 1] \o x[k]
                            /\ f[k + off] = f[k - 1 + off] \o x[k]
  BY DEF Alike
<1> DEFINE bad == {k \in a .. b : ~ (g[k] \in Seq(M) /\ f[k + off] = p \o g[k])}
<1> SUFFICES ASSUME bad # {} PROVE FALSE
  OBVIOUS
<1>0. bad \in SUBSET Nat
  BY <1>a
<1>1. PICK m \in bad : \A j \in bad : m <= j
  BY <1>0, LeastElement
<1>2. m # a
  BY <1>1, <1>a
<1> HIDE DEF bad
<1>3. m \in a + 1 .. b /\ m - 1 \in a .. b /\ m - 1 \notin bad
  <2>1. m \in a .. b /\ m \in Nat /\ a \in Nat /\ b \in Nat
    BY <1>0, <1>1, <1>a DEF bad
  <2>2. m \in a + 1 .. b /\ m - 1 \in a .. b /\ m - 1 < m
    BY <1>2, <2>1
  <2> QED
    BY <1>0, <1>1, <2>1, <2>2
<1>4. /\ x[m] \in Seq(M) /\ g[m] = g[m - 1] \o x[m]
      /\ f[m + off] = f[m - 1 + off] \o x[m]
      /\ g[m - 1] \in Seq(M) /\ f[m - 1 + off] = p \o g[m - 1]
  BY <1>3, <1>b DEF bad
<1>6. g[m] \in Seq(M) /\ f[m + off] = p \o g[m]
  <2>1. g[m - 1] \o x[m] \in Seq(M)
    BY <1>4
  <2> DEFINE v == g[m - 1]
             w == x[m]
  <2>3. p \in Seq(M) /\ v \in Seq(M) /\ w \in Seq(M)
    BY <1>a, <1>4
  <2> HIDE DEF v, w
  <2>4. (p \o v) \o w = p \o (v \o w)
    <3>1. AllIn(Seq(M), p, v, w)
      BY <2>3 DEF AllIn
    <3> QED
      BY <3>1, JoinAgain
  <2>2. (p \o g[m - 1]) \o x[m] = p \o (g[m - 1] \o x[m])
    BY <2>4, Zenon DEF v, w
  <2> QED
    BY <1>4, <2>1, <2>2
<1> QED
  BY <1>1, <1>6 DEF bad

\* What the files of a chain have.
LEMMA HasFacts ==
    ASSUME NEW k \in Nat, NEW d, Chain(d, k)
    PROVE  /\ \A i \in 0 .. MaxFiles : Has(d, i) \in Seq(Logged(k)) /\ Increasing(Has(d, i))
           /\ \A i, j \in 0 .. MaxFiles : i < j => Before(Has(d, j), Has(d, i))
<1>1. \A i \in DOMAIN d : d[i] \in Seq(Logged(k))
  BY FilesOfChain
<1>2. <<>> \in Seq(Logged(k)) /\ Increasing(<<>>) /\ \A c : Before(c, <<>>) /\ Before(<<>>, c)
  BY DEF Increasing, Before
<1> QED
  BY <1>1, <1>2 DEF Has, Chain

\* Two sequences in order, joined.
LEMMA JoinInOrder ==
    ASSUME NEW M, NEW a \in Seq(M), NEW b \in Seq(M), Increasing(a), Increasing(b), Before(a, b)
    PROVE  /\ Increasing(a \o b)
           /\ \A c : Before(a, c) /\ Before(b, c) => Before(a \o b, c)
<1> DEFINE s == a \o b
<1>1. /\ Len(s) = Len(a) + Len(b) /\ Len(a) \in Nat /\ Len(b) \in Nat
      /\ \A i \in 1 .. Len(s) : IF i <= Len(a) THEN i \in 1 .. Len(a) /\ s[i] = a[i]
                                ELSE i - Len(a) \in 1 .. Len(b) /\ s[i] = b[i - Len(a)]
  OBVIOUS
<1> HIDE DEF s
<1>2. ASSUME NEW i \in 1 .. Len(s), NEW j \in 1 .. Len(s), i < j
      PROVE  s[i].n < s[j].n
  <2>1. CASE j <= Len(a)
    <3>1. i <= Len(a)
      BY <1>1, <1>2, <2>1
    <3> QED
      BY <1>1, <1>2, <2>1, <3>1 DEF Increasing
  <2>2. CASE i <= Len(a) /\ ~ j <= Len(a)
    BY <1>1, <1>2, <2>2 DEF Before
  <2>3. CASE ~ i <= Len(a)
    <3>1. ~ j <= Len(a) /\ i - Len(a) < j - Len(a)
      BY <1>1, <1>2, <2>3
    <3> QED
      BY <1>1, <1>2, <2>3, <3>1 DEF Increasing
  <2> QED
    BY <2>1, <2>2, <2>3
<1>3. ASSUME NEW c, Before(a, c), Before(b, c)
      PROVE  Before(s, c)
  BY <1>1, <1>3 DEF Before
<1> QED
  BY <1>2, <1>3 DEF Increasing, s

\* The messages of a chain are in order.
LEMMA WholeInOrder ==
    ASSUME MaxFiles \in Nat, NEW k \in Nat, NEW d, Chain(d, k)
    PROVE  Whole(d) \in Seq(Logged(k)) /\ Increasing(Whole(d))
<1>1. PICK f : Joined(d, f) /\ Whole(d) = f[MaxFiles + 1]
  BY WholeJoined
<1> DEFINE M == Logged(k)
           Good(j) == /\ f[j] \in Seq(M) /\ Increasing(f[j])
                      /\ \A i \in 0 .. MaxFiles - j : Before(f[j], Has(d, i))
           bad == {j \in 1 .. MaxFiles + 1 : ~ Good(j)}
<1>2. /\ \A i \in 0 .. MaxFiles : Has(d, i) \in Seq(M) /\ Increasing(Has(d, i))
      /\ \A i, j \in 0 .. MaxFiles : i < j => Before(Has(d, j), Has(d, i))
  BY HasFacts
<1>3. ASSUME bad # {} PROVE FALSE
  <2>1. bad \in SUBSET Nat
    OBVIOUS
  <2>2. PICK j \in bad : \A i \in bad : j <= i
    BY <1>3, <2>1, LeastElement
  <2>3. j \in 1 .. MaxFiles + 1 /\ ~ Good(j)
    OBVIOUS
  <2>4. CASE j = 1
    <3>1. f[1] = Has(d, MaxFiles) /\ MaxFiles \in 0 .. MaxFiles
      BY <1>1 DEF Joined
    <3>2. \A i \in 0 .. MaxFiles - 1 : i \in 0 .. MaxFiles /\ i < MaxFiles
      OBVIOUS
    <3> HIDE DEF M
    <3>3. Good(1)
      BY <1>2, <3>1, <3>2
    <3> QED
      BY <2>3, <2>4, <3>3
  <2>5. CASE j # 1
    <3> DEFINE i == MaxFiles + 1 - j
    <3>1. j - 1 \in 1 .. MaxFiles + 1 /\ j \in 2 .. MaxFiles + 1 /\ j - 1 < j /\ i \in 0 .. MaxFiles
      BY <2>3, <2>5
    <3>2. Good(j - 1)
      <4>1. j - 1 \notin bad
        <5> HIDE DEF bad
        <5> QED
          BY <2>2, <2>1, <3>1
      <4> HIDE DEF Good
      <4> QED
        BY <3>1, <4>1
    <3>3. f[j] = f[j - 1] \o Has(d, i)
      BY <1>1, <3>1 DEF Joined
    <3>4. i \in 0 .. MaxFiles - (j - 1)
      BY <3>1
    <3>5. \A x \in 0 .. MaxFiles - j : x \in 0 .. MaxFiles /\ x < i /\ x \in 0 .. MaxFiles - (j - 1)
      BY <3>1
    <3> DEFINE a == f[j - 1]
               b == Has(d, i)
    <3> HIDE DEF M
    <3>6. a \in Seq(M) /\ b \in Seq(M) /\ Increasing(a) /\ Increasing(b) /\ Before(a, b)
      BY <1>2, <3>1, <3>2, <3>4
    <3>7. \A x \in 0 .. MaxFiles - j : Before(a, Has(d, x)) /\ Before(b, Has(d, x))
      BY <1>2, <3>1, <3>2, <3>5
    <3> HIDE DEF a, b, i
    <3>8. /\ a \o b \in Seq(M) /\ Increasing(a \o b)
          /\ \A c : Before(a, c) /\ Before(b, c) => Before(a \o b, c)
      <4>1. a \o b \in Seq(M)
        BY <3>6
      <4> QED
        BY <3>6, <4>1, JoinInOrder
    <3>9. f[j] = a \o b
      BY <3>3 DEF a, b
    <3>10. Good(j)
      BY <3>7, <3>8, <3>9
    <3> HIDE DEF Good
    <3> QED
      BY <2>3, <3>10
  <2> QED
    BY <2>4, <2>5
<1>4. Good(MaxFiles + 1)
  <2>1. MaxFiles + 1 \in 1 .. MaxFiles + 1
    OBVIOUS
  <2> HIDE DEF Good
  <2> QED
    BY <1>3, <2>1
<1> QED
  BY <1>1, <1>4

\* What is kept depends on what the files have.
LEMMA WholeSame ==
    ASSUME MaxFiles \in Nat, NEW d, NEW e, \A i \in 0 .. MaxFiles : Has(e, i) = Has(d, i)
    PROVE  Whole(e) = Whole(d)
<1>1. \A k \in 1 .. MaxFiles + 1 : MaxFiles + 1 - k \in 0 .. MaxFiles
  OBVIOUS
<1>2. [k \in 1 .. MaxFiles + 1 |-> Has(e, MaxFiles + 1 - k)]
        = [k \in 1 .. MaxFiles + 1 |-> Has(d, MaxFiles + 1 - k)]
  BY <1>1
<1> QED
  BY <1>2 DEF Whole

\* The log file has y more, the other files are as before.
Grown(d, e, y) ==
    Has(e, 0) = Has(d, 0) \o y /\ \A i \in 1 .. MaxFiles : Has(e, i) = Has(d, i)

LEMMA WholeGrows ==
    ASSUME MaxFiles \in Nat, NEW M, NEW d, NEW e, NEW y \in Seq(M),
           \A i \in 0 .. MaxFiles : Has(d, i) \in Seq(M),
           Grown(d, e, y)
    PROVE  Whole(d) \in Seq(M) /\ Whole(e) = Whole(d) \o y
<1>0. Has(e, 0) = Has(d, 0) \o y /\ \A i \in 1 .. MaxFiles : Has(e, i) = Has(d, i)
  BY DEF Grown
<1>1. PICK f : Joined(d, f) /\ Whole(d) = f[MaxFiles + 1]
  BY WholeJoined
<1>2. PICK g : Joined(e, g) /\ Whole(e) = g[MaxFiles + 1]
  BY WholeJoined
<1>3. CASE MaxFiles = 0
  <2>1. MaxFiles + 1 = 1 /\ 0 \in 0 .. MaxFiles
    BY <1>3
  <2>2. f[1] = Has(d, 0) /\ g[1] = Has(d, 0) \o y
    BY <1>0, <1>1, <1>2, <1>3 DEF Joined
  <2> QED
    BY <1>1, <1>2, <2>1, <2>2
<1>4. CASE MaxFiles # 0
  <2> DEFINE x == [k \in 2 .. MaxFiles |-> Has(d, MaxFiles + 1 - k)]
  <2>1. \A k \in 2 .. MaxFiles : /\ x[k] = Has(d, MaxFiles + 1 - k) /\ MaxFiles + 1 - k \in 1 .. MaxFiles
                                 /\ k \in 2 .. MaxFiles + 1
    OBVIOUS
  <2> HIDE DEF x
  <2>2. \A k \in 2 .. MaxFiles : /\ x[k] \in Seq(M) /\ f[k] = f[k - 1] \o x[k]
                                 /\ g[k] = g[k - 1] \o x[k]
    <3>1. \A i \in 1 .. MaxFiles : i \in 0 .. MaxFiles
      OBVIOUS
    <3> QED
      BY <1>0, <1>1, <1>2, <2>1, <3>1 DEF Joined
  <2>3. f[1] \in Seq(M) /\ g[1] = <<>> \o f[1] /\ <<>> \in Seq(M)
    <3>1. MaxFiles \in 0 .. MaxFiles /\ MaxFiles \in 1 .. MaxFiles
      BY <1>4
    <3>2. f[1] = Has(d, MaxFiles) /\ g[1] = Has(d, MaxFiles)
      BY <1>0, <1>1, <1>2, <3>1 DEF Joined
    <3> DEFINE a == Has(d, MaxFiles)
    <3>3. a \in Seq(M)
      BY <3>1
    <3> HIDE DEF a
    <3>4. a = <<>> \o a
      BY <3>3
    <3> QED
      BY <3>2, <3>3, <3>4 DEF a
  <2>4. \A k \in 1 .. MaxFiles : f[k] \in Seq(M) /\ g[k + 0] = <<>> \o f[k]
    <3> DEFINE p == <<>>
               one == 1
               off == 0
    <3>1. p \in Seq(M) /\ one \in Nat /\ off \in Nat /\ MaxFiles \in Nat
      OBVIOUS
    <3>2. f[one] \in Seq(M) /\ g[one + off] = p \o f[one]
      BY <2>3
    <3>3. \A k \in one + 1 .. MaxFiles : /\ k \in 2 .. MaxFiles /\ k + off = k
                                         /\ k - 1 + off = k - 1
      OBVIOUS
    <3> HIDE DEF p, one, off
    <3>4. \A k \in one + 1 .. MaxFiles : /\ x[k] \in Seq(M) /\ f[k] = f[k - 1] \o x[k]
                                         /\ g[k + off] = g[k - 1 + off] \o x[k]
      BY <2>2, <3>3
    <3>5. \A k \in one .. MaxFiles : f[k] \in Seq(M) /\ g[k + off] = p \o f[k]
      <4>1. Alike(Seq(M), p, one, MaxFiles, off, g, f, x)
        BY <3>1, <3>2, <3>4 DEF Alike
      <4> QED
        BY <4>1, JoinsAgree
    <3> QED
      BY <3>5 DEF p, one, off
  <2>5. f[MaxFiles] \in Seq(M) /\ g[MaxFiles] = f[MaxFiles]
    <3>1. MaxFiles \in 1 .. MaxFiles /\ MaxFiles + 0 = MaxFiles
      BY <1>4
    <3> QED
      BY <2>4, <3>1
  <2>6. f[MaxFiles + 1] = f[MaxFiles] \o Has(d, 0) /\ g[MaxFiles + 1] = g[MaxFiles] \o (Has(d, 0) \o y)
    <3>1. PICK n \in Nat : n = MaxFiles + 1
      OBVIOUS
    <3>2. n \in 2 .. MaxFiles + 1 /\ n - 1 = MaxFiles /\ MaxFiles + 1 - n = 0
      BY <1>4, <3>1
    <3>3. f[n] = f[n - 1] \o Has(d, MaxFiles + 1 - n) /\ g[n] = g[n - 1] \o Has(e, MaxFiles + 1 - n)
      BY <1>1, <1>2, <3>2 DEF Joined
    <3> QED
      BY <1>0, <3>1, <3>2, <3>3
  <2> DEFINE u == f[MaxFiles]
             v == Has(d, 0)
  <2>7. u \in Seq(M) /\ v \in Seq(M)
    BY <2>5
  <2> HIDE DEF u, v
  <2>8. u \o v \in Seq(M) /\ (u \o v) \o y = u \o (v \o y)
    <3>1. AllIn(Seq(M), u, v, y)
      BY <2>7 DEF AllIn
    <3>2. u \o v \in Seq(M)
      BY <2>7
    <3> QED
      BY <3>1, <3>2, JoinAgain
  <2> QED
    BY <1>1, <1>2, <2>5, <2>6, <2>8 DEF u, v
<1> QED
  BY <1>3, <1>4

\* The files d have moved up by one: the log file has y, and the last file is replaced
\* unless there is none before it.
MovedUp(d, e, y) ==
    /\ Has(e, 0) = y
    /\ \A i \in 1 .. MaxFiles - 1 : Has(e, i) = Has(d, i - 1)
    /\ \/ MaxFiles = 0
       \/ Has(e, MaxFiles) = Has(d, MaxFiles - 1)
       \/ Has(e, MaxFiles) = Has(d, MaxFiles) /\ Has(d, MaxFiles - 1) = <<>>

\* What is kept of w in v when old goes and y comes.
Shifted(S, old, w, v, y) == \E g \in S : v = g \o y /\ (w = g \/ w = old \o g)

LEMMA WholeRotates ==
    ASSUME MaxFiles \in Nat, NEW M, NEW d, NEW e, NEW y \in Seq(M),
           \A i \in 0 .. MaxFiles : Has(d, i) \in Seq(M),
           MovedUp(d, e, y)
    PROVE  Shifted(Seq(M), Has(d, MaxFiles), Whole(d), Whole(e), y)
<1> SUFFICES \E g \in Seq(M) : /\ Whole(e) = g \o y
                               /\ Whole(d) = g \/ Whole(d) = Has(d, MaxFiles) \o g
  BY DEF Shifted
<1>0. /\ Has(e, 0) = y
      /\ \A i \in 1 .. MaxFiles - 1 : Has(e, i) = Has(d, i - 1)
      /\ \/ MaxFiles = 0
         \/ Has(e, MaxFiles) = Has(d, MaxFiles - 1)
         \/ Has(e, MaxFiles) = Has(d, MaxFiles) /\ Has(d, MaxFiles - 1) = <<>>
  BY DEF MovedUp
<1>1. PICK f : Joined(d, f) /\ Whole(d) = f[MaxFiles + 1]
  BY WholeJoined
<1>2. PICK g : Joined(e, g) /\ Whole(e) = g[MaxFiles + 1]
  BY WholeJoined
<1> DEFINE old == Has(d, MaxFiles)
<1>3. old \in Seq(M)
  <2>1. MaxFiles \in 0 .. MaxFiles
    OBVIOUS
  <2> QED
    BY <2>1
<1>4. CASE MaxFiles = 0
  <2>1. MaxFiles + 1 = 1
    BY <1>4
  <2>2. Whole(d) = old /\ Whole(e) = y
    BY <1>0, <1>1, <1>2, <1>4, <2>1 DEF Joined
  <2> HIDE DEF old
  <2>3. <<>> \in Seq(M) /\ y = <<>> \o y /\ old = old \o <<>>
    BY <1>3
  <2> QED
    BY <2>2, <2>3 DEF old
<1>5. CASE MaxFiles # 0
  <2>1. PICK n \in Nat : n = MaxFiles + 1
    OBVIOUS
  <2>2. n \in 2 .. MaxFiles + 1 /\ n - 1 = MaxFiles /\ MaxFiles + 1 - n = 0
    BY <1>5, <2>1
  <2>3. g[n] = g[n - 1] \o Has(e, MaxFiles + 1 - n)
    BY <1>2, <2>2 DEF Joined
  <2>4. Whole(e) = g[MaxFiles] \o y /\ Whole(d) = f[n]
    BY <1>0, <1>1, <1>2, <2>1, <2>2, <2>3
  <2> DEFINE x == [k \in 2 .. MaxFiles |-> Has(d, MaxFiles - k)]
             one == 1
  <2>5. ASSUME NEW k \in one + 1 .. MaxFiles
        PROVE  /\ x[k] \in Seq(M)
               /\ g[k] = g[k - 1] \o x[k]
               /\ f[k + one] = f[k - 1 + one] \o x[k]
    <3>0. k \in 2 .. MaxFiles
      OBVIOUS
    <3>1. PICK j \in 0 .. MaxFiles : j = MaxFiles - k
      BY <3>0
    <3>2. PICK i \in 1 .. MaxFiles - 1 : i = MaxFiles + 1 - k /\ i - 1 = j
      BY <3>0, <3>1
    <3>3. x[k] = Has(d, j) /\ Has(e, i) = Has(d, j)
      BY <1>0, <3>0, <3>1, <3>2
    <3>4. g[k] = g[k - 1] \o Has(e, i)
      <4>1. k \in 2 .. MaxFiles + 1
        BY <3>0
      <4> HIDE DEF x
      <4> QED
        BY <1>2, <3>2, <4>1 DEF Joined
    <3>5. f[k + 1] = f[k] \o Has(d, j)
      <4>1. PICK l \in 2 .. MaxFiles + 1 : l = k + 1 /\ l - 1 = k /\ MaxFiles + 1 - l = j
        BY <3>0, <3>1
      <4>2. f[l] = f[l - 1] \o Has(d, MaxFiles + 1 - l)
        BY <1>1, <4>1 DEF Joined
      <4> QED
        BY <4>1, <4>2
    <3>6. k + one = k + 1 /\ k - 1 + one = k
      BY <3>0
    <3> HIDE DEF x, one
    <3> QED
      BY <3>1, <3>3, <3>4, <3>5, <3>6
  <2>6. g[1] = Has(e, MaxFiles) /\ f[1] = old
    BY <1>1, <1>2 DEF Joined
  <2>7. f[2] = old \o Has(d, MaxFiles - 1)
    <3>1. PICK l \in 2 .. MaxFiles + 1 : l = 2 /\ l - 1 = 1 /\ MaxFiles + 1 - l = MaxFiles - 1
      BY <1>5
    <3>2. f[l] = f[l - 1] \o Has(d, MaxFiles + 1 - l)
      BY <1>1, <3>1 DEF Joined
    <3> QED
      BY <2>6, <3>1, <3>2
  <2>8. MaxFiles - 1 \in 0 .. MaxFiles /\ one \in Nat /\ one + one = 2
    BY <1>5
  <2>9. ASSUME NEW p \in Seq(M), g[1] \in Seq(M), f[2] = p \o g[1]
        PROVE  g[MaxFiles] \in Seq(M) /\ f[n] = p \o g[MaxFiles]
    <3>1. g[one] \in Seq(M) /\ f[one + one] = p \o g[one]
      BY <2>9
    <3>2. MaxFiles \in one .. MaxFiles /\ MaxFiles + one = n
      BY <1>5, <2>1
    <3> HIDE DEF x, one
    <3>3. Alike(Seq(M), p, one, MaxFiles, one, f, g, x)
      BY <2>5, <2>8, <3>1 DEF Alike
    <3>4. \A k \in one .. MaxFiles : g[k] \in Seq(M) /\ f[k + one] = p \o g[k]
      BY <3>3, JoinsAgree
    <3> QED
      BY <3>2, <3>4
  <2> HIDE DEF x, one
  <2>10. CASE Has(e, MaxFiles) = Has(d, MaxFiles - 1)
    <3>1. g[1] \in Seq(M) /\ f[2] = old \o g[1]
      BY <2>6, <2>7, <2>8, <2>10
    <3>2. g[MaxFiles] \in Seq(M) /\ f[n] = old \o g[MaxFiles]
      BY <1>3, <2>9, <3>1
    <3> QED
      BY <2>4, <3>2
  <2>11. CASE Has(e, MaxFiles) = old /\ Has(d, MaxFiles - 1) = <<>>
    <3> DEFINE p == <<>>
    <3>1. p \in Seq(M)
      OBVIOUS
    <3> HIDE DEF old
    <3>2. old \o p = old /\ p \o old = old
      BY <1>3
    <3>3. g[1] = old /\ f[2] = old \o p
      BY <2>6, <2>7, <2>11
    <3> HIDE DEF p
    <3>4. g[1] \in Seq(M) /\ f[2] = p \o g[1]
      BY <1>3, <3>2, <3>3
    <3>5. g[MaxFiles] \in Seq(M) /\ f[n] = p \o g[MaxFiles]
      BY <2>9, <3>1, <3>4
    <3> DEFINE u == g[MaxFiles]
    <3>6. u \in Seq(M)
      BY <3>5
    <3> HIDE DEF u
    <3>7. p \o u = u
      BY <3>6 DEF p
    <3>8. f[n] = g[MaxFiles]
      BY <3>5, <3>7 DEF u
    <3> QED
      BY <2>4, <3>5, <3>8
  <2> QED
    BY <1>0, <1>5, <2>10, <2>11
<1> QED
  BY <1>4, <1>5

\* Sequences joined, taken apart again.
LEMMA ConcatApart ==
    ASSUME NEW M, NEW a \in Seq(M), NEW b \in Seq(M)
    PROVE  /\ a \o b \in Seq(M)
           /\ Rotating!IsPrefix(a, a \o b)
           /\ SubSeq(a \o b, Len(a) + 1, Len(a \o b)) = b
           /\ \A m : b = <<m>> => (a \o b)[Len(a \o b)] = m
<1> DEFINE s == a \o b
<1>1. /\ s \in Seq(M) /\ Len(s) = Len(a) + Len(b) /\ Len(a) \in Nat /\ Len(b) \in Nat
      /\ \A i \in 1 .. Len(a) : s[i] = a[i]
      /\ \A i \in 1 .. Len(b) : s[Len(a) + i] = b[i]
  OBVIOUS
<1> HIDE DEF s
<1>2. SubSeq(s, 1, Len(a)) = a
  <2>1. /\ SubSeq(s, 1, Len(a)) \in Seq(M) /\ Len(SubSeq(s, 1, Len(a))) = Len(a)
        /\ \A i \in 1 .. Len(a) : SubSeq(s, 1, Len(a))[i] = s[i]
    BY <1>1
  <2> DEFINE t == SubSeq(s, 1, Len(a))
  <2> HIDE DEF t
  <2>2. t = a
    BY <1>1, <2>1, SeqEqual DEF t
  <2> QED
    BY <2>2 DEF t
<1>3. SubSeq(s, Len(a) + 1, Len(s)) = b
  <2> DEFINE t == SubSeq(s, Len(a) + 1, Len(s))
  <2>1. t \in Seq(M) /\ Len(t) = Len(b) /\ \A i \in 1 .. Len(b) : t[i] = b[i]
    BY <1>1
  <2> HIDE DEF t
  <2>2. t = b
    BY <2>1, SeqEqual
  <2> QED
    BY <2>2 DEF t
<1>4. Rotating!IsPrefix(a, s)
  BY <1>1, <1>2 DEF Rotating!IsPrefix
<1>5. ASSUME NEW m, b = <<m>> PROVE s[Len(s)] = m
  <2>1. Len(b) = 1 /\ b[1] = m
    BY <1>5
  <2> QED
    BY <1>1, <2>1
<1> QED
  BY <1>1, <1>3, <1>4, <1>5 DEF s

\* What the files have after a rotation.
LEMMA RotatedHas ==
    ASSUME MaxFiles \in Nat, NEW k \in Nat, NEW d, Chain(d, k), NEW e, NEW y,
           \/ e = Put(Put(Rotating!Renamed(d, 0), 0, <<>>), 0, y)
           \/ e = Put(Rotating!Renamed(d, 0), 0, <<>>) /\ y = <<>>
    PROVE  MovedUp(d, e, y)
<1> DEFINE r == Rotating!Renamed(d, 0)
           moved == {i \in DOMAIN d : i < MaxFiles}
<1>1. DOMAIN d \subseteq 0 .. MaxFiles
  BY DEF Chain
<1>2. /\ DOMAIN r = (DOMAIN d \ moved) \cup {i + 1 : i \in moved}
      /\ \A i \in DOMAIN r : r[i] = IF i - 1 \in moved THEN d[i - 1] ELSE d[i]
  <2>1. moved = {i \in DOMAIN d : i >= 0 /\ i < MaxFiles}
    BY <1>1
  <2> HIDE DEF moved
  <2> QED
    BY <2>1 DEF Rotating!Renamed
<1> HIDE DEF r
<1>3. DOMAIN e = DOMAIN r \cup {0} /\ e[0] = y /\ \A i \in DOMAIN r : i # 0 => e[i] = r[i]
  BY DEF Put, r
<1>4. Has(e, 0) = y
  BY <1>3 DEF Has
<1>5. ASSUME NEW i \in 1 .. MaxFiles
      PROVE  Has(e, i) = IF i - 1 \in moved THEN d[i - 1]
                         ELSE IF i \in DOMAIN d \ moved THEN d[i] ELSE <<>>
  <2>1. i # 0 /\ i - 1 + 1 = i
    OBVIOUS
  <2>2. i \in DOMAIN r <=> i - 1 \in moved \/ i \in DOMAIN d \ moved
    BY <1>1, <1>2, <2>1
  <2> HIDE DEF moved
  <2> QED
    BY <1>2, <1>3, <2>1, <2>2 DEF Has
<1>6. ASSUME NEW i \in 1 .. MaxFiles - 1 PROVE Has(e, i) = Has(d, i - 1)
  <2>1. i \in 1 .. MaxFiles /\ i \notin DOMAIN d \ moved /\ (i - 1 \in moved <=> i - 1 \in DOMAIN d)
    BY <1>1
  <2> HIDE DEF moved
  <2> QED
    BY <1>5, <2>1 DEF Has
<1>7. ASSUME MaxFiles # 0
      PROVE  \/ Has(e, MaxFiles) = Has(d, MaxFiles - 1)
             \/ Has(e, MaxFiles) = Has(d, MaxFiles) /\ Has(d, MaxFiles - 1) = <<>>
  <2>1. /\ MaxFiles \in 1 .. MaxFiles /\ MaxFiles \notin moved
        /\ (MaxFiles - 1 \in moved <=> MaxFiles - 1 \in DOMAIN d)
    BY <1>1, <1>7
  <2> HIDE DEF moved
  <2> QED
    BY <1>5, <2>1 DEF Has
<1> QED
  BY <1>4, <1>6, <1>7 DEF MovedUp

\* A message more in a file.
LEMMA FileGrows ==
    ASSUME NEW M, NEW a \in Seq(M), NEW m \in M
    PROVE  Append(a, m) = a \o <<m>> /\ <<m>> \in Seq(M)
<1>1. <<m>> \in Seq(M)
  OBVIOUS
<1>2. Append(a, m) = a \o <<m>>
  BY AppendIsConcat
<1> QED
  BY <1>1, <1>2

\* Nothing is lost while messages are appended.
LEMMA KeptWhenAppended ==
    ASSUME NEW M, NEW w \in Seq(M), NEW y \in Seq(M), NEW v, v = w \o y
    PROVE  Rotating!IsPrefix(w, v)
<1>1. Rotating!IsPrefix(w, w \o y)
  BY ConcatApart
<1> QED
  BY <1>1

LEMMA KeptWhenAlike ==
    ASSUME NEW M, NEW w \in Seq(M)
    PROVE  Rotating!IsPrefix(w, w)
<1> DEFINE z == <<>>
<1>1. z \in Seq(M) /\ w = w \o z
  OBVIOUS
<1> HIDE DEF z
<1> QED
  BY <1>1, KeptWhenAppended

\* All messages kept, w, but those of the oldest file are still there, in v.
OnlyOldestGone(old, w, v) ==
    Rotating!IsPrefix(w, v) \/ Rotating!IsPrefix(SubSeq(w, Len(old) + 1, Len(w)), v)

\* A rotation may lose the oldest file.
LEMMA KeptWhenRotated ==
    ASSUME MaxFiles \in Nat, NEW M, NEW d, NEW e, NEW y \in Seq(M),
           \A i \in 0 .. MaxFiles : Has(d, i) \in Seq(M),
           MovedUp(d, e, y)
    PROVE  /\ OnlyOldestGone(Has(d, MaxFiles), Whole(d), Whole(e))
           /\ \A m : y = <<m>> => Whole(e)[Len(Whole(e))] = m
<1> DEFINE w == Whole(d)
           v == Whole(e)
           old == Has(d, MaxFiles)
<1>1. PICK g \in Seq(M) : v = g \o y /\ (w = g \/ w = old \o g)
  <2>1. Shifted(Seq(M), Has(d, MaxFiles), Whole(d), Whole(e), y)
    BY WholeRotates
  <2> QED
    BY <2>1 DEF Shifted
<1>2. old \in Seq(M)
  <2>1. MaxFiles \in 0 .. MaxFiles
    OBVIOUS
  <2> QED
    BY <2>1
<1> HIDE DEF w, v, old
<1>3. Rotating!IsPrefix(g, v) /\ \A m : y = <<m>> => v[Len(v)] = m
  <2>1. Rotating!IsPrefix(g, g \o y)
    BY ConcatApart
  <2>2. ASSUME NEW m, y = <<m>> PROVE (g \o y)[Len(g \o y)] = m
    BY <2>2, ConcatApart
  <2> QED
    BY <1>1, <2>1, <2>2
<1>4. CASE w = g
  <2>1. OnlyOldestGone(old, w, v)
    BY <1>3, <1>4 DEF OnlyOldestGone
  <2> QED
    BY <1>3, <2>1 DEF w, v, old
<1>5. CASE w = old \o g
  <2>1. SubSeq(old \o g, Len(old) + 1, Len(old \o g)) = g
    BY <1>2, ConcatApart
  <2>2. OnlyOldestGone(old, w, v)
    BY <1>3, <1>5, <2>1 DEF OnlyOldestGone
  <2> QED
    BY <1>3, <2>2 DEF w, v, old
<1> QED
  BY <1>1, <1>4, <1>5

\* A file with a message more, or none at all.
LEMMA KeptWhenWritten ==
    ASSUME MaxFiles \in Nat, NEW M, NEW d, NEW e, NEW m \in M,
           \A i \in 0 .. MaxFiles : Has(d, i) \in Seq(M), Whole(d) \in Seq(M),
           0 \in DOMAIN d, e = Put(d, 0, Append(d[0], m))
    PROVE  Rotating!IsPrefix(Whole(d), Whole(e))
<1> DEFINE a == Has(d, 0)
           y == <<m>>
<1>1. /\ a = d[0] /\ Has(e, 0) = Append(d[0], m)
      /\ \A i \in 1 .. MaxFiles : Has(e, i) = Has(d, i)
  BY DEF Has, Put
<1>2. a \in Seq(M)
  <2>1. 0 \in 0 .. MaxFiles
    OBVIOUS
  <2> QED
    BY <2>1
<1>3. Has(e, 0) = Has(d, 0) \o y /\ y \in Seq(M)
  <2> HIDE DEF a
  <2>1. Append(a, m) = a \o <<m>> /\ <<m>> \in Seq(M)
    BY <1>2, FileGrows
  <2> QED
    BY <1>1, <2>1 DEF a
<1> HIDE DEF y
<1>4. Whole(e) = Whole(d) \o y
  <2>1. Grown(d, e, y)
    BY <1>1, <1>3 DEF Grown
  <2> QED
    BY <1>3, <2>1, WholeGrows
<1> QED
  BY <1>3, <1>4, KeptWhenAppended

\* A log file that comes up empty.
LEMMA KeptWhenCreated ==
    ASSUME MaxFiles \in Nat, NEW M, NEW d, Whole(d) \in Seq(M), 0 \notin DOMAIN d
    PROVE  Rotating!IsPrefix(Whole(d), Whole(Put(d, 0, <<>>)))
<1> DEFINE e == Put(d, 0, <<>>)
<1>1. \A i \in 0 .. MaxFiles : Has(e, i) = Has(d, i)
  BY DEF Has, Put
<1> HIDE DEF e
<1>2. Whole(e) = Whole(d)
  BY <1>1, WholeSame
<1>3. Rotating!IsPrefix(Whole(d), Whole(d))
  BY KeptWhenAlike
<1> QED
  BY <1>2, <1>3 DEF e

\* A step of the files is a step of the messages kept: w before, v after.
LEMMA MessagesMove ==
    ASSUME Rotating!RotatingAssumption, RotatingInv, FilesMove
    PROVE  LET d == Flush(log).disk
               w == Whole(d)
               v == Whole(Flush(log').disk)
           IN  \/ troubled'
               \/ Rotating!IsPrefix(w, v)
               \/ /\ OnlyOldestGone(Has(d, MaxFiles), w, v)
                  /\ asked' \/ Rotating!Total(Has(d, 0)) + v[Len(v)].size > MaxSize
<1> DEFINE d == Flush(log).disk
           e == Flush(log').disk
           M == Logged(sent + 1)
           r == Put(Rotating!Renamed(d, 0), 0, <<>>)
           old == Has(d, MaxFiles)
           w == Whole(d)
           v == Whole(e)
<1> DEFINE Goal == \/ troubled'
                   \/ Rotating!IsPrefix(w, v)
                   \/ /\ OnlyOldestGone(old, w, v)
                      /\ asked' \/ Rotating!Total(Has(d, 0)) + v[Len(v)].size > MaxSize
<1>1. sent \in Nat /\ sent + 1 \in Nat /\ MaxFiles \in Nat /\ Chain(d, sent)
  BY DEF RotatingInv, LogFile, Rotating!RotatingAssumption
<1>2. Chain(d, sent + 1)
  BY <1>1, ChainLater
<1> HIDE DEF d, e
<1>3. w \in Seq(M) /\ \A i \in 0 .. MaxFiles : Has(d, i) \in Seq(M)
  BY <1>1, <1>2, HasFacts, WholeInOrder
<1>4. <<>> \in Seq(M) /\ \A m \in M : <<m>> \in Seq(M)
  <2> HIDE DEF M
  <2> QED
    OBVIOUS
<1>5. ASSUME e = d
      PROVE  Goal
  <2>1. Rotating!IsPrefix(w, w)
    BY <1>3, KeptWhenAlike
  <2> QED
    BY <1>5, <2>1
<1>6. ASSUME 0 \notin DOMAIN d, e = Put(d, 0, <<>>)
      PROVE  Goal
  <2>1. Rotating!IsPrefix(w, Whole(Put(d, 0, <<>>)))
    BY <1>1, <1>3, <1>6, KeptWhenCreated
  <2> QED
    BY <1>6, <2>1
<1>7. ASSUME NEW m \in M, 0 \in DOMAIN d, e = Put(d, 0, Append(d[0], m))
      PROVE  Goal
  <2> HIDE DEF M
  <2>1. Rotating!IsPrefix(w, v)
    BY <1>1, <1>3, <1>7, KeptWhenWritten
  <2> QED
    BY <2>1
<1>8. ASSUME asked', e = r
      PROVE  Goal
  <2> DEFINE y == <<>>
  <2>1. MovedUp(d, e, y)
    BY <1>1, <1>8, RotatedHas
  <2>2. y \in Seq(M)
    BY <1>4
  <2> HIDE DEF y, M
  <2>3. OnlyOldestGone(old, w, v)
    BY <1>1, <1>3, <2>1, <2>2, KeptWhenRotated
  <2> QED
    BY <1>8, <2>3
<1>9. ASSUME NEW m \in M, e = Put(r, 0, <<m>>),
             asked' \/ (0 \in DOMAIN d /\ Rotating!Total(d[0]) + m.size > MaxSize)
      PROVE  Goal
  <2> DEFINE y == <<m>>
  <2>1. MovedUp(d, e, y)
    BY <1>1, <1>9, RotatedHas
  <2>2. y \in Seq(M)
    BY <1>4
  <2> HIDE DEF y, M
  <2>3. OnlyOldestGone(old, w, v) /\ \A x : y = <<x>> => v[Len(v)] = x
    BY <1>1, <1>3, <2>1, <2>2, KeptWhenRotated
  <2>4. v[Len(v)] = m
    BY <2>3 DEF y
  <2>5. 0 \in DOMAIN d => Has(d, 0) = d[0]
    BY DEF Has
  <2> HIDE DEF w, v
  <2> QED
    BY <1>9, <2>3, <2>4, <2>5
<1>10. \/ troubled'
       \/ e = d
       \/ 0 \notin DOMAIN d /\ e = Put(d, 0, <<>>)
       \/ 0 \in DOMAIN d /\ \E m \in M : e = Put(d, 0, Append(d[0], m))
       \/ asked' /\ e = r
       \/ \E m \in M :
             /\ e = Put(r, 0, <<m>>)
             /\ asked' \/ (0 \in DOMAIN d /\ Rotating!Total(d[0]) + m.size > MaxSize)
  BY DEF FilesMove, d, e
<1>11. Goal
  <2>1. CASE troubled'
    BY <2>1
  <2>2. CASE 0 \in DOMAIN d /\ \E m \in M : e = Put(d, 0, Append(d[0], m))
    <3> HIDE DEF Goal, M
    <3> QED
      BY <1>7, <2>2
  <2>3. CASE \E m \in M :
                /\ e = Put(r, 0, <<m>>)
                /\ asked' \/ (0 \in DOMAIN d /\ Rotating!Total(d[0]) + m.size > MaxSize)
    <3> HIDE DEF Goal, M, r
    <3> QED
      BY <1>9, <2>3
  <2> HIDE DEF Goal, M, r
  <2> QED
    BY <1>5, <1>6, <1>8, <1>10, <2>1, <2>2, <2>3
<1> QED
  BY <1>11 DEF d, e

-----------------------------------------------------------------------------
(* What a rotating sink promises                                            *)

\* The sink's own names for its content.
LEMMA ContentOfSink ==
    /\ \A i : Rotating!Content(i) = ContentIn(log, i)
    /\ Rotating!Kept = KeptIn(log)
<1>1. \A i : Rotating!Content(i) = ContentIn(log, i)
  BY DEF Rotating!Content, ContentIn
<1>2. Rotating!Kept = KeptIn(log)
  BY DEF Rotating!Kept, KeptIn, Rotating!Content, ContentIn
<1> QED
  BY <1>1, <1>2

\* What the sink keeps is what its files have once the buffer is written.
LEMMA SinkContents ==
    ASSUME Rotating!RotatingAssumption, RotatingInv
    PROVE  /\ sent \in Nat /\ Chain(Flush(log).disk, sent)
           /\ \A i \in 0 .. MaxFiles : Rotating!Content(i) = Has(Flush(log).disk, i)
           /\ Rotating!Kept = Whole(Flush(log).disk)
<1>1. sent \in Nat /\ LogFile(log, sent) /\ MaxFiles \in Nat
  BY DEF RotatingInv, Rotating!RotatingAssumption
<1>2. /\ \A i \in 0 .. MaxFiles : ContentIn(log, i) = Has(Flush(log).disk, i)
      /\ KeptIn(log) = Whole(Flush(log).disk)
  BY <1>1, ContentFacts
<1> QED
  BY <1>1, <1>2, ContentOfSink DEF LogFile

\* No file is too large, and the messages are in order.
LEMMA RotatingConsequences ==
    ASSUME Rotating!RotatingAssumption, RotatingInv
    PROVE  SizeBounded /\ KeptInOrder
<1> DEFINE d == Flush(log).disk
<1>1. /\ sent \in Nat /\ Chain(d, sent)
      /\ \A i \in 0 .. MaxFiles : Rotating!Content(i) = Has(d, i)
      /\ Rotating!Kept = Whole(d)
  BY SinkContents
<1> HIDE DEF d
<1>2. \A i \in 0 .. MaxFiles : Fits(Has(d, i))
  BY <1>1, EmptyFits DEF Has, Chain
<1>3. Increasing(Whole(d))
  BY <1>1, WholeInOrder DEF Rotating!RotatingAssumption
<1>4. SizeBounded
  BY <1>1, <1>2 DEF SizeBounded, Rotating!SizeBounded, Fits
<1>5. KeptInOrder
  BY <1>1, <1>3 DEF KeptInOrder, Rotating!KeptInOrder, Increasing
<1> QED
  BY <1>4, <1>5

\* Only the oldest file is lost, in one step.
LEMMA RotatingLoses ==
    ASSUME Rotating!RotatingAssumption, RotatingInv, RotatingInv', FilesMove
    PROVE  LET oldest == IF MaxFiles = 0 THEN Rotating!Content(0) ELSE Rotating!Content(MaxFiles)
               rest   == SubSeq(Rotating!Kept, Len(oldest) + 1, Len(Rotating!Kept))
           IN  \/ troubled'
               \/ Rotating!IsPrefix(Rotating!Kept, Rotating!Kept')
               \/ /\ Rotating!IsPrefix(rest, Rotating!Kept')
                  /\ \/ asked'
                     \/ Rotating!Total(Rotating!Content(0))
                          + Rotating!Kept'[Len(Rotating!Kept')].size > MaxSize
<1> DEFINE d == Flush(log).disk
           w == Whole(d)
           v == Whole(Flush(log').disk)
<1>1. MaxFiles \in Nat
  BY DEF Rotating!RotatingAssumption
<1>2. \A i \in 0 .. MaxFiles : Rotating!Content(i) = Has(d, i)
  BY SinkContents
<1>3. Rotating!Kept = w
  BY SinkContents
<1>4. Rotating!Kept' = v
  <2>1. Rotating!Kept' = KeptIn(log')
    BY DEF Rotating!Kept, KeptIn, Rotating!Content, ContentIn
  <2>2. sent' \in Nat /\ LogFile(log', sent')
    BY DEF RotatingInv
  <2>3. KeptIn(log') = Whole(Flush(log').disk)
    BY <1>1, <2>2, ContentFacts
  <2> QED
    BY <2>1, <2>3
<1>5. \/ troubled'
      \/ Rotating!IsPrefix(w, v)
      \/ /\ OnlyOldestGone(Has(d, MaxFiles), w, v)
         /\ asked' \/ Rotating!Total(Has(d, 0)) + v[Len(v)].size > MaxSize
  BY MessagesMove
<1>6. /\ Rotating!Content(0) = Has(d, 0)
      /\ (IF MaxFiles = 0 THEN Rotating!Content(0) ELSE Rotating!Content(MaxFiles)) = Has(d, MaxFiles)
  BY <1>1, <1>2
<1> HIDE DEF d, w, v
<1> QED
  BY <1>3, <1>4, <1>5, <1>6 DEF OnlyOldestGone

\* rotating_file_sink "based on size": no file outgrows the limit, whatever fails, unless
\* a single message does.
THEOREM FilesAreSizeBounded ==
    ASSUME Rotating!RotatingAssumption
    PROVE  Rotating!Spec => []SizeBounded
<1>1. Rotating!Init => RotatingInv
  BY InitRotating
<1>2. RotatingInv /\ [Rotating!Next]_(Rotating!vars) => RotatingInv'
  BY RotatingStep
<1>3. RotatingInv => SizeBounded
  BY RotatingConsequences
<1> QED
  BY <1>1, <1>2, <1>3, PTL DEF Rotating!Spec

\* The files from the oldest to the log file hold messages in the order in which they
\* were logged, whatever rotation was cut short or killed.
THEOREM MessagesKeptInOrder ==
    ASSUME Rotating!RotatingAssumption
    PROVE  Rotating!Spec => []KeptInOrder
<1>1. Rotating!Init => RotatingInv
  BY InitRotating
<1>2. RotatingInv /\ [Rotating!Next]_(Rotating!vars) => RotatingInv'
  BY RotatingStep
<1>3. RotatingInv => KeptInOrder
  BY RotatingConsequences
<1> QED
  BY <1>1, <1>2, <1>3, PTL DEF Rotating!Spec

\* rotate_ loses nothing but the oldest file, and, unless somebody asked for a rotation,
\* only when the log file has no room for the message that follows.
THEOREM OnlyOldestIsLost ==
    ASSUME Rotating!RotatingAssumption
    PROVE  Rotating!Spec => LosesOnlyTheOldest
<1> DEFINE Loses ==
             LET oldest == IF MaxFiles = 0 THEN Rotating!Content(0) ELSE Rotating!Content(MaxFiles)
                 rest   == SubSeq(Rotating!Kept, Len(oldest) + 1, Len(Rotating!Kept))
             IN  \/ troubled'
                 \/ Rotating!IsPrefix(Rotating!Kept, Rotating!Kept')
                 \/ /\ Rotating!IsPrefix(rest, Rotating!Kept')
                    /\ \/ asked'
                       \/ Rotating!Total(Rotating!Content(0))
                            + Rotating!Kept'[Len(Rotating!Kept')].size > MaxSize
<1>1. Rotating!Init => RotatingInv
  BY InitRotating
<1>2. RotatingInv /\ [Rotating!Next]_(Rotating!vars) => RotatingInv'
  BY RotatingStep
<1>3. RotatingInv /\ [Rotating!Next]_(Rotating!vars) => Loses
  BY RotatingStep, RotatingLoses
<1> QED
  BY <1>1, <1>2, <1>3, PTL DEF Rotating!Spec, LosesOnlyTheOldest, Rotating!LosesOnlyTheOldest

=============================================================================

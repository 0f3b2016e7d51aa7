---------------------------- MODULE RotatingFileSink ----------------------------
(***************************************************************************)
(* spdlog's rotating_file_sink: a log file that is renamed to log.1,       *)
(* log.1 to log.2 and so on when the next message would make it too large. *)
(* File 0 is the log file, file i is log.i. Every call holds the mutex of  *)
(* base_sink, so calls do not overlap; any call to the operating system    *)
(* may fail, and the program may end or be killed between two calls.       *)
(***************************************************************************)
EXTENDS FileHelper, Naturals, FiniteSets, SequencesExt

CONSTANTS
    MaxSize,    \* max_size_
    MaxFiles,   \* max_files_
    Sizes,      \* sizes of formatted messages
    MaxLogs     \* bound: messages

RotatingAssumption ==
    MaxSize \in Nat \ {0} /\ MaxFiles \in Nat /\ Sizes \subseteq Nat \ {0} /\ MaxLogs \in Nat

VARIABLES
    file,           \* file_helper_
    current_size_,
    running,        \* the sink exists
    sent,           \* messages so far
    troubled,       \* a call failed or the program was killed (history)
    asked           \* rotate_now was called (history)

vars == <<file, current_size_, running, sent, troubled, asked>>

Message == [n : 1 .. MaxLogs, size : Sizes]

Total(content) == FoldLeft(LAMBDA sum, m : sum + m.size, 0, content)

Init ==
    /\ file = NewHelper(<<>>, 0)
    /\ current_size_ = 0
    /\ running = FALSE
    /\ sent = 0
    /\ troubled = FALSE
    /\ asked = FALSE

Fail == troubled' = TRUE

-----------------------------------------------------------------------------
(* rotate_                                                                  *)

\* Mutant: a file is copied, and stays when nothing is renamed onto it.
RenamedCopies(disk, k) ==
    LET moved == {i \in DOMAIN disk : i >= k /\ i < MaxFiles}
    IN  [i \in DOMAIN disk \cup {j + 1 : j \in moved} |->
            IF i - 1 \in moved THEN disk[i - 1] ELSE disk[i]]

\* The loop down to the rename of k to k + 1. A target that exists is removed, a
\* source that does not exist is skipped.
Renamed(disk, k) ==
    LET moved == {i \in DOMAIN disk : i >= k /\ i < MaxFiles}
        files == (DOMAIN disk \ moved) \cup {i + 1 : i \in moved}
    IN  [i \in files |-> IF i - 1 \in moved THEN disk[i - 1] ELSE disk[i]]

\* The file is emptied only after the renames: it is log.1 by then.
Rotated(h) == Open([Close(h) EXCEPT !.disk = Renamed(@, 0)], 0, TRUE)

\* The files when the loop stops at one of its renames, the target being removed.
CutShort(disk) ==
    {LET d == Renamed(disk, i) IN Restrict(d, DOMAIN d \ {i}) :
        i \in {j \in 1 .. MaxFiles : j - 1 \in DOMAIN disk}}

\* What a rotation that throws leaves: the rename of a file failed twice, after its
\* target was removed, and the log file was emptied and opened all the same or
\* could not be opened; or all was renamed and the log file could not be opened.
RotationFailures(h) ==
    LET c   == Close(h)
        cut == CutShort(c.disk)
    IN  {[file |-> Open([c EXCEPT !.disk = d], 0, TRUE), size |-> 0] : d \in cut}
        \cup {[file |-> f, size |-> current_size_] :
                 f \in UNION {OpenFailures([c EXCEPT !.disk = d], 0, TRUE) :
                                 d \in cut \cup {Renamed(c.disk, 0)}}}

-----------------------------------------------------------------------------
(* Calls of the sink                                                        *)

\* The end of sink_it_: write, and keep the new size unless write throws.
WriteTo(h, m, new_size) ==
    \/ /\ file' \in Writes(h, m)
       /\ current_size_' = new_size
       /\ UNCHANGED troubled
    \/ /\ h.open
       /\ file' = h
       /\ UNCHANGED current_size_
       /\ Fail

\* Mutants: the buffer is not flushed before the file is measured; the size is not
\* that of the new file after a rotation.
SinkItUnflushed(m) ==
    LET new_size == current_size_ + m.size
    IN  IF new_size <= MaxSize \/ (file.open /\ OnDisk(file) = <<>>)
        THEN WriteTo(file, m, new_size)
        ELSE file.open /\ WriteTo(Rotated(file), m, m.size)

SinkItKeepsSize(m) ==
    LET new_size == current_size_ + m.size
    IN  IF new_size <= MaxSize \/ (file.open /\ OnDisk(Flush(file)) = <<>>)
        THEN WriteTo(Flush(file), m, new_size)
        ELSE file.open /\ WriteTo(Rotated(file), m, new_size)

\* The body of sink_it_ for message m. The two calls that throw on their own, flush
\* and size, leave everything as it is.
Sink(m) ==
    LET new_size == current_size_ + m.size
        flushed  == Flush(file)
    IN  \/ new_size <= MaxSize /\ WriteTo(file, m, new_size)
        \/ /\ new_size > MaxSize /\ file.open
           /\ \/ OnDisk(flushed) = <<>> /\ WriteTo(flushed, m, new_size)
              \/ OnDisk(flushed) # <<>> /\ WriteTo(Rotated(flushed), m, m.size)
              \/ /\ OnDisk(flushed) # <<>>
                 /\ \E r \in RotationFailures(flushed) : file' = r.file /\ current_size_' = r.size
                 /\ Fail
        \/ /\ new_size > MaxSize
           /\ UNCHANGED <<file, current_size_>>
           /\ Fail

SinkIt ==
    /\ running /\ sent < MaxLogs
    /\ sent' = sent + 1
    /\ \E size \in Sizes : Sink([n |-> sent + 1, size |-> size])
    /\ UNCHANGED <<running, asked>>

\* rotate_now does not touch current_size_ unless a rename fails.
RotateNow ==
    /\ running
    /\ asked' = TRUE
    /\ \/ file' = Rotated(file) /\ UNCHANGED <<current_size_, troubled>>
       \/ /\ \E r \in RotationFailures(file) : file' = r.file /\ current_size_' = r.size
          /\ Fail
    /\ UNCHANGED <<running, sent>>

\* flush_
FlushIt ==
    /\ running
    /\ file' = Flush(file)
    /\ UNCHANGED <<current_size_, running, sent, troubled, asked>>

\* The constructor, over the files an earlier program left, with rotate_on_open or
\* without. When it throws there is no sink.
Start ==
    /\ ~ running
    /\ LET opened == Open(file, 0, FALSE)
           size   == Total(OnDisk(opened))
       IN  \/ /\ file' = opened
              /\ current_size_' = size
              /\ running' = TRUE
              /\ UNCHANGED <<asked, troubled>>
           \/ /\ size > 0
              /\ file' = Rotated(opened)
              /\ current_size_' = 0
              /\ running' = TRUE
              /\ asked' = TRUE
              /\ UNCHANGED troubled
           \/ /\ size > 0
              /\ \E r \in RotationFailures(opened) : file' = Close(r.file)
              /\ UNCHANGED <<current_size_, running, asked>>
              /\ Fail
    /\ UNCHANGED sent

\* The sink is destroyed.
Stop ==
    /\ running
    /\ running' = FALSE
    /\ file' = Close(file)
    /\ UNCHANGED <<current_size_, sent, troubled, asked>>

\* The program is killed: between two calls, when stdio's buffer is lost, or in a
\* rotation, before or after the target of a rename is removed.
Kill ==
    /\ running
    /\ running' = FALSE
    /\ LET killed == [file EXCEPT !.open = FALSE, !.linked = FALSE, !.buffer = <<>>]
           c      == Close(file)
       IN  file' \in {killed} \cup
              {[c EXCEPT !.disk = d] :
                  d \in CutShort(c.disk) \cup {Renamed(c.disk, k) : k \in 0 .. MaxFiles}}
    /\ Fail
    /\ UNCHANGED <<current_size_, sent, asked>>

Next == SinkIt \/ RotateNow \/ FlushIt \/ Start \/ Stop \/ Kill

Spec == Init /\ [][Next]_vars

-----------------------------------------------------------------------------
Content(i) ==
    (IF i \in DOMAIN file.disk THEN file.disk[i] ELSE <<>>) \o (IF i = 0 THEN file.buffer ELSE <<>>)

\* All messages kept, from the oldest file to the log file.
Kept == FlattenSeq([k \in 1 .. MaxFiles + 1 |-> Content(MaxFiles + 1 - k)])

\* rotating_file_sink "based on size": no file ever grows beyond the limit by more
\* than a single message that is too large itself, whatever failed, and also
\* after a restart on files that were there.
SizeBounded ==
    \A i \in 0 .. MaxFiles : Total(Content(i)) <= MaxSize \/ Len(Content(i)) = 1

\* However rotations are cut short, reading the files from the oldest to the newest
\* gives messages in the order in which they were logged, each at most once.
KeptInOrder == \A i, j \in 1 .. Len(Kept) : i < j => Kept[i].n < Kept[j].n

\* Unless an operation failed, nothing that was kept goes except the oldest file,
\* when there are MaxFiles of them; and unless somebody asked for a rotation it
\* goes only because the log file had no room for the next message.
LosesOnlyTheOldest ==
    [][ LET oldest == IF MaxFiles = 0 THEN Content(0) ELSE Content(MaxFiles)
            rest   == SubSeq(Kept, Len(oldest) + 1, Len(Kept))
        IN  \/ troubled'
            \/ IsPrefix(Kept, Kept')
            \/ /\ IsPrefix(rest, Kept')
               /\ asked' \/ Total(Content(0)) + Kept'[Len(Kept')].size > MaxSize ]_vars

=============================================================================

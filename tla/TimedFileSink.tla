----------------------------- MODULE TimedFileSink -----------------------------
(***************************************************************************)
(* spdlog's daily_file_sink and hourly_file_sink: one file for each day or *)
(* hour, named after it. Time is counted in ticks, Period of them to a     *)
(* day or hour; file n belongs to the n-th day or hour. As calls hold the  *)
(* mutex of base_sink they do not overlap, but a message is logged before  *)
(* the sink gets it, and through an asynchronous logger long before.       *)
(***************************************************************************)
EXTENDS FileHelper, CircularQ, FiniteSets

CONSTANTS
    Kinds,          \* which of the two sinks
    Period,         \* ticks of a day or hour
    Rotations,      \* times of day for the rotation of a daily sink
    MaxFilesArgs,   \* values of max_files
    TruncateArgs,   \* values of truncate
    Earlier,        \* files an earlier program may have left
    StartTick,      \* when the program starts
    MaxTick,        \* bound: the clock
    Delay,          \* how late a message may come
    MaxStarts,      \* bound: sinks created one after the other
    MaxLogs         \* bound: messages

TimedAssumption ==
    /\ Kinds \subseteq {"daily", "hourly"}
    /\ Period \in Nat \ {0} /\ Rotations \subseteq 0 .. Period - 1
    /\ MaxFilesArgs \subseteq Nat /\ TruncateArgs \subseteq BOOLEAN
    /\ StartTick \in Nat /\ MaxTick \in Nat /\ Delay \in 0 .. StartTick
    /\ Earlier \subseteq 0 .. StartTick \div Period /\ MaxStarts \in Nat /\ MaxLogs \in Nat

VARIABLES
    kind, rotation_, max_files_, truncate_,     \* fixed by the program
    now,
    file,           \* file_helper_
    rotation_tp_,
    filenames_q_,
    remove_init_file_,
    running,        \* the sink exists
    starts,         \* sinks created so far
    logged,         \* messages so far
    opened,         \* files this sink opened (history)
    missed          \* files that a failure kept from being deleted (history)

args == <<kind, rotation_, max_files_, truncate_>>
vars == <<args, now, file, rotation_tp_, filenames_q_, remove_init_file_,
          running, starts, logged, opened, missed>>

\* The line of a message; its text does not matter here.
Line == "line"

FileOf(time) == time \div Period

Init ==
    /\ kind \in Kinds
    /\ rotation_ \in IF kind = "daily" THEN Rotations ELSE {0}
    /\ max_files_ \in MaxFilesArgs /\ truncate_ \in TruncateArgs
    /\ now = StartTick
    /\ \E left \in SUBSET Earlier : file = NewHelper([n \in left |-> <<Line>>], FileOf(now))
    /\ rotation_tp_ = 0
    /\ filenames_q_ = NewQ(0)
    /\ remove_init_file_ = FALSE
    /\ running = FALSE
    /\ starts = 0 /\ logged = 0 /\ opened = {} /\ missed = {}

Tick ==
    /\ now < MaxTick
    /\ now' = now + 1
    /\ UNCHANGED <<args, file, rotation_tp_, filenames_q_, remove_init_file_,
                   running, starts, logged, opened, missed>>

-----------------------------------------------------------------------------
\* next_rotation_tp_, from the clock and not from the time of the message.
NextRotation ==
    LET rotation_time == FileOf(now) * Period + rotation_
    IN  IF rotation_time > now THEN rotation_time ELSE rotation_time + Period

Seqs == INSTANCE SequencesExt

\* init_filenames_q_: the files of today and of the days before, up to the first
\* that is missing.
InitFilenames(disk) ==
    LET n == Cardinality({k \in 0 .. max_files_ - 1 :
                             \A j \in 0 .. k : FileOf(now) - j \in DOMAIN disk})
    IN  Seqs!FoldLeft(PushBack, NewQ(max_files_), [i \in 1 .. n |-> FileOf(now) - n + i])

\* The constructor. When the file cannot be opened it throws and there is no sink.
Start ==
    /\ ~ running /\ starts < MaxStarts
    /\ starts' = starts + 1
    /\ \/ /\ file' = Open(file, FileOf(now), truncate_)
          /\ remove_init_file_' = (kind = "hourly" /\ OnDisk(file') = <<>>)
          /\ rotation_tp_' = NextRotation
          /\ filenames_q_' = IF max_files_ > 0 THEN InitFilenames(file'.disk) ELSE NewQ(0)
          /\ running' = TRUE
          /\ opened' = {FileOf(now)} /\ missed' = {}
       \/ /\ file' \in OpenFailures(file, FileOf(now), truncate_)
          /\ UNCHANGED <<rotation_tp_, filenames_q_, remove_init_file_, running, opened, missed>>
    /\ UNCHANGED <<args, now, logged>>

\* Mutant: the first file is deleted even if the queue has room.
DeleteOldAlways(h) ==
    /\ filenames_q_' = PushBack(PopFront(filenames_q_), h.filename)
    /\ file' = RemoveFile(h, Front(filenames_q_))
    /\ UNCHANGED missed

\* delete_old_, after a rotation that wrote its message: when the queue is full
\* its first file is deleted; if that fails the file is forgotten.
DeleteOld(h) ==
    LET q == filenames_q_
    IN \/ /\ max_files_ > 0 /\ Full(q)
          /\ filenames_q_' = PushBack(PopFront(q), h.filename)
          /\ \/ file' = RemoveFile(h, Front(q)) /\ UNCHANGED missed
             \/ /\ Front(q) \in DOMAIN h.disk
                /\ file' = h /\ missed' = missed \cup {Front(q)}
       \/ /\ max_files_ > 0 /\ ~ Full(q)
          /\ filenames_q_' = PushBack(q, h.filename)
          /\ file' = h /\ UNCHANGED missed
       \/ /\ max_files_ = 0
          /\ file' = h /\ UNCHANGED <<filenames_q_, missed>>

\* What a rotation starts from: an hourly sink removes a first file it never wrote
\* to, without a look at whether that worked.
BeforeOpen ==
    IF remove_init_file_ THEN {RemoveFile(Close(file), file.filename), Close(file)} ELSE {file}

StillOpened == IF remove_init_file_ THEN opened \ {file.filename} ELSE opened

\* sink_it_ before the time of the rotation; write may throw.
SinkIt(time) ==
    /\ running /\ time < rotation_tp_ /\ logged < MaxLogs
    /\ logged' = logged + 1
    /\ remove_init_file_' = FALSE
    /\ file' \in Writes(file, Line) \cup {file}
    /\ UNCHANGED <<args, now, rotation_tp_, filenames_q_, running, starts, opened, missed>>

\* Mutant: the next rotation is set before the file is open.
RotateBeforeOpen(time) ==
    /\ running /\ time >= rotation_tp_ /\ logged < MaxLogs
    /\ logged' = logged + 1
    /\ rotation_tp_' = NextRotation
    /\ \E h \in BeforeOpen : file' \in OpenFailures(h, FileOf(time), truncate_)
    /\ UNCHANGED <<args, now, remove_init_file_, filenames_q_, running, starts, opened, missed>>

\* sink_it_ from that time on. When open throws nothing is set; when write throws
\* the new file does not get into the queue.
Rotate(time) ==
    /\ running /\ time >= rotation_tp_ /\ logged < MaxLogs
    /\ logged' = logged + 1
    /\ \E before \in BeforeOpen :
          \/ /\ rotation_tp_' = NextRotation
             /\ remove_init_file_' = FALSE
             /\ opened' = StillOpened \cup {FileOf(time)}
             /\ LET new == Open(before, FileOf(time), truncate_)
                IN  \/ \E h \in Writes(new, Line) : DeleteOld(h)
                    \/ /\ file' = new /\ missed' = missed \cup {FileOf(time)}
                       /\ UNCHANGED filenames_q_
          \/ /\ file' \in OpenFailures(before, FileOf(time), truncate_)
             /\ opened' = StillOpened
             /\ UNCHANGED <<rotation_tp_, filenames_q_, remove_init_file_, missed>>
    /\ UNCHANGED <<args, now, running, starts>>

\* The program ends: the sink is destroyed, or killed with what stdio holds.
Stop ==
    /\ running
    /\ running' = FALSE
    /\ file' \in {Close(file), [file EXCEPT !.open = FALSE, !.linked = FALSE, !.buffer = <<>>]}
    /\ UNCHANGED <<args, now, rotation_tp_, filenames_q_, remove_init_file_, starts,
                   logged, opened, missed>>

Next ==
    \/ Tick \/ Start \/ Stop
    \/ \E d \in 0 .. Delay : SinkIt(now - d) \/ Rotate(now - d)

Spec == Init /\ [][Next]_vars

-----------------------------------------------------------------------------
\* The last max_files_ of the files this sink opened.
LastFiles ==
    {n \in opened : max_files_ = 0 \/ Cardinality({o \in opened : o > n}) < max_files_}

\* daily_file_sink with a rotation at midnight, and hourly_file_sink: the last
\* max_files_ files are there, through late messages, failures and restarts; the
\* open one above all.
LastFilesRetained == running /\ rotation_ = 0 => LastFiles \subseteq DOMAIN file.disk

\* delete_old_: at most max_files_ of the files that the sink opened are left, not
\* counting those whose deletion failed or that were never queued for it.
OldFilesDeleted ==
    running /\ max_files_ > 0 =>
        Cardinality((opened \cap DOMAIN file.disk) \ missed) <= max_files_

\* A sink without a file is due to rotate: the next message of the present opens
\* one again, so that a failure is not for good.
ClosedOnlyWhileDue == running /\ ~ file.open => now >= rotation_tp_

\* daily_file_sink.h:64, "If max_files > 0, retain only the last max_files and
\* delete previous", whatever the time of the rotation.
RetainsLastFiles == running => LastFiles \subseteq DOMAIN file.disk

=============================================================================

------------------------------- MODULE FileHelper -------------------------------
(***************************************************************************)
(* spdlog's file_helper, and what the file sinks see of the file system:   *)
(* a record of                                                             *)
(*   disk      the files that exist, with what has reached each of them    *)
(*   filename  filename_, the file opened last                             *)
(*   open      fd_ is not null                                             *)
(*   linked    the open file still has its name                            *)
(*   buffer    what stdio has not passed on yet                            *)
(* A call that throws is an operator of its own: its caller decides what   *)
(* the exception skips.                                                    *)
(***************************************************************************)
EXTENDS Sequences, Functions

NewHelper(disk, name) ==
    [disk |-> disk, filename |-> name, open |-> FALSE, linked |-> FALSE, buffer |-> <<>>]

Put(disk, name, content) ==
    [n \in DOMAIN disk \cup {name} |-> IF n = name THEN content ELSE disk[n]]

\* os::remove: an open file lives on without its name.
RemoveFile(h, name) ==
    [h EXCEPT !.disk = Restrict(@, DOMAIN @ \ {name}),
              !.linked = @ /\ name # h.filename]

\* fflush on a null pointer flushes the other streams and does not fail.
Flush(h) ==
    IF ~ h.open THEN h
    ELSE [h EXCEPT !.buffer = <<>>,
                   !.disk = IF h.linked THEN Put(@, h.filename, @[h.filename] \o h.buffer)
                            ELSE @]

\* Mutant: what is still in the buffer is dropped.
CloseDropsBuffer(h) == [h EXCEPT !.open = FALSE, !.linked = FALSE, !.buffer = <<>>]

Close(h) == [Flush(h) EXCEPT !.open = FALSE, !.linked = FALSE]

\* open: close, empty the file if asked to, open it to append.
Open(h, name, truncate) ==
    LET c == Close(h)
    IN  [c EXCEPT !.filename = name, !.open = TRUE, !.linked = TRUE,
                  !.disk = Put(@, name, IF truncate \/ name \notin DOMAIN @ THEN <<>>
                                        ELSE @[name])]

\* open, when every try failed: the file may have been emptied before.
OpenFailures(h, name, truncate) ==
    LET c == [Close(h) EXCEPT !.filename = name]
    IN  {c} \cup IF truncate THEN {[c EXCEPT !.disk = Put(@, name, <<>>)]} ELSE {}

\* write ignores the message while there is no file; otherwise stdio keeps it or
\* passes everything on.
Writes(h, m) ==
    IF ~ h.open THEN {h}
    ELSE LET written == [h EXCEPT !.buffer = Append(@, m)]
         IN  {written, Flush(written)}

\* What size() measures: the file without the buffer.
OnDisk(h) == IF h.linked THEN h.disk[h.filename] ELSE <<>>

=============================================================================

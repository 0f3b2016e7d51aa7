------------------------------ MODULE MCFileSinks ------------------------------
(* The file sinks. They share nothing but the code of file_helper, so each     *)
(* behaviour is one of a daily or hourly sink or one of a rotating sink.       *)
EXTENDS TimedFileSink

CONSTANTS MaxSize, MaxFiles, Sizes, RotatingLogs

VARIABLES which, log, current_size_, log_running, sent, troubled, asked

Rotating == INSTANCE RotatingFileSink WITH
    file <- log, running <- log_running, MaxLogs <- RotatingLogs

ASSUME SinksAssumption == Rotating!RotatingAssumption /\ TimedAssumption

SinksInit ==
    /\ which \in {"rotating", "timed"}
    /\ Rotating!Init /\ Init
    \* the sink that is not looked at has no choices either
    /\ which = "rotating" =>
          /\ kind = "daily" /\ rotation_ = 0 /\ max_files_ = 0 /\ truncate_ = FALSE
          /\ DOMAIN file.disk = {}

rotatingVars == <<log, current_size_, log_running, sent, troubled, asked>>

SinksNext ==
    /\ UNCHANGED which
    /\ \/ which = "rotating" /\ Rotating!Next /\ UNCHANGED vars
       \/ which = "timed" /\ Next /\ UNCHANGED rotatingVars

SinksSpec == SinksInit /\ [][SinksNext]_<<which, rotatingVars, vars>>

-----------------------------------------------------------------------------
\* RotatingFileSink: no file outgrows the limit (rotating_file_sink "based on size").
SizeBounded == Rotating!SizeBounded

\* RotatingFileSink: the files from old to new hold messages in the order logged,
\* whatever rotation was cut short.
KeptInOrder == Rotating!KeptInOrder

\* RotatingFileSink: rotate_ loses nothing but the oldest file, and only for want of
\* room, unless an operation failed.
LosesOnlyTheOldest == Rotating!LosesOnlyTheOldest

=============================================================================

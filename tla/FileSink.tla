------------------------------ MODULE FileSink ------------------------------
(***************************************************************************)
(* The file sink behind the audit service: its log file, the files that     *)
(* rotation has put aside, and the handle that it writes through.           *)
(*                                                                         *)
(* A rotation renames one file after the other and may fail at each of      *)
(* them.  The sink then keeps its old handle and the size it remembers, and *)
(* tries again with the next line that does not fit: the handle follows the *)
(* renames, away from the log file.  Only the task calls the sink, so a     *)
(* call is one step, that of AuditService's DeliverToSink.                  *)
(***************************************************************************)
EXTENDS AuditService

CONSTANTS
    File,          \* the place of the file sink in the sinks vector
    max_files,     \* rotated files to keep; 0 keeps one, as 1 does
    max_size,      \* max_size_mb, in the unit of LineLength
    LineLength,    \* LineLength[e]: the length of event e as a line
    NoFile

ASSUME FileAssumption ==
    /\ File \in Sinks \ Firehose /\ BatchSize[File] = 1
    /\ max_files \in Nat \ {0} /\ max_size \in Nat
    /\ LineLength \in [1..MaxEvents -> Nat \ {0}]
    /\ NoFile \notin Seq(Nat)

VARIABLES
    files,          \* files[n]: the lines of the nth rotated file, of the log file for 0
    handle,         \* the file that the writer has open; max_files + 1 once it is removed
    current_size,   \* what the sink takes to be the size of the log file
    failures        \* history: rotations that have failed

fileVars == <<files, handle, current_size, failures>>
allVars == <<auditVars, fileVars>>

FileInit ==
    /\ AuditInit
    /\ files = [n \in 0..max_files |-> IF n = 0 THEN <<>> ELSE NoFile]
    /\ handle = 0 /\ current_size = 0 /\ failures = 0

-----------------------------------------------------------------------------

\* Mutant: the shift leaves out the first rotated file, which the log file
\* then replaces.
ShiftedButFirst(j) ==
    [n \in DOMAIN files |->
        IF n < j \/ n = 2 THEN files[n] ELSE IF n = j THEN NoFile ELSE files[n - 1]]

\* The files once rotate has removed the oldest and renamed all from the jth on.
Shifted(j) ==
    [n \in DOMAIN files |-> IF n < j THEN files[n] ELSE IF n = j THEN NoFile ELSE files[n - 1]]

\* The renamed file stays open.
Moved(j) == IF handle \in j..max_files THEN handle + 1 ELSE handle

TooLong(e) == current_size + LineLength[e] > max_size /\ current_size > 0

\* BufWriter keeps a line whose flush fails, and writes it later.
WriteLine(e) ==
    /\ ~TooLong(e) /\ stored' # stored
    /\ files' = IF handle \in DOMAIN files THEN [files EXCEPT ![handle] = Append(@, e)] ELSE files
    /\ current_size' = current_size + LineLength[e]
    /\ UNCHANGED <<handle, failures>>

RotateAndWrite(e) ==
    /\ TooLong(e) /\ stored' # stored
    /\ files' = [Shifted(0) EXCEPT ![0] = <<e>>]
    /\ handle' = 0 /\ current_size' = LineLength[e]
    /\ UNCHANGED failures

\* An error returns at once: of the flush or of the removal (nothing is done),
\* of a rename, or of the opening of a new file (all have been renamed).
RotateFails(e) ==
    /\ TooLong(e) /\ stored' = stored
    /\ \E j \in 0..(max_files + 1) : files' = Shifted(j) /\ handle' = Moved(j)
    /\ failures' = failures + 1
    /\ UNCHANGED current_size

\* The line is refused, by serde or by the file system.
WriteFails(e) ==
    /\ stored' = stored
    /\ IF TooLong(e)
       THEN files' = [Shifted(0) EXCEPT ![0] = <<>>] /\ handle' = 0 /\ current_size' = 0
       ELSE UNCHANGED <<files, handle, current_size>>
    /\ UNCHANGED failures

DeliverToFile ==
    /\ next = File
    /\ DeliverToSink
    /\ WriteLine(current) \/ RotateAndWrite(current) \/ RotateFails(current) \/ WriteFails(current)

FileTaskStep ==
    \/ DeliverToFile
    \/ /\ \/ Receive \/ SeeShutdown \/ ChannelClosed \/ DrainEnds \/ FlushSink \/ TaskReturns
          \/ next # File /\ DeliverToSink
       /\ UNCHANGED fileVars

FileCallerStep ==
    /\ \/ EmitAccepted \/ EmitFull \/ EmitClosed
       \/ CallShutdown \/ ShutdownReturns \/ ShutdownTimesOut \/ DropService \/ ProcessExits
    /\ UNCHANGED fileVars

FileNext == FileTaskStep \/ FileCallerStep

\* The executor polls the task, and every call of a backend ends.
FileSpec == FileInit /\ [][FileNext]_allVars /\ WF_allVars(FileTaskStep)

-----------------------------------------------------------------------------
Present == {n \in DOMAIN files : files[n] # NoFile}

\* The lines of all files.
Logged == UNION {ToSet(files[n]) : n \in Present}

\* Rotation forgets only the oldest lines, and only to keep max_files: read from
\* the oldest file to the newest, the log is the end of what the sink was given,
\* in its order, whichever rename failed and wherever the handle has gone; and a
\* failed rotation costs at most one of the files that the operator asked for, so
\* that it takes more than max_files of them to lose the log (FileSink::rotate).
RotationKeepsNewest ==
    /\ \A n \in Present : \A i, j \in DOMAIN files[n] : i < j => files[n][i] < files[n][j]
    /\ \A m, n \in Present : m < n => \A old \in ToSet(files[n]), new \in ToSet(files[m]) : old < new
    /\ Logged \subseteq ToSet(stored[File])
    /\ \A e \in Logged : \A later \in ToSet(stored[File]) : e <= later => later \in Logged
    /\ Logged # ToSet(stored[File]) => Cardinality(Present) + failures >= max_files + 1
=============================================================================

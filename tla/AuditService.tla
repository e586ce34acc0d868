----------------------------- MODULE AuditService -----------------------------
(***************************************************************************)
(* AuditService: handlers emit events into a bounded channel; one task      *)
(* takes them out and hands each to every sink in turn; shutdown asks the   *)
(* task to drain the channel, flush the sinks and return, and waits for it  *)
(* no longer than a timeout.                                                *)
(*                                                                         *)
(* An event is the number of its emit call.  A sink keeps a buffer that it  *)
(* sends when it is full: Firehose and Pub/Sub with their MAX_BATCH_SIZE,   *)
(* stdout and file with a batch of one.  Nobody but the task touches a      *)
(* buffer, so a call of a sink is one step.                                 *)
(*                                                                         *)
(* A call of stdout, file or Pub/Sub leaves all of its batch with the       *)
(* backend or nothing.  Firehose takes or rejects each record of a batch,   *)
(* and answers Ok either way (the sink does not read failed_put_count); its *)
(* client, built with the SDK's defaults, repeats a call that got no good   *)
(* answer, though the one before may have stored some records.              *)
(***************************************************************************)
EXTENDS Naturals, Sequences, SequencesExt

CONSTANTS
    SinkCount,   \* length of the sinks vector
    BatchSize,   \* BatchSize[s]: events a sink collects before it sends them
    Firehose,    \* the sinks that are a Firehose stream
    Attempts,    \* how often its client tries a call
    Capacity,    \* buffer_capacity
    MaxEvents,   \* bound on the calls of emit
    MaxMishaps   \* bound on the calls whose answer does not tell what was stored

Sinks == 1..SinkCount

ASSUME AuditAssumption ==
    /\ SinkCount \in Nat \ {0}
    /\ BatchSize \in [Sinks -> Nat \ {0}]
    /\ Firehose \subseteq Sinks /\ Attempts \in Nat \ {0}
    /\ Capacity \in Nat \ {0}
    /\ MaxEvents \in Nat /\ MaxMishaps \in Nat

VARIABLES
    emitted,     \* calls of emit so far
    queue,       \* the mpsc channel
    overflow_dropped,
    handles,     \* some clone of the service is alive
    shutdown,    \* where the caller of shutdown is
    taskPc,      \* where fan_out_task is
    draining,    \* the task is in drain_and_flush
    current,     \* the event being delivered
    next,        \* the sink to call next
    buffer,      \* buffer[s]: what sink s holds back
    stored,      \* stored[s]: what the backend of sink s has taken, in its order
    sent,        \* history: sent[s], what sink s has sent, whatever the answer
    failing,     \* history: the sinks that have returned an error
    rejecting,   \* history: the sinks that returned Ok though a record was rejected
    mishaps,     \* history: the calls that MaxMishaps bounds
    accepted,    \* history: the events that try_send took, in order
    atShutdown   \* history: how many they were when shutdown was called

callerVars == <<emitted, overflow_dropped, handles, shutdown, accepted, atShutdown>>
taskVars == <<taskPc, draining, current, next>>
sinkVars == <<buffer, stored, sent, failing, rejecting, mishaps>>
auditVars == <<callerVars, queue, taskVars, sinkVars>>

AuditTypes ==
    /\ emitted \in Nat
    /\ queue \in Seq(Nat) /\ Len(queue) <= Capacity
    /\ overflow_dropped \in Nat
    /\ handles \in BOOLEAN
    /\ shutdown \in {"no", "waiting", "clean", "timedOut"}
    /\ taskPc \in {"select", "deliver", "drain", "flush", "return", "done", "killed"}
    /\ draining \in BOOLEAN
    /\ current \in Nat
    /\ next \in 1..SinkCount
    /\ buffer \in [Sinks -> Seq(Nat)]
    /\ \A s \in Sinks : Len(buffer[s]) < BatchSize[s]
    /\ stored \in [Sinks -> Seq(Nat)] /\ sent \in [Sinks -> Seq(Nat)]
    /\ failing \subseteq Sinks /\ rejecting \subseteq Firehose
    /\ mishaps \in Nat
    /\ accepted \in Seq(Nat)
    /\ atShutdown \in 0..Len(accepted)

AuditInit ==
    /\ emitted = 0
    /\ queue = <<>>
    /\ overflow_dropped = 0
    /\ handles = TRUE
    /\ shutdown = "no"
    /\ taskPc = "select"
    /\ draining = FALSE
    /\ current = 0
    /\ next = 1
    /\ buffer = [s \in Sinks |-> <<>>]
    /\ stored = [s \in Sinks |-> <<>>]
    /\ sent = [s \in Sinks |-> <<>>]
    /\ failing = {}
    /\ rejecting = {}
    /\ mishaps = 0
    /\ accepted = <<>>
    /\ atShutdown = 0

-----------------------------------------------------------------------------
(* emit: try_send answers Ok, Full or Closed. *)

closed == taskPc \in {"done", "killed"}

EmitAccepted ==
    /\ handles /\ emitted < MaxEvents
    /\ ~closed /\ Len(queue) < Capacity
    /\ emitted' = emitted + 1
    /\ queue' = Append(queue, emitted')
    /\ accepted' = Append(accepted, emitted')
    /\ UNCHANGED <<overflow_dropped, handles, shutdown, atShutdown, taskVars, sinkVars>>

EmitFull ==
    /\ handles /\ emitted < MaxEvents
    /\ ~closed /\ Len(queue) = Capacity
    /\ emitted' = emitted + 1
    /\ overflow_dropped' = overflow_dropped + 1
    /\ UNCHANGED <<queue, handles, shutdown, accepted, atShutdown, taskVars, sinkVars>>

EmitClosed ==
    /\ handles /\ emitted < MaxEvents
    /\ closed
    /\ emitted' = emitted + 1
    /\ UNCHANGED <<queue, overflow_dropped, handles, shutdown, accepted, atShutdown,
                   taskVars, sinkVars>>

-----------------------------------------------------------------------------
(* The sinks. *)

\* The records that the attempts of one call may leave with Firehose: each of
\* them rejected, or stored up to once per attempt.  Firehose promises no order;
\* of all orders the model takes that of the events, which no property reads.
PartsAndRepeats(events) ==
    {landed \in UNION {[1..n -> ToSet(events)] : n \in 0..(Attempts * Len(events))} :
        \A i, j \in DOMAIN landed :
            /\ i < j => landed[i] <= landed[j]
            /\ i + Attempts <= j => landed[i] # landed[j]}

Landings(s, events) == IF s \in Firehose THEN PartsAndRepeats(events) ELSE {<<>>, events}

\* The call leaves `landed` with the backend, and answers: an Ok means that all
\* is stored, but for Firehose.
Answer(s, events, landed, answer) ==
    /\ answer = "Ok" => s \in Firehose \/ landed = events
    /\ stored' = [stored EXCEPT ![s] = @ \o landed]
    /\ sent' = [sent EXCEPT ![s] = @ \o events]
    /\ failing' = IF answer = "Ok" THEN failing ELSE failing \cup {s}
    /\ rejecting' = IF answer = "Ok" /\ ~(ToSet(events) \subseteq ToSet(landed))
                    THEN rejecting \cup {s} ELSE rejecting
    /\ mishaps' = IF landed = (IF answer = "Ok" THEN events ELSE <<>>) THEN mishaps ELSE mishaps + 1
    /\ mishaps' <= MaxMishaps

\* Mutant: the batch is copied out of the buffer, not drained.
CopyBatch(s, events) ==
    /\ buffer' = [buffer EXCEPT ![s] = IF BatchSize[s] = 1 THEN <<>> ELSE <<Head(events)>>]
    /\ \E landed \in Landings(s, events), answer \in {"Ok", "Err"} : Answer(s, events, landed, answer)

\* flush_buffer: the buffer is emptied before the call of the backend.
SendBatch(s, events) ==
    /\ buffer' = [buffer EXCEPT ![s] = <<>>]
    /\ \E landed \in Landings(s, events), answer \in {"Ok", "Err"} : Answer(s, events, landed, answer)

\* Mutant: an off-by-one in the test of the threshold.
LateThreshold(s, e) ==
    LET events == Append(buffer[s], e)
    IN  IF Len(events) > BatchSize[s]
        THEN SendBatch(s, events)
        ELSE /\ buffer' = [buffer EXCEPT ![s] = events]
             /\ UNCHANGED <<stored, sent, failing, rejecting, mishaps>>

send_batch(s, e) ==
    LET events == Append(buffer[s], e)
    IN  IF Len(events) >= BatchSize[s]
        THEN SendBatch(s, events)
        ELSE /\ buffer' = [buffer EXCEPT ![s] = events]
             /\ UNCHANGED <<stored, sent, failing, rejecting, mishaps>>

-----------------------------------------------------------------------------
(* fan_out_task. *)

\* The receiving branch of select!, or try_recv while draining.
Receive ==
    /\ taskPc \in {"select", "drain"}
    /\ queue # <<>>
    /\ current' = Head(queue)
    /\ queue' = Tail(queue)
    /\ next' = 1
    /\ taskPc' = "deliver"
    /\ UNCHANGED <<callerVars, draining, sinkVars>>

\* The shutdown branch, which select! may prefer to a waiting event.
SeeShutdown ==
    /\ taskPc = "select"
    /\ shutdown # "no"
    /\ draining' = TRUE
    /\ taskPc' = "drain"
    /\ UNCHANGED <<callerVars, queue, current, next, sinkVars>>

\* recv returns None: every clone of the service is gone and so are the events.
\* Until select! takes this branch the task spins, since changed() now fails.
ChannelClosed ==
    /\ taskPc = "select"
    /\ ~handles /\ queue = <<>>
    /\ draining' = TRUE
    /\ taskPc' = "drain"
    /\ UNCHANGED <<callerVars, queue, current, next, sinkVars>>

BackToLoop == IF draining THEN "drain" ELSE "select"

\* Mutant: the first sink that fails ends the delivery of the event.
StopAtFirstError ==
    /\ taskPc = "deliver"
    /\ send_batch(next, current)
    /\ IF next = SinkCount \/ failing' # failing
       THEN taskPc' = BackToLoop /\ next' = 1 /\ current' = 0
       ELSE next' = next + 1 /\ UNCHANGED <<taskPc, current>>
    /\ UNCHANGED <<callerVars, queue, draining>>

\* Mutant: a sink that fails takes the task down.
PanicOnError ==
    /\ taskPc = "deliver"
    /\ send_batch(next, current)
    /\ IF failing' # failing THEN taskPc' = "done" /\ UNCHANGED <<next, current>>
       ELSE IF next = SinkCount THEN taskPc' = BackToLoop /\ next' = 1 /\ current' = 0
       ELSE next' = next + 1 /\ UNCHANGED <<taskPc, current>>
    /\ UNCHANGED <<callerVars, queue, draining>>

\* deliver_to_sinks, one sink at a time; an error is logged.
DeliverToSink ==
    /\ taskPc = "deliver"
    /\ send_batch(next, current)
    /\ IF next = SinkCount
       THEN taskPc' = BackToLoop /\ next' = 1 /\ current' = 0
       ELSE next' = next + 1 /\ UNCHANGED <<taskPc, current>>
    /\ UNCHANGED <<callerVars, queue, draining>>

\* Mutant: the task returns without a flush.
DrainWithoutFlush ==
    /\ taskPc = "drain"
    /\ queue = <<>>
    /\ taskPc' = "return"
    /\ UNCHANGED <<callerVars, queue, draining, current, next, sinkVars>>

\* try_recv finds the channel empty.
DrainEnds ==
    /\ taskPc = "drain"
    /\ queue = <<>>
    /\ taskPc' = "flush"
    /\ UNCHANGED <<callerVars, queue, draining, current, next, sinkVars>>

FlushSink ==
    /\ taskPc = "flush"
    /\ IF buffer[next] = <<>> THEN UNCHANGED sinkVars ELSE SendBatch(next, buffer[next])
    /\ IF next = SinkCount
       THEN taskPc' = "return" /\ next' = 1
       ELSE next' = next + 1 /\ UNCHANGED taskPc
    /\ UNCHANGED <<callerVars, queue, draining, current>>

\* The receiver is dropped, with whatever has been accepted since DrainEnds.
TaskReturns ==
    /\ taskPc = "return"
    /\ taskPc' = "done"
    /\ queue' = <<>>
    /\ UNCHANGED <<callerVars, draining, current, next, sinkVars>>

TaskStep ==
    \/ Receive \/ SeeShutdown \/ ChannelClosed \/ DeliverToSink
    \/ DrainEnds \/ FlushSink \/ TaskReturns

-----------------------------------------------------------------------------
(* shutdown, and the end of the process. *)

\* The signal; only the first caller gets the task's handle, so there is one.
CallShutdown ==
    /\ handles /\ shutdown = "no"
    /\ shutdown' = "waiting"
    /\ atShutdown' = Len(accepted)
    /\ UNCHANGED <<emitted, overflow_dropped, handles, accepted, queue, taskVars, sinkVars>>

ShutdownReturns ==
    /\ shutdown = "waiting"
    /\ taskPc = "done"
    /\ shutdown' = "clean"
    /\ UNCHANGED <<emitted, overflow_dropped, handles, accepted, atShutdown, queue, taskVars, sinkVars>>

\* The timeout drops the handle, which leaves the task running.
ShutdownTimesOut ==
    /\ shutdown = "waiting"
    /\ taskPc # "done"
    /\ shutdown' = "timedOut"
    /\ UNCHANGED <<emitted, overflow_dropped, handles, accepted, atShutdown, queue, taskVars, sinkVars>>

\* The last clone of the service is dropped.
DropService ==
    /\ handles /\ shutdown # "waiting"
    /\ handles' = FALSE
    /\ UNCHANGED <<emitted, overflow_dropped, shutdown, accepted, atShutdown, queue, taskVars, sinkVars>>

\* main returns after shutdown, and the runtime drops the task.
ProcessExits ==
    /\ shutdown = "timedOut"
    /\ ~closed
    /\ taskPc' = "killed"
    /\ queue' = <<>>
    /\ UNCHANGED <<callerVars, draining, current, next, sinkVars>>

AuditNext ==
    \/ EmitAccepted \/ EmitFull \/ EmitClosed
    \/ TaskStep
    \/ CallShutdown \/ ShutdownReturns \/ ShutdownTimesOut \/ DropService \/ ProcessExits

AuditSpec == AuditInit /\ [][AuditNext]_auditVars

-----------------------------------------------------------------------------
(* Properties. *)

\* What sink s has still to be handed of the event being delivered.
InHand(s) == IF taskPc = "deliver" /\ next <= s THEN <<current>> ELSE <<>>

\* What a sink has sent its backend has, unless the sink has said otherwise: in
\* the order of the emit calls and once, if it is not Firehose; and if it is, as
\* long as Firehose has not rejected a record behind an Ok.
SentIsStored(s) ==
    /\ ToSet(stored[s]) \subseteq ToSet(sent[s])
    /\ s \notin failing \cup Firehose => stored[s] = sent[s]
    /\ s \notin failing \cup rejecting => ToSet(sent[s]) \subseteq ToSet(stored[s])

\* Until the task ends, an accepted event is, for every sink, in exactly one
\* place: sent, held back, being delivered or queued, and in the order it was
\* emitted; and what is sent is stored, but for the errors a sink has returned
\* and the records that Firehose rejects one by one.  In particular one sink's
\* errors never cost another sink an event (deliver_to_sinks).
NothingLostUnderWay ==
    \A s \in Sinks :
        /\ SentIsStored(s)
        /\ ~closed => ((sent[s] \o buffer[s]) \o InHand(s)) \o queue = accepted

\* No sink sends a batch again, whatever came of it: what a call adds to a
\* backend is later than all that the sink had sent before, and in order for a
\* backend that is not Firehose.  So only the attempts of one call of Firehose's
\* client can store an event twice or out of order.
StoredInOrder ==
    [][\A s \in Sinks : \A i \in (Len(stored[s]) + 1)..Len(stored'[s]) :
           /\ \A old \in ToSet(sent[s]) : old < stored'[s][i]
           /\ \A j \in (i + 1)..Len(stored'[s]) :
                  s \in Firehose \/ stored'[s][i] < stored'[s][j]]_auditVars

\* A shutdown that returns cleanly has left nothing in a buffer: every sink has
\* sent what was accepted before the call, and its backend has it, unless the
\* sink has returned an error or Firehose has rejected a record.
CleanShutdownDelivers ==
    shutdown = "clean" =>
        \A s \in Sinks :
            /\ buffer[s] = <<>>
            /\ Len(sent[s]) >= atShutdown
            /\ \A i \in 1..atShutdown :
                   /\ sent[s][i] = accepted[i]
                   /\ s \in failing \cup rejecting \/ accepted[i] \in ToSet(stored[s])

\* An event accepted before any shutdown is handed to every sink, unless a
\* shutdown times out first: no failure, of that sink or another, stops the task.
AcceptedEventsHandedOver ==
    \A e \in 1..MaxEvents :
        (e \in ToSet(accepted) /\ shutdown = "no") ~>
            \/ shutdown = "timedOut"
            \/ \A s \in Sinks : e \in ToSet(sent[s]) \cup ToSet(buffer[s])
=============================================================================

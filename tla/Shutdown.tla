-------------------------------- MODULE Shutdown --------------------------------
(***************************************************************************)
(* How a worker ends: a Sum worker, with its two control threads, or a     *)
(* filter (Aggregation, Join), which has none.                             *)
(*                                                                         *)
(* Python runs a signal handler in the main thread, between any two        *)
(* instructions of what that thread is doing, and a second signal may      *)
(* interrupt the first one's handler.  The main thread is a stack: its own *)
(* program at the bottom (start), above it calls of request_shutdown, made *)
(* by a handler or by the program's finally clause.  Only the top runs.    *)
(* Neither _shutdown_lock nor the mutex of queue.Queue is reentrant.       *)
(*                                                                         *)
(* The control threads are not interrupted: an access of theirs to the     *)
(* queue is one step.  What is consumed is abstracted to its number; every *)
(* message makes one envelope.                                             *)
(***************************************************************************)
EXTENDS Naturals, Sequences

CONSTANTS
    MaxMessages,  \* bound: messages on the data queue, and on the control queue
    MaxSignals,   \* bound: SIGTERMs
    MaxFailures   \* bound: consumers whose connection is lost

ASSUME ShutdownAssumption == MaxMessages \in Nat /\ MaxSignals \in Nat /\ MaxFailures \in Nat

VARIABLES
    kind,        \* "sum" or "filter"
    stack,       \* the main thread: stack[1] is where start stands
    lockHeld,    \* _shutdown_lock
    mutexHeld,   \* the main thread holds the mutex of control_sender_queue
    started,     \* _shutdown_started; keep_running is its negation
    stopped,     \* _stopped of the sender
    queueShut,   \* is_shutdown of control_sender_queue
    queue,       \* envelopes in control_sender_queue
    stopData, stopControl,     \* stop_consuming waits in the connection's callbacks
    receiver, sender,          \* where the control threads stand
    dataMessages, controlMessages,   \* still to be consumed
    published, dropped,        \* history: envelopes sent, and those whose send raised
    signals, failures          \* so far

threadVars == << receiver, sender >>
queueVars == << queueShut, queue >>
sentVars == << published, dropped >>
historyVars == << signals, failures >>
flags == << started, stopped, stopData, stopControl >>

vars == << kind, stack, lockHeld, mutexHeld, flags, queueVars, threadVars,
           dataMessages, controlMessages, sentVars, historyVars >>

ProgramAt == {"start_sender", "start_receiver", "consume", "safe_put", "put",
              "putting", "ack", "finally", "join_receiver", "join_sender", "close", "ended"}
CallAt == {"lock", "locked", "stop_data", "stop_receiver", "stop_sender", "drain"}

Init ==
    /\ kind \in {"sum", "filter"}
    /\ stack = << IF kind = "sum" THEN "start_sender" ELSE "consume" >>
    /\ lockHeld = FALSE /\ mutexHeld = FALSE
    /\ started = FALSE /\ stopped = FALSE /\ stopData = FALSE /\ stopControl = FALSE
    /\ queueShut = FALSE /\ queue = 0 /\ published = 0 /\ dropped = 0
    /\ receiver = "unborn" /\ sender = "unborn"
    /\ dataMessages = MaxMessages
    /\ controlMessages = IF kind = "sum" THEN MaxMessages ELSE 0
    /\ signals = 0 /\ failures = 0

Depth == Len(stack)
Top == stack[Depth]
Program == stack[1]
Ended == Program = "ended"

-----------------------------------------------------------------------------
(* start, at the bottom of the stack.                                      *)

Goto(to) == stack' = [stack EXCEPT ![Depth] = to]

\* The program itself runs: no call of request_shutdown is on top of it.
At(from) == Depth = 1 /\ Program = from

StartSender ==
    /\ At("start_sender") /\ Goto("start_receiver")
    /\ sender' = "get"
    /\ UNCHANGED << kind, lockHeld, mutexHeld, flags, queueVars, receiver,
                    dataMessages, controlMessages, sentVars, historyVars >>

StartReceiver ==
    /\ At("start_receiver") /\ Goto("consume")
    /\ receiver' = "consume"
    /\ UNCHANGED << kind, lockHeld, mutexHeld, flags, queueVars, sender,
                    dataMessages, controlMessages, sentVars, historyVars >>

queueFrame == << kind, lockHeld, flags, threadVars, controlMessages, sentVars, historyVars >>

\* The program moves on and does nothing else.
Moves(from, to) ==
    /\ At(from) /\ Goto(to)
    /\ UNCHANGED << mutexHeld, queueVars, dataMessages, queueFrame >>

ConsumeData ==
    /\ At("consume") /\ dataMessages > 0
    /\ Goto(IF kind = "sum" THEN "safe_put" ELSE "consume")
    /\ dataMessages' = dataMessages - 1
    /\ UNCHANGED << mutexHeld, queueVars, queueFrame >>

\* _safe_put looks at _stopped before it calls put.
SafePut == Moves("safe_put", IF stopped THEN "ack" ELSE "put")

EnterPut ==
    /\ At("put") /\ Goto("putting")
    /\ mutexHeld' = TRUE
    /\ UNCHANGED << queueVars, dataMessages, queueFrame >>

\* put raises ShutDown, which _safe_put catches, or appends.
PutEnvelope == queue' = IF queueShut THEN queue ELSE queue + 1

LeavePut ==
    /\ At("putting") /\ Goto("ack")
    /\ mutexHeld' = FALSE
    /\ PutEnvelope
    /\ UNCHANGED << queueShut, dataMessages, queueFrame >>

Ack == Moves("ack", "consume")

\* The callback cancels the consumer; the loop of start_consuming ends.
StopsConsuming == stopData /\ Moves("consume", "finally")

ConsumerFails ==
    /\ At("consume") /\ failures < MaxFailures
    /\ Goto("finally")
    /\ failures' = failures + 1
    /\ UNCHANGED << kind, lockHeld, mutexHeld, flags, queueVars, threadVars,
                    dataMessages, controlMessages, sentVars, signals >>

Finally ==
    /\ At("finally")
    /\ stack' = << IF kind = "sum" THEN "join_receiver" ELSE "close", "lock" >>
    /\ UNCHANGED << mutexHeld, queueVars, dataMessages, queueFrame >>

\* Mutant: the receiver is not waited for.
JoinSenderOnly == Moves("join_receiver", "join_sender")

JoinReceiver == receiver = "done" /\ Moves("join_receiver", "join_sender")

JoinSender == sender = "done" /\ Moves("join_sender", "close")

Close == Moves("close", "ended")

RunProgram ==
    \/ StartSender \/ StartReceiver
    \/ ConsumeData \/ SafePut \/ EnterPut \/ LeavePut \/ Ack
    \/ StopsConsuming
    \/ Finally \/ JoinReceiver \/ JoinSender \/ Close

-----------------------------------------------------------------------------
(* The handler, and request_shutdown.                                      *)

callFrame == << kind, mutexHeld, threadVars, dataMessages, controlMessages, sentVars >>

Sigterm ==
    /\ signals < MaxSignals /\ ~Ended
    /\ signals' = signals + 1
    /\ stack' = Append(stack, "lock")
    /\ UNCHANGED << callFrame, lockHeld, flags, queueVars, failures >>

Calls(at) == Depth > 1 /\ Top = at

Return == stack' = SubSeq(stack, 1, Depth - 1)

\* The holder of the lock, if there is one, is further down in this stack.
EnterLock ==
    /\ Calls("lock") /\ ~lockHeld
    /\ lockHeld' = TRUE /\ Goto("locked")
    /\ UNCHANGED << callFrame, flags, queueVars, historyVars >>

\* Mutant: the flag is set and the lock is not released.
LeaveLockHeld ==
    /\ Calls("locked")
    /\ started' = TRUE
    /\ IF started THEN Return ELSE Goto("stop_data")
    /\ UNCHANGED << callFrame, lockHeld, stopped, stopData, stopControl, queueVars,
                    historyVars >>

LeaveLock ==
    /\ Calls("locked")
    /\ lockHeld' = FALSE
    /\ started' = TRUE
    /\ IF started THEN Return ELSE Goto("stop_data")
    /\ UNCHANGED << callFrame, stopped, stopData, stopControl, queueVars, historyVars >>

\* request_stop_consuming_threadsafe leaves a callback for the connection's
\* thread, which finds it even when it starts to consume later.
StopData ==
    /\ Calls("stop_data")
    /\ stopData' = TRUE
    /\ IF kind = "sum" THEN Goto("stop_receiver") ELSE Return
    /\ UNCHANGED << callFrame, lockHeld, started, stopped, stopControl, queueVars,
                    historyVars >>

StopReceiver ==
    /\ Calls("stop_receiver") /\ Goto("stop_sender")
    /\ stopControl' = TRUE
    /\ UNCHANGED << callFrame, lockHeld, started, stopped, stopData, queueVars, historyVars >>

StopSender ==
    /\ Calls("stop_sender") /\ Goto("drain")
    /\ stopped' = TRUE
    /\ UNCHANGED << callFrame, lockHeld, started, stopData, stopControl, queueVars,
                    historyVars >>

\* Mutant: the queue is emptied and stays open.
DrainOnly ==
    /\ Calls("drain") /\ ~mutexHeld
    /\ queue' = 0 /\ Return
    /\ UNCHANGED << callFrame, lockHeld, flags, queueShut, historyVars >>

\* control_sender_queue.shutdown(immediate=True), in one critical section.
Drain ==
    /\ Calls("drain") /\ ~mutexHeld
    /\ queueShut' = TRUE /\ queue' = 0 /\ Return
    /\ UNCHANGED << callFrame, lockHeld, flags, historyVars >>

RequestShutdown ==
    EnterLock \/ LeaveLock \/ StopData \/ StopReceiver \/ StopSender \/ Drain

MainThread == RunProgram \/ RequestShutdown

-----------------------------------------------------------------------------
(* The control threads.                                                    *)

mainFrame == << kind, stack, lockHeld, mutexHeld, flags, dataMessages, signals >>

\* Mutant: put_nowait, whose failure is swallowed.
ConsumeControlNoWait ==
    /\ receiver = "consume" /\ controlMessages > 0
    /\ controlMessages' = controlMessages - 1
    /\ IF stopped \/ mutexHeld THEN UNCHANGED queue ELSE PutEnvelope
    /\ UNCHANGED << mainFrame, queueShut, threadVars, sentVars, failures >>

\* A control message: its envelope is put, or dropped when _stopped is set.
ConsumeControl ==
    /\ receiver = "consume" /\ controlMessages > 0
    /\ ~mutexHeld \/ stopped
    /\ controlMessages' = controlMessages - 1
    /\ IF stopped THEN UNCHANGED queue ELSE PutEnvelope
    /\ UNCHANGED << mainFrame, queueShut, threadVars, sentVars, failures >>

ReceiverStops ==
    /\ receiver = "consume" /\ stopControl
    /\ receiver' = "done"
    /\ UNCHANGED << mainFrame, queueVars, sender, controlMessages, sentVars, failures >>

\* run has no handler: the thread dies with the exception, unnoticed.
ReceiverFails ==
    /\ receiver = "consume" /\ failures < MaxFailures
    /\ receiver' = "done"
    /\ failures' = failures + 1
    /\ UNCHANGED << mainFrame, queueVars, sender, controlMessages, sentVars >>

\* Mutant: get does not wait for an envelope.
GetAtOnce ==
    /\ sender = "get" /\ ~mutexHeld
    /\ queue' = queue - 1
    /\ sender' = "send"
    /\ UNCHANGED << mainFrame, queueShut, receiver, controlMessages, sentVars, failures >>

GetEnvelope ==
    /\ sender = "get" /\ ~mutexHeld /\ queue > 0
    /\ queue' = queue - 1
    /\ sender' = "send"
    /\ UNCHANGED << mainFrame, queueShut, receiver, controlMessages, sentVars, failures >>

SendEnvelope ==
    /\ sender = "send" /\ ~mutexHeld
    /\ published' = published + 1
    /\ sender' = "get"
    /\ UNCHANGED << mainFrame, queueVars, receiver, controlMessages, dropped, failures >>

\* The send raises: a line in the log, and the envelope is gone.
SendFails ==
    /\ sender = "send" /\ ~mutexHeld
    /\ dropped' = dropped + 1
    /\ sender' = "get"
    /\ UNCHANGED << mainFrame, queueVars, receiver, controlMessages, published, failures >>

\* get raises ShutDown; run closes the sender's connections.
SenderEnds ==
    /\ sender = "get" /\ ~mutexHeld /\ queueShut /\ queue = 0
    /\ sender' = "done"
    /\ UNCHANGED << mainFrame, queueVars, receiver, controlMessages, sentVars, failures >>

ReceiverThread == ConsumeControl \/ ReceiverStops \/ ReceiverFails
SenderThread == GetEnvelope \/ SendEnvelope \/ SendFails \/ SenderEnds

Next == MainThread \/ Sigterm \/ ConsumerFails \/ ReceiverThread \/ SenderThread

Spec == Init /\ [][Next]_vars

\* Threads are scheduled; signals and failures need not come.
FairSpec ==
    /\ Spec
    /\ WF_vars(MainThread)
    /\ WF_vars(ConsumeControl \/ ReceiverStops)
    /\ WF_vars(SenderThread)

-----------------------------------------------------------------------------
(* Properties.                                                             *)

StackOK ==
    /\ stack \in Seq(ProgramAt \cup CallAt) /\ Depth >= 1
    /\ Program \in ProgramAt
    /\ \A i \in 2 .. Depth : stack[i] \in CallAt

\* The program of start at the bottom, calls of request_shutdown above it; what
\* is consumed and what is queued never goes below zero.
TypeOK ==
    /\ kind \in {"sum", "filter"} /\ StackOK
    /\ lockHeld \in BOOLEAN /\ mutexHeld \in BOOLEAN
    /\ started \in BOOLEAN /\ stopped \in BOOLEAN /\ queueShut \in BOOLEAN
    /\ stopData \in BOOLEAN /\ stopControl \in BOOLEAN
    /\ queue \in Nat /\ published \in Nat /\ dropped \in Nat
    /\ dataMessages \in Nat /\ controlMessages \in Nat
    /\ receiver \in {"unborn", "consume", "done"}
    /\ sender \in {"unborn", "get", "send", "done"}
    /\ signals \in Nat /\ failures \in Nat

\* The main thread waits for a lock that it holds itself, further down in its
\* own stack: it never runs again (sum/main.py request_shutdown, queue.Queue).
SelfDeadlocked ==
    /\ Depth > 1
    /\ \/ Top = "lock" /\ lockHeld
       \/ Top = "drain" /\ mutexHeld

\* One cause of ending (a SIGTERM, a lost connection) deadlocks a worker only
\* inside put of the sender's queue; the shutdown lock takes a second cause, a
\* signal that interrupts the first call of request_shutdown while it holds it.
\* So a filter always survives its first SIGTERM.
OneCauseOnlyInPut == SelfDeadlocked /\ signals + failures < 2 => mutexHeld

\* Until the sender is stopped every consumed message has its envelope: being
\* put, queued, in the sender's hand, sent, or dropped because its send raised.
\* So an envelope is lost in two ways only, by the shutdown, or one at a time by
\* a failed send, after which the sender goes on with the next
\* (control_plane_sender.py _safe_put, stop, run).
EnvelopesAccounted ==
    kind = "sum" /\ ~stopped =>
        2 * MaxMessages - dataMessages - controlMessages =
            published + dropped + queue
              + (IF sender = "send" THEN 1 ELSE 0)
              + (IF Program \in {"safe_put", "put", "putting"} THEN 1 ELSE 0)

\* Nobody uses a connection after start closes it: start waits for both control
\* threads first (sum/main.py start, finally).
ClosedWhenUnused == kind = "sum" /\ Ended => receiver = "done" /\ sender = "done"

\* A worker that was asked to end ends: its consumers are cancelled, its sender
\* leaves get with ShutDown, its threads are joined.  Only a deadlock of the
\* main thread with itself prevents it.
EndsUnlessSelfDeadlocked == started ~> Ended \/ SelfDeadlocked

\* What "graceful shutdown" says (sum/main.py:190): after a SIGTERM the worker
\* ends.  A signal that arrives inside put breaks it.
EndsAfterSigterm == signals > 0 ~> Ended
=================================================================================

----------------------------- MODULE ShutdownProofs -----------------------------
(***************************************************************************)
(* How a worker ends, for any number of messages, signals and failures.    *)
(*                                                                         *)
(* The main thread is a stack, so the lemmas say what a step does to a     *)
(* stack, and the invariant what a frame in it means: a lock that is held  *)
(* is held by a frame, a frame that drains the queue has stopped the       *)
(* sender, and every call on the stack has a signal or a failure as its    *)
(* cause.                                                                  *)
(***************************************************************************)
EXTENDS Shutdown, TLAPS

\* A call on the stack stands at n.
Has(n) == \E i \in 2 .. Depth : stack[i] = n

Causes == signals + failures

\* Calls are made by signals, and by the program when something ended it.
CallsHaveCauses ==
    /\ Depth <= Causes + 1
    /\ stopData \/ Program = "finally" => Causes >= 1

LockHasHolder == lockHeld => Has("locked")

DrainedWhenStopped == Has("drain") \/ queueShut => stopped

ThreadsInOrder ==
    kind = "sum" =>
        /\ Program = "start_sender" => sender = "unborn"
        /\ Program \in {"join_sender", "close", "ended"} => receiver = "done"
        /\ Program \in {"close", "ended"} => sender = "done"

IInv ==
    /\ TypeOK
    /\ CallsHaveCauses
    /\ LockHasHolder
    /\ DrainedWhenStopped
    /\ EnvelopesAccounted
    /\ ThreadsInOrder

-----------------------------------------------------------------------------
(* Stacks.                                                                 *)

\* The top frame moves on.
LEMMA GotoStack ==
    ASSUME StackOK, NEW to, Goto(to),
           \/ Depth = 1 /\ to \in ProgramAt
           \/ Depth > 1 /\ to \in CallAt
    PROVE  /\ StackOK' /\ Depth' = Depth
           /\ Depth = 1 => Program' = to
           /\ Depth > 1 => Program' = Program /\ Has(to)'
           /\ \A n : n # to /\ Has(n)' => Has(n)
           /\ \A n : n # Top /\ Has(n) => Has(n)'
<1> DEFINE S == ProgramAt \cup CallAt
<1>1. stack \in Seq(S) /\ Len(stack) \in Nat /\ Len(stack) >= 1 /\ to \in S
  BY DEF StackOK, Depth
<1>2. /\ stack' \in Seq(S) /\ Len(stack') = Len(stack)
      /\ stack'[Len(stack)] = to
      /\ \A i \in 1 .. Len(stack) - 1 : stack'[i] = stack[i]
  BY <1>1 DEF Goto, Depth
<1>3. Depth' = Depth /\ Depth \in Nat
  BY <1>1, <1>2 DEF Depth
<1>4. /\ Depth = 1 => Program' = to
      /\ Depth > 1 => Program' = Program
  BY <1>1, <1>2 DEF Depth, Program
<1>5. \A i \in 2 .. Depth' : stack'[i] \in CallAt
  BY <1>1, <1>2 DEF Depth, StackOK
<1>6. StackOK'
  BY <1>1, <1>2, <1>4, <1>5 DEF StackOK, Depth
<1>7. Depth > 1 => Has(to)'
  BY <1>1, <1>2 DEF Depth, Has
<1>8. \A n : n # to /\ Has(n)' => Has(n)
  BY <1>1, <1>2 DEF Depth, Has
<1>9. \A n : n # Top /\ Has(n) => Has(n)'
  BY <1>1, <1>2 DEF Depth, Has, Top
<1> QED BY <1>3, <1>4, <1>6, <1>7, <1>8, <1>9

\* The top call returns.
LEMMA ReturnStack ==
    ASSUME StackOK, Depth > 1, Return
    PROVE  /\ StackOK' /\ Depth' = Depth - 1
           /\ Program' = Program
           /\ \A n : Has(n)' => Has(n)
           /\ \A n : n # Top /\ Has(n) => Has(n)'
<1> DEFINE S == ProgramAt \cup CallAt
<1>1. stack \in Seq(S) /\ Len(stack) \in Nat /\ Len(stack) > 1
  BY DEF StackOK, Depth
<1>2. /\ stack' \in Seq(S) /\ Len(stack') = Len(stack) - 1
      /\ \A i \in 1 .. Len(stack) - 1 : stack'[i] = stack[i]
  BY <1>1 DEF Return, Depth
<1>3. Depth' = Depth - 1
  BY <1>2 DEF Depth
<1>4. Program' = Program
  BY <1>1, <1>2 DEF Program
<1>5. StackOK'
  BY <1>1, <1>2, <1>4 DEF StackOK, Depth
<1>6. \A n : Has(n)' => Has(n)
  BY <1>1, <1>2 DEF Depth, Has
<1>7. \A n : n # Top /\ Has(n) => Has(n)'
  BY <1>1, <1>2 DEF Depth, Has, Top
<1> QED BY <1>3, <1>4, <1>5, <1>6, <1>7

\* A call is put on top.
LEMMA CallStack ==
    ASSUME StackOK, stack' = Append(stack, "lock")
    PROVE  /\ StackOK' /\ Depth' = Depth + 1
           /\ Program' = Program
           /\ \A n : Has(n) => Has(n)'
           /\ \A n : n # "lock" /\ Has(n)' => Has(n)
<1> DEFINE S == ProgramAt \cup CallAt
<1>1. /\ stack \in Seq(S) /\ Len(stack) \in Nat /\ Len(stack) >= 1
      /\ "lock" \in CallAt /\ "lock" \in S
  BY DEF StackOK, Depth, CallAt
<1>2. /\ stack' \in Seq(S) /\ Len(stack') = Len(stack) + 1
      /\ stack'[Len(stack) + 1] = "lock"
      /\ \A i \in 1 .. Len(stack) : stack'[i] = stack[i]
  BY <1>1
<1>3. Depth' = Depth + 1
  BY <1>2 DEF Depth
<1>4. Program' = Program
  BY <1>1, <1>2 DEF Program
<1>5. StackOK'
  BY <1>1, <1>2, <1>4 DEF StackOK, Depth
<1>6. \A n : Has(n) => Has(n)'
  BY <1>1, <1>2 DEF Depth, Has
<1>7. \A n : n # "lock" /\ Has(n)' => Has(n)
  BY <1>1, <1>2 DEF Depth, Has
<1> QED BY <1>3, <1>4, <1>5, <1>6, <1>7

\* The program stands at p and makes a call itself.
LEMMA ProgramCallStack ==
    ASSUME NEW p \in ProgramAt, stack' = << p, "lock" >>
    PROVE  /\ StackOK' /\ Depth' = 2 /\ Program' = p
           /\ \A n : Has(n)' => n = "lock"
<1>1. Depth' = 2 /\ Program' = p
  BY DEF Depth, Program
<1>2. \A i \in 2 .. Depth' : stack'[i] = "lock"
  BY <1>1
<1>3. stack' \in Seq(ProgramAt \cup CallAt) /\ "lock" \in CallAt
  BY DEF CallAt
<1> QED BY <1>1, <1>2, <1>3 DEF StackOK, Has

\* With nobody's call on the stack, nobody has anything.
LEMMA NoCalls == ASSUME Depth = 1 PROVE \A n : ~Has(n)
BY DEF Has

\* What the top call stands at.
LEMMA TopHas == ASSUME StackOK, Depth > 1 PROVE Has(Top) /\ Top \in CallAt
BY DEF StackOK, Has, Top, Depth

\* An unchanged stack.
LEMMA SameStack ==
    ASSUME stack' = stack, StackOK
    PROVE  /\ StackOK' /\ Depth' = Depth /\ Program' = Program
           /\ \A n : Has(n)' <=> Has(n)
BY DEF StackOK, Depth, Program, Has

\* The program moves on.
LEMMA ProgramStep ==
    ASSUME StackOK, NEW from, NEW to \in ProgramAt, At(from), Goto(to)
    PROVE  /\ StackOK' /\ Depth = 1 /\ Depth' = 1
           /\ Program = from /\ Program' = to
           /\ \A n : ~Has(n) /\ ~Has(n)'
<1>1. Depth = 1 /\ Program = from
  BY DEF At
<1>2. StackOK' /\ Depth' = 1 /\ Program' = to
  BY <1>1, GotoStack
<1>3. \A n : ~Has(n) /\ ~Has(n)'
  BY <1>1, <1>2 DEF Has
<1> QED BY <1>1, <1>2, <1>3

\* A call moves on.
LEMMA CallStep ==
    ASSUME StackOK, NEW from, NEW to \in CallAt, Calls(from), Goto(to)
    PROVE  /\ StackOK' /\ Depth' = Depth
           /\ Program' = Program
           /\ Has(from) /\ Has(to)'
           /\ \A n : n # to /\ Has(n)' => Has(n)
           /\ \A n : n # from /\ Has(n) => Has(n)'
BY GotoStack, TopHas DEF Calls

\* A call returns.
LEMMA ReturnStep ==
    ASSUME StackOK, NEW from, Calls(from), Return
    PROVE  /\ StackOK' /\ Depth' = Depth - 1
           /\ Program' = Program
           /\ Has(from)
           /\ \A n : Has(n)' => Has(n)
           /\ \A n : n # from /\ Has(n) => Has(n)'
BY ReturnStack, TopHas DEF Calls

LEMMA DepthIsNat == StackOK => Depth \in Nat /\ Depth >= 1
BY DEF StackOK, Depth

-----------------------------------------------------------------------------
(* The invariant, one lemma per part of the system.                        *)

LEMMA InitIInv == Init => IInv
<1> SUFFICES ASSUME Init PROVE IInv
  OBVIOUS
<1> DEFINE p == IF kind = "sum" THEN "start_sender" ELSE "consume"
<1>1. stack = << p >> /\ p \in ProgramAt
  BY DEF Init, ProgramAt
<1>2. Depth = 1 /\ Program = p
  BY <1>1 DEF Depth, Program
<1>3. StackOK /\ \A n : ~Has(n)
  BY <1>1, <1>2 DEF StackOK, Has
<1>4. Program \in {"start_sender", "consume"}
  BY <1>2
<1>5. TypeOK
  BY <1>3, ShutdownAssumption DEF Init, TypeOK
<1>6. EnvelopesAccounted
  BY <1>4, ShutdownAssumption DEF Init, EnvelopesAccounted
<1>7. CallsHaveCauses /\ LockHasHolder /\ DrainedWhenStopped /\ ThreadsInOrder
  BY <1>2, <1>3, <1>4 DEF Init, CallsHaveCauses, LockHasHolder, DrainedWhenStopped,
     ThreadsInOrder, Causes
<1> QED BY <1>5, <1>6, <1>7 DEF IInv

\* The program of start.
LEMMA ProgramKeepsIInv == IInv /\ (RunProgram \/ ConsumerFails) => IInv'
<1> SUFFICES ASSUME IInv, RunProgram \/ ConsumerFails PROVE IInv'
  OBVIOUS
<1> USE DEF ProgramAt
<1>0. TypeOK /\ StackOK /\ Depth \in Nat
  BY DepthIsNat DEF IInv, TypeOK
<1>1. CASE StartSender
  <2>1. /\ StackOK' /\ Depth = 1 /\ Depth' = 1
        /\ Program = "start_sender" /\ Program' = "start_receiver"
        /\ \A n : ~Has(n) /\ ~Has(n)'
    BY <1>0, <1>1, ProgramStep DEF StartSender
  <2> QED BY ONLY <1>0, <1>1, <2>1, IInv, ShutdownAssumption
      DEF StartSender, IInv, TypeOK, CallsHaveCauses, LockHasHolder, DrainedWhenStopped,
          EnvelopesAccounted, ThreadsInOrder, Causes, sentVars, queueVars, flags, historyVars
<1>2. CASE StartReceiver
  <2>1. /\ StackOK' /\ Depth = 1 /\ Depth' = 1
        /\ Program = "start_receiver" /\ Program' = "consume"
        /\ \A n : ~Has(n) /\ ~Has(n)'
    BY <1>0, <1>2, ProgramStep DEF StartReceiver
  <2> QED BY ONLY <1>0, <1>2, <2>1, IInv, ShutdownAssumption
      DEF StartReceiver, IInv, TypeOK, CallsHaveCauses, LockHasHolder, DrainedWhenStopped,
          EnvelopesAccounted, ThreadsInOrder, Causes, sentVars, queueVars, flags, historyVars
<1>3. CASE ConsumeData
  <2> DEFINE to == IF kind = "sum" THEN "safe_put" ELSE "consume"
  <2>1. /\ StackOK' /\ Depth = 1 /\ Depth' = 1
        /\ Program = "consume" /\ Program' = to
        /\ \A n : ~Has(n) /\ ~Has(n)'
    <3>1. to \in ProgramAt /\ At("consume") /\ Goto(to)
      BY <1>3 DEF ConsumeData
    <3> QED BY ONLY <1>0, <3>1, ProgramStep
  <2> QED BY ONLY <1>0, <1>3, <2>1, IInv, ShutdownAssumption
      DEF ConsumeData, IInv, TypeOK, CallsHaveCauses, LockHasHolder, DrainedWhenStopped,
          EnvelopesAccounted, ThreadsInOrder, Causes, sentVars, queueVars, flags, historyVars,
          queueFrame, threadVars
<1>4. CASE EnterPut
  <2>1. /\ StackOK' /\ Depth = 1 /\ Depth' = 1
        /\ Program = "put" /\ Program' = "putting"
        /\ \A n : ~Has(n) /\ ~Has(n)'
    BY <1>0, <1>4, ProgramStep DEF EnterPut
  <2> QED BY ONLY <1>0, <1>4, <2>1, IInv, ShutdownAssumption
      DEF EnterPut, IInv, TypeOK, CallsHaveCauses, LockHasHolder, DrainedWhenStopped,
          EnvelopesAccounted, ThreadsInOrder, Causes, sentVars, queueVars, flags, historyVars,
          queueFrame, threadVars
<1>5. CASE LeavePut
  <2>1. /\ StackOK' /\ Depth = 1 /\ Depth' = 1
        /\ Program = "putting" /\ Program' = "ack"
        /\ \A n : ~Has(n) /\ ~Has(n)'
    BY <1>0, <1>5, ProgramStep DEF LeavePut
  <2>2. TypeOK'
    <3>1. queue' \in Nat
      BY ONLY <1>0, <1>5 DEF LeavePut, PutEnvelope, TypeOK
    <3> QED BY ONLY <1>0, <1>5, <2>1, <3>1 DEF LeavePut, TypeOK, flags, historyVars,
        queueFrame, threadVars, sentVars
  <2>3. EnvelopesAccounted'
    <3>1. kind' = "sum" /\ ~stopped' => queue' = queue + 1
      BY ONLY <1>5, IInv DEF LeavePut, PutEnvelope, IInv, DrainedWhenStopped, queueFrame,
         flags
    <3> QED BY ONLY <1>0, <1>5, <2>1, <3>1, IInv, ShutdownAssumption
        DEF LeavePut, IInv, TypeOK, EnvelopesAccounted, flags, queueFrame, threadVars,
            sentVars
  <2>4. CallsHaveCauses' /\ LockHasHolder' /\ DrainedWhenStopped' /\ ThreadsInOrder'
    BY ONLY <1>0, <1>5, <2>1, IInv
       DEF LeavePut, IInv, TypeOK, CallsHaveCauses, LockHasHolder, DrainedWhenStopped,
           ThreadsInOrder, Causes, flags, historyVars, queueFrame, threadVars
  <2> QED BY <2>2, <2>3, <2>4 DEF IInv
<1>6. CASE ConsumerFails
  <2>1. /\ StackOK' /\ Depth = 1 /\ Depth' = 1
        /\ Program = "consume" /\ Program' = "finally"
        /\ \A n : ~Has(n) /\ ~Has(n)'
    BY <1>0, <1>6, ProgramStep DEF ConsumerFails
  <2> QED BY ONLY <1>0, <1>6, <2>1, IInv, ShutdownAssumption
      DEF ConsumerFails, IInv, TypeOK, CallsHaveCauses, LockHasHolder, DrainedWhenStopped,
          EnvelopesAccounted, ThreadsInOrder, Causes, sentVars, queueVars, flags, threadVars
<1>7. CASE Finally
  <2> DEFINE to == IF kind = "sum" THEN "join_receiver" ELSE "close"
  <2>1. /\ StackOK' /\ Depth = 1 /\ Depth' = 2
        /\ Program = "finally" /\ Program' = to
        /\ \A n : ~Has(n)
        /\ \A n : Has(n)' => n = "lock"
    <3>1. to \in ProgramAt /\ At("finally") /\ stack' = << to, "lock" >>
      BY <1>7 DEF Finally
    <3>2. Depth = 1 /\ Program = "finally"
      BY <3>1 DEF At
    <3> QED BY ONLY <3>1, <3>2, ProgramCallStack, NoCalls
  <2> QED BY ONLY <1>0, <1>7, <2>1, IInv, ShutdownAssumption
      DEF Finally, IInv, TypeOK, CallsHaveCauses, LockHasHolder, DrainedWhenStopped,
          EnvelopesAccounted, ThreadsInOrder, Causes, sentVars, queueVars, flags, historyVars,
          queueFrame, threadVars
<1>8. CASE SafePut \/ Ack \/ StopsConsuming \/ JoinReceiver \/ JoinSender \/ Close
  <2>1. PICK from \in ProgramAt, to \in ProgramAt :
           /\ Moves(from, to)
           /\ \/ from = "safe_put" /\ to = "put"
              \/ from = "safe_put" /\ stopped /\ to = "ack"
              \/ from = "ack" /\ to = "consume"
              \/ from = "consume" /\ stopData /\ to = "finally"
              \/ from = "join_receiver" /\ receiver = "done" /\ to = "join_sender"
              \/ from = "join_sender" /\ sender = "done" /\ to = "close"
              \/ from = "close" /\ to = "ended"
    BY <1>8 DEF SafePut, Ack, StopsConsuming, JoinReceiver, JoinSender, Close
  <2>2. /\ StackOK' /\ Depth = 1 /\ Depth' = 1
        /\ Program = from /\ Program' = to
        /\ \A n : ~Has(n) /\ ~Has(n)'
    BY <1>0, <2>1, ProgramStep DEF Moves
  <2> QED BY ONLY <1>0, <2>1, <2>2, IInv, ShutdownAssumption
      DEF Moves, IInv, TypeOK, CallsHaveCauses, LockHasHolder, DrainedWhenStopped,
          EnvelopesAccounted, ThreadsInOrder, Causes, sentVars, queueVars, flags, historyVars,
          queueFrame, threadVars
<1> QED BY <1>1, <1>2, <1>3, <1>4, <1>5, <1>6, <1>7, <1>8 DEF RunProgram

\* The handler and request_shutdown.
LEMMA CallKeepsIInv == IInv /\ (Sigterm \/ RequestShutdown) => IInv'
<1> SUFFICES ASSUME IInv, Sigterm \/ RequestShutdown PROVE IInv'
  OBVIOUS
<1> USE DEF CallAt
<1>0. TypeOK /\ StackOK /\ Depth \in Nat
  BY DepthIsNat DEF IInv, TypeOK
<1>1. CASE Sigterm
  <2>1. /\ StackOK' /\ Depth' = Depth + 1 /\ Program' = Program
        /\ \A n : Has(n) => Has(n)'
        /\ \A n : n # "lock" /\ Has(n)' => Has(n)
    BY <1>0, <1>1, CallStack DEF Sigterm
  <2> QED BY ONLY <1>0, <1>1, <2>1, IInv, ShutdownAssumption
      DEF Sigterm, IInv, TypeOK, CallsHaveCauses, LockHasHolder, DrainedWhenStopped,
          EnvelopesAccounted, ThreadsInOrder, Causes, sentVars,
          queueVars, flags, callFrame, threadVars
<1>2. CASE EnterLock
  <2>1. /\ StackOK' /\ Depth' = Depth /\ Program' = Program /\ Has("locked")'
        /\ \A n : n # "locked" /\ Has(n)' => Has(n)
    BY <1>0, <1>2, CallStep DEF EnterLock
  <2> QED BY ONLY <1>0, <1>2, <2>1, IInv, ShutdownAssumption
      DEF EnterLock, IInv, TypeOK, CallsHaveCauses, LockHasHolder, DrainedWhenStopped,
          EnvelopesAccounted, ThreadsInOrder, Causes, sentVars, queueVars, flags, callFrame,
          threadVars, historyVars
<1>3. CASE LeaveLock
  <2>1. /\ StackOK' /\ Depth' \in Nat /\ Depth' <= Depth /\ Program' = Program
        /\ Has("drain")' => Has("drain")
    <3>1. CASE started
      BY <1>0, <1>3, <3>1, ReturnStep DEF LeaveLock, Calls
    <3>2. CASE ~started
      BY <1>0, <1>3, <3>2, CallStep DEF LeaveLock, Calls
    <3> QED BY <3>1, <3>2
  <2>2. TypeOK'
    BY ONLY <1>0, <1>3, <2>1 DEF LeaveLock, TypeOK, queueVars, callFrame, threadVars,
       historyVars, sentVars
  <2>3. EnvelopesAccounted'
    BY ONLY <1>3, <2>1, IInv DEF LeaveLock, IInv, EnvelopesAccounted, queueVars, callFrame,
       threadVars, sentVars
  <2>4. CallsHaveCauses' /\ LockHasHolder' /\ DrainedWhenStopped' /\ ThreadsInOrder'
    BY ONLY <1>0, <1>3, <2>1, IInv
       DEF LeaveLock, IInv, TypeOK, CallsHaveCauses, LockHasHolder, DrainedWhenStopped,
           ThreadsInOrder, Causes, queueVars, callFrame, threadVars, historyVars
  <2> QED BY <2>2, <2>3, <2>4 DEF IInv
<1>4. CASE StopData
  <2>1. /\ StackOK' /\ Depth' \in Nat /\ Depth' <= Depth /\ Depth > 1 /\ Program' = Program
        /\ Has("drain")' => Has("drain")
        /\ Has("locked") => Has("locked")'
    <3>1. CASE kind = "sum"
      BY <1>0, <1>4, <3>1, CallStep DEF StopData, Calls
    <3>2. CASE kind # "sum"
      BY <1>0, <1>4, <3>2, ReturnStep DEF StopData, Calls
    <3> QED BY <3>1, <3>2
  <2> QED BY ONLY <1>0, <1>4, <2>1, IInv, ShutdownAssumption
      DEF StopData, IInv, TypeOK, CallsHaveCauses, LockHasHolder, DrainedWhenStopped,
          EnvelopesAccounted, ThreadsInOrder, Causes, sentVars,
          queueVars, callFrame, threadVars,
          historyVars
<1>5. CASE StopReceiver
  <2>1. /\ StackOK' /\ Depth' = Depth /\ Program' = Program
        /\ Has("drain")' => Has("drain")
        /\ Has("locked") => Has("locked")'
    BY <1>0, <1>5, CallStep DEF StopReceiver
  <2> QED BY ONLY <1>0, <1>5, <2>1, IInv, ShutdownAssumption
      DEF StopReceiver, IInv, TypeOK, CallsHaveCauses, LockHasHolder, DrainedWhenStopped,
          EnvelopesAccounted, ThreadsInOrder, Causes, sentVars,
          queueVars, callFrame, threadVars,
          historyVars
<1>6. CASE StopSender
  <2>1. /\ StackOK' /\ Depth' = Depth /\ Program' = Program
        /\ Has("locked") => Has("locked")'
    BY <1>0, <1>6, CallStep DEF StopSender
  <2> QED BY ONLY <1>0, <1>6, <2>1, IInv, ShutdownAssumption
      DEF StopSender, IInv, TypeOK, CallsHaveCauses, LockHasHolder, DrainedWhenStopped,
          EnvelopesAccounted, ThreadsInOrder, Causes, sentVars,
          queueVars, callFrame, threadVars,
          historyVars
<1>7. CASE Drain
  <2>1. /\ StackOK' /\ Depth' = Depth - 1 /\ Program' = Program
        /\ Has("drain")
        /\ Has("locked") => Has("locked")'
    BY <1>0, <1>7, ReturnStep DEF Drain
  <2> QED BY ONLY <1>0, <1>7, <2>1, IInv, ShutdownAssumption
      DEF Drain, IInv, TypeOK, CallsHaveCauses, LockHasHolder, DrainedWhenStopped,
          EnvelopesAccounted, ThreadsInOrder, Causes, sentVars, flags, callFrame, threadVars,
          historyVars
<1> QED BY <1>1, <1>2, <1>3, <1>4, <1>5, <1>6, <1>7 DEF RequestShutdown

\* The control threads.
LEMMA ThreadKeepsIInv == IInv /\ (ReceiverThread \/ SenderThread) => IInv'
<1> SUFFICES ASSUME IInv, ReceiverThread \/ SenderThread PROVE IInv'
  OBVIOUS
<1>0. TypeOK /\ StackOK
  BY DEF IInv, TypeOK
<1>1. mainFrame' = mainFrame
  BY DEF ReceiverThread, SenderThread, ConsumeControl, ReceiverStops, ReceiverFails,
     GetEnvelope, SendEnvelope, SendFails, SenderEnds
<1>2. /\ StackOK' /\ Depth' = Depth /\ Program' = Program
      /\ \A n : Has(n)' <=> Has(n)
  BY <1>0, <1>1, SameStack DEF mainFrame
<1>3. Depth \in Nat
  BY <1>0, DepthIsNat
<1>4. CASE ConsumeControl
  BY ONLY <1>0, <1>2, <1>3, <1>4, IInv, ShutdownAssumption
     DEF ConsumeControl, PutEnvelope, IInv, TypeOK, CallsHaveCauses, LockHasHolder,
         DrainedWhenStopped, EnvelopesAccounted, ThreadsInOrder, Causes, sentVars, mainFrame, flags,
         threadVars
<1>5. CASE ReceiverStops \/ ReceiverFails
  BY ONLY <1>0, <1>2, <1>3, <1>5, IInv, ShutdownAssumption
     DEF ReceiverStops, ReceiverFails, IInv, TypeOK, CallsHaveCauses, LockHasHolder,
         DrainedWhenStopped, EnvelopesAccounted, ThreadsInOrder, Causes, sentVars, mainFrame, flags,
         queueVars
<1>6. CASE GetEnvelope
  BY ONLY <1>0, <1>2, <1>3, <1>6, IInv, ShutdownAssumption
     DEF GetEnvelope, IInv, TypeOK, CallsHaveCauses, LockHasHolder,
         DrainedWhenStopped, EnvelopesAccounted, ThreadsInOrder, Causes, sentVars, mainFrame, flags
<1>7. CASE SendEnvelope \/ SendFails
  BY ONLY <1>0, <1>2, <1>3, <1>7, IInv, ShutdownAssumption
     DEF SendEnvelope, SendFails, IInv, TypeOK, CallsHaveCauses, LockHasHolder, queueVars,
         DrainedWhenStopped, EnvelopesAccounted, ThreadsInOrder, Causes, sentVars, mainFrame, flags
<1>8. CASE SenderEnds
  BY ONLY <1>0, <1>2, <1>3, <1>8, IInv, ShutdownAssumption
     DEF SenderEnds, IInv, TypeOK, CallsHaveCauses, LockHasHolder, queueVars,
         DrainedWhenStopped, EnvelopesAccounted, ThreadsInOrder, Causes, sentVars, mainFrame, flags
<1> QED BY <1>4, <1>5, <1>6, <1>7, <1>8 DEF ReceiverThread, SenderThread

LEMMA StutterKeepsIInv == IInv /\ UNCHANGED vars => IInv'
<1> SUFFICES ASSUME IInv, UNCHANGED vars PROVE IInv'
  OBVIOUS
<1>1. /\ StackOK /\ StackOK' /\ Depth' = Depth /\ Program' = Program
      /\ \A n : Has(n)' <=> Has(n)
  BY SameStack DEF IInv, TypeOK, vars
<1> QED BY ONLY <1>1, IInv, UNCHANGED vars
    DEF vars, IInv, TypeOK, CallsHaveCauses, LockHasHolder, DrainedWhenStopped,
        EnvelopesAccounted, ThreadsInOrder, Causes, sentVars,
        queueVars, flags, historyVars, threadVars

LEMMA NextIInv == IInv /\ [Next]_vars => IInv'
BY ProgramKeepsIInv, CallKeepsIInv, ThreadKeepsIInv, StutterKeepsIInv DEF Next, MainThread

\* The lock of a deadlocked thread is held further down, by another call: two
\* calls have two causes.
LEMMA IInvOneCause == IInv => OneCauseOnlyInPut
<1> SUFFICES ASSUME IInv, SelfDeadlocked, ~mutexHeld PROVE Causes >= 2
  BY DEF OneCauseOnlyInPut, IInv, TypeOK, Causes
<1>1. Depth > 1 /\ Top = "lock" /\ Has("locked")
  BY DEF SelfDeadlocked, IInv, LockHasHolder
<1>2. stack \in Seq(ProgramAt \cup CallAt) /\ Depth \in Nat
  BY DepthIsNat DEF IInv, TypeOK, StackOK
<1>3. PICK i \in 2 .. Depth : stack[i] = "locked"
  BY <1>1 DEF Has
<1>4. i # Depth
  BY <1>1, <1>3 DEF Top
<1>5. Depth >= 3
  BY <1>2, <1>3, <1>4
<1> QED BY <1>2, <1>5 DEF IInv, CallsHaveCauses, TypeOK, Causes

LEMMA IInvClosed == IInv => ClosedWhenUnused
BY DEF IInv, ThreadsInOrder, ClosedWhenUnused, Ended

-----------------------------------------------------------------------------
LEMMA SpecIInv == Spec => []IInv
BY InitIInv, NextIInv, PTL DEF Spec

\* The stack is always one program and calls of request_shutdown above it, and
\* nothing counted goes below zero.
THEOREM TypeCorrect == Spec => []TypeOK
<1>1. IInv => TypeOK
  BY DEF IInv
<1> QED BY <1>1, SpecIInv, PTL

\* However many signals come: with one cause of ending, a worker deadlocks with
\* itself only inside put.
THEOREM OneCauseHolds == Spec => []OneCauseOnlyInPut
BY IInvOneCause, SpecIInv, PTL

\* Until the sender is stopped, every consumed message has its envelope: nothing
\* but the shutdown, or a send of its own that raised, loses one.
THEOREM EnvelopesAccountedHolds == Spec => []EnvelopesAccounted
<1>1. IInv => EnvelopesAccounted
  BY DEF IInv
<1> QED BY <1>1, SpecIInv, PTL

\* Both control threads are done before their connections are closed.
THEOREM ClosedWhenUnusedHolds == Spec => []ClosedWhenUnused
BY IInvClosed, SpecIInv, PTL
=================================================================================

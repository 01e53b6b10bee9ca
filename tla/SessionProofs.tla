---------------------------- MODULE SessionProofs ----------------------------
(***************************************************************************)
(* For every budget, buffer size and number of streams: the truncation     *)
(* flag is exact, the pumps together forward no more than the budget, the  *)
(* idle clock expires on a quiet program only, the first caller of         *)
(* terminate decides the outcome, and no container outlives its session as *)
(* long as the Docker daemon carries out what Cleanup asks of it.          *)
(***************************************************************************)
EXTENDS Session, SequenceTheorems, FiniteSetTheorems, TLAPS

\* The precondition of ContainerRemoved: Docker refuses nothing.  It may leave
\* any call unanswered.
DockerAnswers == "docker" \notin Events

\* Only a chunk that is cut leads to Mark, and cutting it exhausts the budget.
MarkedAfterCut == \A s \in Streams : At(s, "mark") => budget < 0

\* A result is assembled, and sent, by a teardown that somebody has begun.
Outcome ==
  /\ term # "none" => reason \in Clocks
  /\ result # Pending => term \in {"close", "closed"}
  /\ worker # "session" => result # Pending

\* From Cleanup on the container is gone.
Removed == DockerAnswers /\ term \in {"result", "close", "closed"} => ~box /\ proc # "running"

SessionInv == TypeOK /\ Outcome

(***************************************************************************)
(* Types, and what a result presupposes.                                   *)
(***************************************************************************)

LEMMA InitTyped == Init => SessionInv
<1> SUFFICES ASSUME Init PROVE SessionInv
  OBVIOUS
<1> USE SizesAssumption DEF Init
<1>1. pump \in [Streams -> [at : PumpAt, fwd : 0..MaxChunk]] /\ clock \in [Clocks -> {"on", "calling", "gone"}]
  BY DEF PumpAt
<1>2. wire \in Seq(Chunk) /\ Len(wire) <= PipeCap
  BY EmptySeq
<1>3. /\ produced \in 0..MaxOut /\ budget \in Int /\ {collected, published, persisted} \subseteq Nat
      /\ activity \in 0..ActivityCap /\ stdinActivity \in 0..ActivityCap
  OBVIOUS
<1>4. {box, attached, open, stdinOpen, truncated, quiet, cancelled} \subseteq BOOLEAN /\ hung \subseteq Call
  OBVIOUS
<1>5. term \in Term /\ reason \in Clocks \cup {"none"} /\ exit \in Exit /\ worker \in Job
  BY DEF Clocks, Term, Exit, Job
<1>6. TypeOK
  BY <1>1, <1>2, <1>3, <1>4, <1>5 DEF TypeOK
<1>7. Outcome
  BY DEF Outcome, Pending
<1> QED
  BY <1>6, <1>7 DEF SessionInv

\* The program, its input and the outside world.
LEMMA OutsideTyped ==
  ASSUME SessionInv, Program \/ Outside
  PROVE  SessionInv'
<1> USE SizesAssumption
        DEF SessionInv, TypeOK, Outcome, sandboxVars, outputVars, idleVars, endVars, ctxVars, Stopped, Offer
<1>1. ASSUME NEW s \in Streams, NEW n \in 1..MaxChunk, Write(s, n) PROVE SessionInv'
  <2>1. [stream |-> s, size |-> n] \in Chunk
    BY DEF Chunk
  <2>2. wire' \in Seq(Chunk) /\ Len(wire') <= PipeCap
    <3>1. CASE attached
      <4>1. wire' = Append(wire, [stream |-> s, size |-> n]) /\ Len(wire) < PipeCap
        BY <1>1, <3>1 DEF Write
      <4>2. Append(wire, [stream |-> s, size |-> n]) \in Seq(Chunk)
        BY <2>1, AppendProperties
      <4>3. Len(Append(wire, [stream |-> s, size |-> n])) = Len(wire) + 1
        BY <2>1, AppendProperties
      <4>4. Len(wire) \in Nat
        BY LenProperties
      <4> QED
        BY <4>1, <4>2, <4>3, <4>4
    <3>2. CASE ~attached
      BY <1>1, <3>2 DEF Write
    <3> QED
      BY <3>1, <3>2
  <2>3. produced' \in 0..MaxOut
    BY <1>1 DEF Write
  <2> QED
    BY <1>1, <2>2, <2>3 DEF Write
<1>2. CASE Exits
  BY <1>2 DEF Exits
<1>3. CASE StdinChunk
  <2>1. stdinActivity' \in 0..ActivityCap
    BY <1>3 DEF StdinChunk
  <2>2. {box, attached, open, stdinOpen, truncated, quiet, cancelled}' \subseteq BOOLEAN /\ hung' \subseteq Call
    BY <1>3 DEF StdinChunk
  <2> QED
    BY <1>3, <2>1, <2>2 DEF StdinChunk
<1>4. CASE CloseStdin
  BY <1>4 DEF CloseStdin
<1>5. CASE UserKill
  BY <1>5 DEF UserKill, Destroy, DestroyFails
<1>6. CASE Cancel
  BY <1>6 DEF Cancel
<1>7. CASE FlushDelayEnds
  <2>1. PICK k \in 0..Len(wire) : wire' = SubSeq(wire, 1, k)
    BY <1>7 DEF FlushDelayEnds
  <2>2. wire' \in Seq(Chunk) /\ Len(wire') <= PipeCap
    BY <2>1, SubSeqProperties, LenProperties
  <2> QED
    BY <1>7, <2>2 DEF FlushDelayEnds
<1> QED
  BY <1>1, <1>2, <1>3, <1>4, <1>5, <1>6, <1>7 DEF Program, Outside

\* Taking the head off a sequence does not lengthen it.
LEMMA TailFits ==
  ASSUME NEW S, NEW s \in Seq(S), s # <<>>, NEW cap \in Nat, Len(s) <= cap
  PROVE  Len(Tail(s)) <= cap
BY HeadTailProperties, LenProperties

LEMMA PumpTyped ==
  ASSUME SessionInv, NEW s \in Streams, PumpStep(s)
  PROVE  SessionInv'
<1> USE SizesAssumption
        DEF SessionInv, TypeOK, Outcome, sandboxVars, outputVars, idleVars, endVars, ctxVars, At, Go, Offer, PumpAt
<1>1. CASE Charge(s)
  <2>0. /\ wire \in Seq(Chunk) /\ wire # <<>> /\ Len(wire) <= PipeCap
        /\ wire' = Tail(wire)
    BY <1>1 DEF Charge
  <2>1. Head(wire) \in Chunk /\ Tail(wire) \in Seq(Chunk)
    BY <2>0, HeadTailProperties
  <2>2. Len(wire') <= PipeCap
    BY <2>0, TailFits
  <2>3. budget' \in Int /\ pump' \in [Streams -> [at : PumpAt, fwd : 0..MaxChunk]]
    <3> DEFINE n   == Head(wire).size
               fwd == IF budget <= 0 THEN 0 ELSE IF n > budget THEN budget ELSE n
               at  == IF fwd < n THEN "mark" ELSE "collect"
    <3>1. n \in 1..MaxChunk
      BY <2>1 DEF Chunk
    <3>2. budget \in Int /\ MaxChunk \in Nat
      OBVIOUS
    <3>3. fwd \in 0..MaxChunk
      BY ONLY <3>1, <3>2
    <3>4. at \in PumpAt
      BY DEF PumpAt
    <3>5. budget' = budget - n /\ pump' = [pump EXCEPT ![s] = [at |-> at, fwd |-> fwd]]
      BY <1>1 DEF Charge
    <3> HIDE DEF fwd, at
    <3>6. pump' \in [Streams -> [at : PumpAt, fwd : 0..MaxChunk]]
      BY <3>3, <3>4, <3>5
    <3> QED
      BY <3>1, <3>2, <3>5, <3>6
  <2> QED
    BY <1>1, <2>1, <2>2, <2>3 DEF Charge
<1>2. CASE Mark(s)
  BY <1>2 DEF Mark
<1>3. CASE Collect(s)
  BY <1>3 DEF Collect
<1>4. CASE Publish(s)
  BY <1>4 DEF Publish
<1>5. CASE SignalActivity(s)
  BY <1>5 DEF SignalActivity
<1>6. CASE PumpEnds(s)
  BY <1>6 DEF PumpEnds
<1> QED
  BY <1>1, <1>2, <1>3, <1>4, <1>5, <1>6 DEF PumpStep

LEMMA FireTyped ==
  ASSUME SessionInv, NEW c \in Clocks, NEW code \in Exit, Fire(c, code)
  PROVE  SessionInv'
BY DEF Fire, SessionInv, TypeOK, Outcome, sandboxVars, outputVars, idleVars, ctxVars, Term, Exit, Clocks

LEMMA ClocksTyped ==
  ASSUME SessionInv, WaitReturns \/ WaitFails \/ WallFires \/ CpuFires \/ IdleStep \/ (\E c \in Clocks : Gone(c)) \/ \E c \in Call : Hang(c)
  PROVE  SessionInv'
<1>1. CASE WaitReturns \/ WaitFails \/ WallFires \/ CpuFires \/ IdleFires
  BY <1>1, FireTyped DEF WaitReturns, WaitFails, WallFires, CpuFires, IdleFires, Clocks, Exit
<1> USE SizesAssumption
        DEF SessionInv, TypeOK, Outcome, sandboxVars, outputVars, idleVars, endVars, ctxVars, Offer
<1>2. CASE IdleElapses
  BY <1>2 DEF IdleElapses
<1>3. CASE IdleResets
  BY <1>3 DEF IdleResets
<1>4. CASE ForwardStdinActivity
  BY <1>4 DEF ForwardStdinActivity
<1>5. ASSUME NEW c \in Clocks, Gone(c) PROVE SessionInv'
  BY <1>5 DEF Gone
<1>6. ASSUME NEW c \in Call, Hang(c) PROVE SessionInv'
  BY <1>6 DEF Hang
<1> QED
  BY <1>1, <1>2, <1>3, <1>4, <1>5, <1>6 DEF IdleStep

LEMMA EndTyped ==
  ASSUME SessionInv, Terminating \/ WorkerStep
  PROVE  SessionInv'
<1> USE SizesAssumption
        DEF SessionInv, TypeOK, Outcome, sandboxVars, outputVars, idleVars, endVars, ctxVars, Then, WorkerGoes, Stopped, Term, Job
<1>1. CASE Hook
  BY <1>1 DEF Hook
<1>2. CASE Kill
  BY <1>2 DEF Kill, Destroy, DestroyFails
<1>3. CASE Cleanup
  <2>1. wire' \in Seq(Chunk) /\ Len(wire') <= PipeCap
    BY <1>3, EmptySeq DEF Cleanup
  <2> QED
    BY <1>3, <2>1 DEF Cleanup
<1>4. CASE SendResult
  <2>1. result' \in Result /\ result' # Pending
    BY <1>4 DEF SendResult, Result, Pending, Clocks
  <2> QED
    BY <1>4, <2>1 DEF SendResult
<1>5. CASE CloseDone
  BY <1>5 DEF CloseDone
<1>6. CASE RunInteractiveReturns
  BY <1>6 DEF RunInteractiveReturns
<1>7. CASE PublishResult
  BY <1>7 DEF PublishResult
<1>8. CASE Persist
  BY <1>8 DEF Persist
<1>9. CASE Remove
  <2>1. proc' \in {"running", "exited", "killed"} /\ box' \in BOOLEAN
    BY <1>9 DEF Remove, Destroy, DestroyFails
  <2> QED
    BY <1>9, <2>1 DEF Remove
<1> QED
  BY <1>1, <1>2, <1>3, <1>4, <1>5, <1>6, <1>7, <1>8, <1>9 DEF Terminating, WorkerStep

LEMMA SessionInvariant == Spec => []SessionInv
<1>1. ASSUME SessionInv, [Next]_vars PROVE SessionInv'
  <2>1. CASE Next
    BY <1>1, <2>1, OutsideTyped, PumpTyped, ClocksTyped, EndTyped DEF Next
  <2>2. CASE UNCHANGED vars
    BY <1>1, <2>2 DEF SessionInv, TypeOK, Outcome, vars, sandboxVars, outputVars, idleVars, endVars, ctxVars
  <2> QED
    BY <1>1, <2>1, <2>2
<1> QED
  BY InitTyped, <1>1, PTL DEF Spec

\* Every variable keeps its type (internal/session).
THEOREM TypeCorrect == Spec => []TypeOK
<1>1. SessionInv => TypeOK
  BY DEF SessionInv
<1> QED
  BY SessionInvariant, <1>1, PTL

(***************************************************************************)
(* The truncation flag.                                                    *)
(***************************************************************************)

LEMMA PumpMarks ==
  ASSUME TypeOK, MarkedAfterCut, TruncatedWhenCut, NEW s \in Streams, PumpStep(s)
  PROVE  MarkedAfterCut' /\ TruncatedWhenCut'
<1> USE DEF MarkedAfterCut, TruncatedWhenCut, At, Go
<1>0. pump \in [Streams -> [at : PumpAt, fwd : 0..MaxChunk]] /\ budget \in Int /\ truncated \in BOOLEAN
  BY DEF TypeOK
<1>1. CASE Charge(s)
  <2>1. Head(wire).size \in 1..MaxChunk
    <3>1. Head(wire) \in Chunk
      BY <1>1, HeadTailProperties DEF Charge, TypeOK
    <3> QED
      BY <3>1 DEF Chunk
  <2>2. budget' \in Int /\ budget' < budget /\ truncated' = truncated
    BY <1>0, <1>1, <2>1, SizesAssumption DEF Charge
  <2>3. \A t \in Streams \ {s} : pump'[t] = pump[t]
    BY <1>0, <1>1 DEF Charge
  <2>4. pump'[s].at = "mark" <=> budget' < 0
    BY <1>0, <1>1, <2>1, SizesAssumption DEF Charge
  <2>5. MarkedAfterCut'
    BY <1>0, <2>2, <2>3, <2>4
  <2>6. truncated => budget' < 0
    BY <1>0, <2>2
  <2> QED
    BY <2>2, <2>4, <2>5, <2>6
<1>2. CASE Mark(s)
  BY <1>0, <1>2 DEF Mark
<1>3. CASE Collect(s)
  BY <1>0, <1>3 DEF Collect
<1>4. CASE Publish(s)
  BY <1>0, <1>4 DEF Publish
<1>5. CASE SignalActivity(s)
  BY <1>0, <1>5 DEF SignalActivity
<1>6. CASE PumpEnds(s)
  BY <1>0, <1>6 DEF PumpEnds
<1> QED
  BY <1>1, <1>2, <1>3, <1>4, <1>5, <1>6 DEF PumpStep

\* Nobody else touches the budget, the flag or a pump.
LEMMA OthersKeepMarks ==
  ASSUME [Next]_vars, ~\E s \in Streams : PumpStep(s)
  PROVE  UNCHANGED <<pump, budget, truncated>>
<1> USE DEF outputVars
<1>1. CASE Program \/ Outside
  BY <1>1 DEF Program, Write, Exits, Outside, StdinChunk, CloseStdin, UserKill, Cancel, FlushDelayEnds
<1>2. CASE WaitReturns \/ WaitFails \/ WallFires \/ CpuFires
  BY <1>2 DEF WaitReturns, WaitFails, WallFires, CpuFires, Fire
<1>3. CASE IdleStep \/ (\E c \in Clocks : Gone(c)) \/ \E c \in Call : Hang(c)
  BY <1>3 DEF IdleStep, IdleElapses, IdleFires, Fire, IdleResets, ForwardStdinActivity, Gone, Hang
<1>4. CASE Terminating
  BY <1>4 DEF Terminating, Hook, Kill, Cleanup, Remove, SendResult, CloseDone
<1>5. CASE WorkerStep
  BY <1>5 DEF WorkerStep, RunInteractiveReturns, PublishResult, Persist
<1>6. CASE UNCHANGED vars
  BY <1>6 DEF vars
<1> QED
  BY <1>1, <1>2, <1>3, <1>4, <1>5, <1>6 DEF Next

\* A pump that is to raise the flag has exhausted the budget.
LEMMA MarksInvariant == Spec => [](MarkedAfterCut /\ TruncatedWhenCut)
<1> DEFINE Inv == MarkedAfterCut /\ TruncatedWhenCut
<1>1. Init => Inv
  BY SizesAssumption DEF Init, MarkedAfterCut, TruncatedWhenCut, At
<1>2. ASSUME TypeOK, Inv, [Next]_vars PROVE Inv'
  <2>1. ASSUME NEW s \in Streams, PumpStep(s) PROVE Inv'
    BY <1>2, <2>1, PumpMarks
  <2>2. CASE ~\E s \in Streams : PumpStep(s)
    <3>1. UNCHANGED <<pump, budget, truncated>>
      BY <1>2, <2>2, OthersKeepMarks
    <3> QED
      BY <1>2, <3>1 DEF MarkedAfterCut, TruncatedWhenCut, At
  <2> QED
    BY <2>1, <2>2
<1> QED
  BY <1>1, <1>2, TypeCorrect, PTL DEF Spec

\* The flag is raised exactly when output is cut (Pump.Run, pump.go:80).
THEOREM TruncationExact == Spec => []TruncatedWhenCut
BY MarksInvariant, PTL

(***************************************************************************)
(* The container.                                                          *)
(***************************************************************************)

LEMMA OthersKeepRemoved ==
  ASSUME SessionInv, Removed, [Next]_vars, ~Terminating
  PROVE  Removed'
<1> USE DEF Removed, sandboxVars, endVars, ctxVars, Stopped
<1>1. CASE Program \/ Outside
  BY <1>1 DEF Program, Write, Exits, Outside, StdinChunk, CloseStdin, UserKill, Destroy, DestroyFails, Cancel,
              FlushDelayEnds
<1>2. CASE \E s \in Streams : PumpStep(s)
  BY <1>2 DEF PumpStep, Charge, Mark, Collect, Publish, SignalActivity, PumpEnds
<1>3. CASE WaitReturns \/ WaitFails \/ WallFires \/ CpuFires
  BY <1>3 DEF WaitReturns, WaitFails, WallFires, CpuFires, Fire
<1>4. CASE IdleStep \/ (\E c \in Clocks : Gone(c)) \/ \E c \in Call : Hang(c)
  BY <1>4 DEF IdleStep, IdleElapses, IdleFires, Fire, IdleResets, ForwardStdinActivity, Gone, Hang
<1>5. CASE WorkerStep
  BY <1>5 DEF WorkerStep, RunInteractiveReturns, PublishResult, Persist
<1>6. CASE UNCHANGED vars
  BY <1>6 DEF vars
<1> QED
  BY <1>1, <1>2, <1>3, <1>4, <1>5, <1>6 DEF Next

LEMMA EndRemoves ==
  ASSUME SessionInv, Removed, Terminating
  PROVE  Removed'
<1> USE DEF Removed, Then, sandboxVars, Stopped
<1>1. CASE Hook
  BY <1>1 DEF Hook
<1>2. CASE Kill
  BY <1>2 DEF Kill
<1>3. CASE Cleanup
  BY <1>3 DEF Cleanup
<1>4. CASE SendResult
  BY <1>4 DEF SendResult
<1>5. CASE CloseDone
  BY <1>5 DEF CloseDone
<1>6. CASE Remove
  BY <1>6 DEF Remove, Destroy, DockerAnswers
<1> QED
  BY <1>1, <1>2, <1>3, <1>4, <1>5, <1>6 DEF Terminating

\* Whatever ended the session, and under whatever context, the container is
\* gone when the job reports (terminate, Cleanup).
THEOREM ContainerRemoved ==
  ASSUME DockerAnswers
  PROVE  Spec => []ContainerGone
<1>1. Init => Removed
  BY DEF Init, Removed
<1>2. ASSUME SessionInv, Removed, [Next]_vars PROVE Removed'
  BY <1>2, OthersKeepRemoved, EndRemoves
<1>3. SessionInv /\ Removed => ContainerGone
  BY DockerAnswers DEF SessionInv, Outcome, Removed, ContainerGone
<1> QED
  BY <1>1, <1>2, <1>3, SessionInvariant, PTL DEF Spec

(***************************************************************************)
(* The single teardown.                                                    *)
(***************************************************************************)

\* One caller of terminate gets in; its reason and exit code stand, and the
\* result is sent once (lifecycle.go:116).
THEOREM OneTeardown == Spec => FirstCallerDecides
<1> DEFINE Step == /\ term # "none" => reason' = reason /\ exit' = exit
                   /\ result # Pending => result' = result
                   /\ term # "none" => term' # "none" /\ (term' = "hook" => term = "hook")
<1>1. ASSUME SessionInv, [Next]_vars PROVE Step
  <2> USE <1>1 DEF endVars, ctxVars
  <2>1. CASE Program \/ Outside
    BY <2>1 DEF Program, Write, Exits, Outside, StdinChunk, CloseStdin, UserKill, Cancel, FlushDelayEnds
  <2>2. CASE \E s \in Streams : PumpStep(s)
    BY <2>2 DEF PumpStep, Charge, Mark, Collect, Publish, SignalActivity, PumpEnds
  <2>3. CASE WaitReturns \/ WaitFails \/ WallFires \/ CpuFires
    BY <2>3 DEF WaitReturns, WaitFails, WallFires, CpuFires, Fire
  <2>4. CASE IdleStep \/ (\E c \in Clocks : Gone(c)) \/ \E c \in Call : Hang(c)
    BY <2>4 DEF IdleStep, IdleElapses, IdleFires, Fire, IdleResets, ForwardStdinActivity, Gone, Hang
  <2>5. CASE Terminating
    BY <2>5 DEF Terminating, Hook, Kill, Cleanup, Remove, SendResult, CloseDone, Then, SessionInv, Outcome
  <2>6. CASE WorkerStep
    BY <2>6 DEF WorkerStep, RunInteractiveReturns, PublishResult, Persist
  <2>7. CASE UNCHANGED vars
    BY <2>7 DEF vars
  <2> QED
    BY <2>1, <2>2, <2>3, <2>4, <2>5, <2>6, <2>7 DEF Next
<1>2. SessionInv /\ [Next]_vars => [Step]_vars
  BY <1>1
<1> QED
  BY <1>2, SessionInvariant, PTL DEF Spec, FirstCallerDecides

(***************************************************************************)
(* The byte budget.  What the pumps at some places hold is the number of   *)
(* bytes they are to forward from there: a step of one pump moves its own. *)
(***************************************************************************)

Bytes(p, places) ==
  {u \in Streams \X (1..MaxChunk) : p[u[1]].at \in places /\ u[2] <= p[u[1]].fwd}

Rest(p, places, s)  == {u \in Bytes(p, places) : u[1] # s}
Share(p, places, s) == IF p[s].at \in places THEN p[s].fwd ELSE 0

\* A pump holds as many bytes as it is to forward.
LEMMA ShareSize ==
  ASSUME NEW s, NEW n \in Nat
  PROVE  IsFiniteSet({s} \X (1..n)) /\ Cardinality({s} \X (1..n)) = n
<1>1. IsFiniteSet({s}) /\ Cardinality({s}) = 1
  BY FS_Singleton
<1>2. IsFiniteSet(1..n) /\ Cardinality(1..n) = n
  BY FS_Interval
<1>3. IsFiniteSet({s} \X (1..n)) /\ Cardinality({s} \X (1..n)) = Cardinality({s}) * Cardinality(1..n)
  BY <1>1, <1>2, FS_Product, Zenon
<1>4. 1 * n = n
  OBVIOUS
<1> QED
  BY <1>1, <1>2, <1>3, <1>4, Zenon

\* Without the pump that moves, and with it.
LEMMA BytesSplit ==
  ASSUME NEW p \in [Streams -> [at : PumpAt, fwd : 0..MaxChunk]], NEW places, NEW s \in Streams
  PROVE  /\ Cardinality(Rest(p, places, s)) \in Nat
         /\ Cardinality(Bytes(p, places)) = Cardinality(Rest(p, places, s)) + Share(p, places, s)
<1> DEFINE rest == Rest(p, places, s)
           own  == Share(p, places, s)
<1>1. own \in 0..MaxChunk /\ MaxChunk \in Nat
  BY SizesAssumption DEF Share
<1>2. IsFiniteSet(Bytes(p, places))
  <2>0. IsFiniteSet(1..MaxChunk)
    BY <1>1, FS_Interval
  <2>1. IsFiniteSet(Streams \X (1..MaxChunk))
    BY <2>0, StreamsAssumption, FS_Product, Zenon
  <2>2. Bytes(p, places) \subseteq Streams \X (1..MaxChunk)
    BY DEF Bytes
  <2> QED
    BY <2>1, <2>2, FS_Subset
<1>3. rest \subseteq Bytes(p, places) /\ IsFiniteSet(rest) /\ Cardinality(rest) \in Nat
  BY <1>2, FS_Subset, FS_CardinalityType DEF Rest
<1>4. Bytes(p, places) = rest \cup ({s} \X (1..own))
  <2>1. ASSUME NEW u \in Bytes(p, places), u[1] = s PROVE u \in {s} \X (1..own)
    <3>1. u \in Streams \X (1..MaxChunk) /\ p[s].at \in places /\ u[2] <= p[s].fwd
      BY <2>1 DEF Bytes
    <3>2. u = <<u[1], u[2]>> /\ u[2] \in 1..MaxChunk
      BY <3>1
    <3>3. u[2] \in 1..own
      BY <1>1, <3>1, <3>2 DEF Share
    <3> QED
      BY <2>1, <3>2, <3>3
  <2>2. ASSUME NEW u \in {s} \X (1..own) PROVE u \in Bytes(p, places)
    <3>1. u = <<u[1], u[2]>> /\ u[1] = s /\ u[2] \in 1..own
      OBVIOUS
    <3>2. u[2] \in 1..MaxChunk /\ p[s].at \in places /\ u[2] <= p[s].fwd
      BY <1>1, <3>1 DEF Share
    <3> QED
      BY <3>1, <3>2 DEF Bytes
  <2>3. \A u \in Bytes(p, places) : u \in rest <=> u[1] # s
    BY DEF Rest
  <2> QED
    BY <1>3, <2>1, <2>2, <2>3
<1>5. rest \cap ({s} \X (1..own)) = {}
  BY DEF Rest
<1>6. IsFiniteSet({s} \X (1..own)) /\ Cardinality({s} \X (1..own)) = own
  <2>1. own \in Nat
    BY <1>1
  <2> HIDE DEF own
  <2> QED
    BY <2>1, ShareSize, Zenon
<1> HIDE DEF rest, own
<1>7. Cardinality(Bytes(p, places)) = Cardinality(rest) + own
  <2>1. Cardinality(Bytes(p, places)) = Cardinality(rest) + own - Cardinality({})
    BY <1>3, <1>4, <1>5, <1>6, FS_Union
  <2> QED
    BY <1>1, <1>3, <2>1, FS_EmptySet
<1> QED
  BY <1>3, <1>7 DEF rest, own

\* Only the share of the pump that moves changes.
LEMMA ShareMoves ==
  ASSUME NEW p \in [Streams -> [at : PumpAt, fwd : 0..MaxChunk]],
         NEW q \in [Streams -> [at : PumpAt, fwd : 0..MaxChunk]],
         NEW s \in Streams, \A t \in Streams \ {s} : q[t] = p[t], NEW places
  PROVE  \E r \in Nat : /\ Cardinality(Bytes(p, places)) = r + Share(p, places, s)
                        /\ Cardinality(Bytes(q, places)) = r + Share(q, places, s)
<1>1. Rest(p, places, s) = Rest(q, places, s)
  <2>1. ASSUME NEW u \in Streams \X (1..MaxChunk), u[1] # s PROVE q[u[1]] = p[u[1]]
    <3>1. u[1] \in Streams
      OBVIOUS
    <3> QED
      BY <2>1, <3>1
  <2> QED
    BY <2>1 DEF Rest, Bytes
<1>2. /\ Cardinality(Rest(p, places, s)) \in Nat
      /\ Cardinality(Bytes(p, places)) = Cardinality(Rest(p, places, s)) + Share(p, places, s)
  BY BytesSplit
<1>3. Cardinality(Bytes(q, places)) = Cardinality(Rest(q, places, s)) + Share(q, places, s)
  BY BytesSplit
<1> QED
  BY <1>1, <1>2, <1>3

\* What the budget let through is collected or about to be, and what is
\* collected is published or about to be.
Accounted ==
  /\ collected + Cardinality(Bytes(pump, {"mark", "collect"})) = Budget - (IF budget > 0 THEN budget ELSE 0)
  /\ published + Cardinality(Bytes(pump, {"publish"})) = collected
  /\ persisted <= collected

\* The numbers of bytes are natural numbers.
LEMMA BytesFinite ==
  ASSUME TypeOK, NEW places
  PROVE  Cardinality(Bytes(pump, places)) \in Nat
<1>1. IsFiniteSet(1..MaxChunk)
  BY SizesAssumption, FS_Interval
<1>2. IsFiniteSet(Streams \X (1..MaxChunk))
  BY <1>1, StreamsAssumption, FS_Product, Zenon
<1>3. Bytes(pump, places) \subseteq Streams \X (1..MaxChunk)
  BY DEF Bytes
<1> QED
  BY <1>2, <1>3, FS_Subset, FS_CardinalityType

\* A pump reads at least one byte.
LEMMA ChargedSize ==
  ASSUME TypeOK, NEW s \in Streams, Charge(s)
  PROVE  Head(wire).size \in 1..MaxChunk
<1>1. Head(wire) \in Chunk
  BY HeadTailProperties DEF Charge, TypeOK
<1> QED
  BY <1>1 DEF Chunk

\* Each step of a pump moves its bytes on: from the budget to its hands,
\* from there to the collected output, from there to the client.
LEMMA PumpAccounts ==
  ASSUME TypeOK, TypeOK', Accounted, NEW s \in Streams, PumpStep(s)
  PROVE  Accounted'
<1> DEFINE A == Cardinality(Bytes(pump, {"mark", "collect"}))
           B == Cardinality(Bytes(pump, {"publish"}))
           ShareA == Share(pump, {"mark", "collect"}, s)
           ShareB == Share(pump, {"publish"}, s)
           at  == pump[s].at
           fwd == pump[s].fwd
<1>0. /\ pump \in [Streams -> [at : PumpAt, fwd : 0..MaxChunk]] /\ pump' \in [Streams -> [at : PumpAt, fwd : 0..MaxChunk]]
      /\ budget \in Int /\ budget' \in Int /\ Budget \in Nat /\ MaxChunk \in Nat
      /\ {collected, published, persisted} \subseteq Nat /\ {collected, published, persisted}' \subseteq Nat
  BY SizesAssumption DEF TypeOK
<1>1. \A t \in Streams \ {s} : pump'[t] = pump[t]
  BY <1>0 DEF PumpStep, Charge, Mark, Collect, Publish, SignalActivity, PumpEnds, Go
<1>2. PICK a \in Nat : A = a + ShareA /\ A' = a + ShareA'
  BY <1>0, <1>1, ShareMoves
<1>3. PICK b \in Nat : B = b + ShareB /\ B' = b + ShareB'
  BY <1>0, <1>1, ShareMoves
<1>4. /\ ShareA = (IF at \in {"mark", "collect"} THEN fwd ELSE 0) /\ ShareB = (IF at = "publish" THEN fwd ELSE 0)
      /\ ShareA' = (IF at' \in {"mark", "collect"} THEN fwd' ELSE 0) /\ ShareB' = (IF at' = "publish" THEN fwd' ELSE 0)
      /\ fwd \in 0..MaxChunk /\ fwd' \in 0..MaxChunk
  BY <1>0 DEF Share
<1>5. /\ collected + A = Budget - (IF budget > 0 THEN budget ELSE 0) /\ published + B = collected /\ persisted <= collected
      /\ persisted' = persisted
  BY DEF Accounted, PumpStep, Charge, Mark, Collect, Publish, SignalActivity, PumpEnds
<1> SUFFICES /\ collected' + A' = Budget - (IF budget' > 0 THEN budget' ELSE 0) /\ published' + B' = collected'
             /\ collected <= collected'
  BY <1>0, <1>5 DEF Accounted
<1> HIDE DEF A, B, ShareA, ShareB
<1>6. CASE Charge(s)
  <2>1. Head(wire).size \in 1..MaxChunk
    BY <1>6, ChargedSize
  <2>2. PICK n \in 1..MaxChunk : /\ budget' = budget - n /\ at = "read" /\ at' \in {"mark", "collect"}
                                 /\ fwd' = IF budget <= 0 THEN 0 ELSE IF n > budget THEN budget ELSE n
                                 /\ UNCHANGED <<collected, published>>
    BY <1>0, <1>6, <2>1 DEF Charge, At
  <2>3. /\ fwd' \in Nat
        /\ (IF budget > 0 THEN budget ELSE 0) = (IF budget' > 0 THEN budget' ELSE 0) + fwd'
    BY <1>0, <2>2
  <2>4. PICK f \in Nat : /\ (IF budget > 0 THEN budget ELSE 0) = (IF budget' > 0 THEN budget' ELSE 0) + f
                         /\ ShareA = 0 /\ ShareB = 0 /\ ShareA' = f /\ ShareB' = 0
    BY <1>4, <2>2, <2>3
  <2>5. A' = A + f /\ B' = B /\ A \in Nat /\ B \in Nat
    BY <1>2, <1>3, <2>4
  <2>6. collected \in Nat /\ published \in Nat /\ collected' = collected /\ published' = published
    BY <1>0, <2>2
  <2>7. collected + A = Budget - (IF budget > 0 THEN budget ELSE 0)
    BY <1>5
  <2>8. published' + B' = collected'
    BY <1>5, <2>5, <2>6
  <2>9. collected + A + f = Budget - (IF budget' > 0 THEN budget' ELSE 0)
    <3>1. PICK l \in Nat, m \in Nat : /\ l = (IF budget > 0 THEN budget ELSE 0)
                                       /\ m = (IF budget' > 0 THEN budget' ELSE 0)
      BY <1>0
    <3>2. collected + A = Budget - l /\ l = m + f
      BY <2>4, <2>7, <3>1
    <3>3. collected + A + f = Budget - m
      BY <1>0, <2>5, <2>6, <3>2
    <3> QED
      BY <3>1, <3>3
  <2>10. collected' + A' = Budget - (IF budget' > 0 THEN budget' ELSE 0)
    BY <2>5, <2>6, <2>9
  <2>11. collected <= collected'
    BY <2>6
  <2> QED
    BY <2>8, <2>10, <2>11
<1>7. CASE Mark(s)
  <2>1. /\ at = "mark" /\ fwd' = fwd /\ at' = (IF fwd > 0 THEN "collect" ELSE "read")
        /\ UNCHANGED <<collected, published, budget>>
    BY <1>0, <1>7 DEF Mark, At, Go
  <2> HIDE DEF at, fwd
  <2> QED
    BY <1>0, <1>2, <1>3, <1>4, <1>5, <2>1
<1>8. CASE Collect(s)
  <2>1. /\ at = "collect" /\ fwd' = fwd /\ at' = "publish" /\ collected' = collected + fwd
        /\ UNCHANGED <<published, budget>>
    BY <1>0, <1>8 DEF Collect, At, Go
  <2> HIDE DEF at, fwd
  <2> QED
    BY <1>0, <1>2, <1>3, <1>4, <1>5, <2>1
<1>9. CASE Publish(s)
  <2>1. /\ at = "publish" /\ fwd' = fwd /\ at' = "signal" /\ published' = published + fwd
        /\ UNCHANGED <<collected, budget>>
    BY <1>0, <1>9 DEF Publish, At, Go
  <2> HIDE DEF at, fwd
  <2> QED
    BY <1>0, <1>2, <1>3, <1>4, <1>5, <2>1
<1>10. CASE SignalActivity(s) \/ PumpEnds(s)
  <2>1. at \in {"signal", "read"} /\ at' \in {"read", "ended"} /\ UNCHANGED <<collected, published, budget>>
    BY <1>0, <1>10 DEF SignalActivity, PumpEnds, At, Go
  <2> HIDE DEF at, fwd
  <2> QED
    BY <1>0, <1>2, <1>3, <1>4, <1>5, <2>1
<1> QED
  BY <1>6, <1>7, <1>8, <1>9, <1>10 DEF PumpStep

\* Nobody else forwards output; the job goroutine persists what there is.
LEMMA OthersKeepAccounts ==
  ASSUME TypeOK, Accounted, [Next]_vars, ~\E s \in Streams : PumpStep(s)
  PROVE  Accounted'
<1>1. UNCHANGED <<pump, budget>>
  BY OthersKeepMarks
<1>2. UNCHANGED <<collected, published>> /\ persisted' \in {persisted, collected}
  <2> USE DEF outputVars
  <2>1. CASE Program \/ Outside
    BY <2>1 DEF Program, Write, Exits, Outside, StdinChunk, CloseStdin, UserKill, Cancel, FlushDelayEnds
  <2>2. CASE WaitReturns \/ WaitFails \/ WallFires \/ CpuFires
    BY <2>2 DEF WaitReturns, WaitFails, WallFires, CpuFires, Fire
  <2>3. CASE IdleStep \/ (\E c \in Clocks : Gone(c)) \/ \E c \in Call : Hang(c)
    BY <2>3 DEF IdleStep, IdleElapses, IdleFires, Fire, IdleResets, ForwardStdinActivity, Gone, Hang
  <2>4. CASE Terminating
    BY <2>4 DEF Terminating, Hook, Kill, Cleanup, Remove, SendResult, CloseDone
  <2>5. CASE WorkerStep
    BY <2>5 DEF WorkerStep, RunInteractiveReturns, PublishResult, Persist
  <2>6. CASE UNCHANGED vars
    BY <2>6 DEF vars
  <2> QED
    BY <2>1, <2>2, <2>3, <2>4, <2>5, <2>6 DEF Next
<1> QED
  BY <1>1, <1>2 DEF Accounted, TypeOK

\* The two pumps together forward at most the budget, to the persisted result
\* and to the client (pump.go:79), for any number of streams and any chunks.
THEOREM BudgetHolds == Spec => []ForwardedWithinBudget
<1>1. ASSUME Init PROVE Accounted
  <2>1. ASSUME NEW u \in Streams \X (1..MaxChunk) PROVE pump[u[1]].at = "read"
    <3>1. u[1] \in Streams
      OBVIOUS
    <3> QED
      BY <1>1, <3>1 DEF Init
  <2>2. Bytes(pump, {"mark", "collect"}) = {} /\ Bytes(pump, {"publish"}) = {}
    BY <2>1 DEF Bytes
  <2>3. Cardinality({}) = 0
    BY FS_EmptySet
  <2>4. /\ collected = 0 /\ published = 0 /\ persisted = 0 /\ budget = Budget /\ Budget \in Nat
        /\ Budget = IF Budget > 0 THEN Budget ELSE 0
    BY <1>1, SizesAssumption DEF Init
  <2> QED
    BY <2>2, <2>3, <2>4 DEF Accounted
<1>2. ASSUME SessionInv, SessionInv', Accounted, [Next]_vars PROVE Accounted'
  <2>1. ASSUME NEW s \in Streams, PumpStep(s) PROVE Accounted'
    BY <1>2, <2>1, PumpAccounts DEF SessionInv
  <2>2. CASE ~\E s \in Streams : PumpStep(s)
    BY <1>2, <2>2, OthersKeepAccounts DEF SessionInv
  <2> QED
    BY <2>1, <2>2
<1>3. ASSUME SessionInv, Accounted PROVE ForwardedWithinBudget
  <2>1. /\ Cardinality(Bytes(pump, {"mark", "collect"})) \in Nat /\ Cardinality(Bytes(pump, {"publish"})) \in Nat
        /\ {collected, published, persisted} \subseteq Nat /\ budget \in Int /\ Budget \in Nat
    BY <1>3, BytesFinite, SizesAssumption DEF SessionInv, TypeOK
  <2> QED
    BY <1>3, <2>1 DEF Accounted, ForwardedWithinBudget
<1> QED
  BY <1>1, <1>2, <1>3, SessionInvariant, PTL DEF Spec

(***************************************************************************)
(* The idle clock.                                                         *)
(***************************************************************************)

\* Input or output since the last reset is still on its way to the idle
\* clock: in the connection, in a pump, or as a signal in one of the two
\* channels; only what a pump drops after the budget leaves no trace.
OnItsWay ==
  \/ wire # <<>> \/ activity > 0 \/ stdinActivity > 0
  \/ \E s \in Streams : pump[s].at \notin {"read", "ended"}
  \/ budget < 0

SeenByIdle == term = "none" /\ attached /\ ~quiet => OnItsWay

\* A pump passes on what it read as a signal, or has cut it.
LEMMA PumpKeepsSeen ==
  ASSUME TypeOK, MarkedAfterCut, SeenByIdle, NEW s \in Streams, PumpStep(s)
  PROVE  SeenByIdle'
<1>0. /\ pump \in [Streams -> [at : PumpAt, fwd : 0..MaxChunk]] /\ budget \in Int
      /\ activity \in 0..ActivityCap /\ ActivityCap \in Nat \ {0}
      /\ UNCHANGED <<term, attached, quiet, stdinActivity>>
  BY SizesAssumption DEF TypeOK, PumpStep, Charge, Mark, Collect, Publish, SignalActivity, PumpEnds,
     sandboxVars, idleVars, endVars, ctxVars
<1>1. CASE Charge(s)
  BY <1>0, <1>1 DEF Charge, SeenByIdle, OnItsWay
<1>2. CASE Mark(s)
  <2>1. budget < 0 /\ budget' = budget
    BY <1>2 DEF Mark, MarkedAfterCut
  <2> QED
    BY <2>1 DEF SeenByIdle, OnItsWay
<1>3. CASE Collect(s)
  BY <1>0, <1>3 DEF Collect, Go, SeenByIdle, OnItsWay
<1>4. CASE Publish(s)
  BY <1>0, <1>4 DEF Publish, Go, SeenByIdle, OnItsWay
<1>5. CASE SignalActivity(s)
  <2>1. activity' > 0
    BY <1>0, <1>5 DEF SignalActivity, Offer
  <2> QED
    BY <2>1 DEF SeenByIdle, OnItsWay
<1>6. CASE PumpEnds(s)
  <2>1. wire' = wire /\ activity' = activity /\ budget' = budget /\ pump[s].at = "read"
        /\ \A t \in Streams \ {s} : pump'[t] = pump[t]
    BY <1>0, <1>6 DEF PumpEnds, At, Go, idleVars
  <2> QED
    BY <1>0, <2>1 DEF SeenByIdle, OnItsWay
<1> QED
  BY <1>1, <1>2, <1>3, <1>4, <1>5, <1>6 DEF PumpStep

\* What the program writes and the client sends is on its way; a signal is
\* passed on, and the reset that takes one off begins a quiet time.
LEMMA OthersKeepSeen ==
  ASSUME TypeOK, SeenByIdle, [Next]_vars, ~\E s \in Streams : PumpStep(s)
  PROVE  SeenByIdle'
<1>0. /\ UNCHANGED <<pump, budget>> /\ wire \in Seq(Chunk) /\ ActivityCap \in Nat \ {0}
      /\ activity \in 0..ActivityCap /\ stdinActivity \in 0..ActivityCap
  BY OthersKeepMarks, SizesAssumption DEF TypeOK
<1> USE <1>0 DEF SeenByIdle, OnItsWay, sandboxVars, outputVars, idleVars, endVars, ctxVars, Offer
<1>1. ASSUME NEW s \in Streams, NEW n \in 1..MaxChunk, Write(s, n) PROVE SeenByIdle'
  <2>1. attached => wire' # <<>>
    <3>1. [stream |-> s, size |-> n] \in Chunk
      BY DEF Chunk
    <3>2. Append(wire, [stream |-> s, size |-> n]) # <<>>
      BY <3>1, AppendProperties
    <3> QED
      BY <1>1, <3>2 DEF Write
  <2>2. attached' = attached
    BY <1>1 DEF Write
  <2> QED
    BY <2>1, <2>2
<1>2. CASE Exits \/ Outside
  <2>1. CASE Exits \/ CloseStdin \/ UserKill \/ Cancel
    BY <2>1 DEF Exits, CloseStdin, UserKill, Cancel
  <2>2. CASE StdinChunk
    <3>1. stdinActivity' > 0
      BY <2>2 DEF StdinChunk
    <3> QED
      BY <3>1
  <2>3. CASE FlushDelayEnds
    <3>1. ~attached'
      BY <2>3 DEF FlushDelayEnds
    <3> QED
      BY <3>1
  <2> QED
    BY <1>2, <2>1, <2>2, <2>3 DEF Outside
<1>3. CASE WaitReturns \/ WaitFails \/ WallFires \/ CpuFires
  BY <1>3 DEF WaitReturns, WaitFails, WallFires, CpuFires, Fire
<1>4. CASE IdleStep \/ (\E c \in Clocks : Gone(c)) \/ \E c \in Call : Hang(c)
  <2>1. CASE IdleElapses \/ IdleFires \/ (\E c \in Clocks : Gone(c)) \/ \E c \in Call : Hang(c)
    BY <2>1 DEF IdleElapses, IdleFires, Fire, Gone, Hang
  <2>2. CASE IdleResets
    <3>1. quiet' = TRUE
      BY <2>2 DEF IdleResets
    <3> QED
      BY <3>1
  <2>3. CASE ForwardStdinActivity
    <3>1. activity' > 0
      BY <2>3 DEF ForwardStdinActivity
    <3> QED
      BY <3>1
  <2> QED
    BY <1>4, <2>1, <2>2, <2>3 DEF IdleStep
<1>5. CASE Terminating
  <2>1. term' # "none"
    BY <1>5 DEF Terminating, Hook, Kill, Cleanup, Remove, SendResult, CloseDone, Then
  <2> QED
    BY <2>1
<1>6. CASE WorkerStep
  BY <1>6 DEF WorkerStep, RunInteractiveReturns, PublishResult, Persist
<1>7. CASE UNCHANGED vars
  BY <1>7 DEF vars
<1> QED
  BY <1>1, <1>2, <1>3, <1>4, <1>5, <1>6, <1>7 DEF Next, Program

\* Activity is never lost between the program and the idle clock.
LEMMA SeenInvariant == Spec => []SeenByIdle
<1>1. Init => SeenByIdle
  BY DEF Init, SeenByIdle
<1>2. ASSUME TypeOK, MarkedAfterCut, SeenByIdle, [Next]_vars PROVE SeenByIdle'
  BY <1>2, PumpKeepsSeen, OthersKeepSeen
<1> QED
  BY <1>1, <1>2, MarksInvariant, TypeCorrect, PTL DEF Spec

\* A program that reads, or writes within its budget, does not run into the
\* idle clock while it is attached (clocks.go:37): the clock expires only when
\* nothing is on its way to it.
THEOREM IdleExpiresWhenQuiet == Spec => IdleOnlyWhenQuiet
<1> DEFINE Step == timer = "armed" /\ timer' = "expired" /\ term = "none" /\ attached => quiet \/ budget < 0
<1>1. ASSUME TypeOK, SeenByIdle, [Next]_vars, timer = "armed", timer' = "expired", term = "none", attached
      PROVE  quiet \/ budget < 0
  <2>1. IdleElapses
    <3> USE <1>1 DEF outputVars, idleVars
    <3>1. CASE Program \/ Outside
      BY <3>1 DEF Program, Write, Exits, Outside, StdinChunk, CloseStdin, UserKill, Cancel, FlushDelayEnds
    <3>2. CASE \E s \in Streams : PumpStep(s)
      BY <3>2 DEF PumpStep, Charge, Mark, Collect, Publish, SignalActivity, PumpEnds
    <3>3. CASE WaitReturns \/ WaitFails \/ WallFires \/ CpuFires
      BY <3>3 DEF WaitReturns, WaitFails, WallFires, CpuFires, Fire
    <3>4. CASE IdleStep \/ (\E c \in Clocks : Gone(c)) \/ \E c \in Call : Hang(c)
      BY <3>4 DEF IdleStep, IdleFires, Fire, IdleResets, ForwardStdinActivity, Gone, Hang
    <3>5. CASE Terminating \/ WorkerStep
      BY <3>5 DEF Terminating, Hook, Kill, Cleanup, Remove, SendResult, CloseDone, WorkerStep, RunInteractiveReturns,
                  PublishResult, Persist
    <3>6. CASE UNCHANGED vars
      BY <3>6 DEF vars
    <3> QED
      BY <3>1, <3>2, <3>3, <3>4, <3>5, <3>6 DEF Next
  <2>2. Settled
    BY <2>1 DEF IdleElapses
  <2> QED
    BY <1>1, <2>2 DEF Settled, SeenByIdle, OnItsWay, TypeOK
<1>2. TypeOK /\ SeenByIdle /\ [Next]_vars => [Step]_vars
  BY <1>1
<1> QED
  BY <1>2, SeenInvariant, TypeCorrect, PTL DEF Spec, IdleOnlyWhenQuiet
=============================================================================

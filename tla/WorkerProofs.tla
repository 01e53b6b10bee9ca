---------------------------- MODULE WorkerProofs ----------------------------
(***************************************************************************)
(* Theorems about Worker for every set of workers and jobs, every capacity *)
(* and every combination of faults.                                        *)
(***************************************************************************)
EXTENDS Worker, FiniteSetTheorems, TLAPS

\* releaseSlot keeps every counter within the capacity of its channel.
LEMMA ReleaseSlotType ==
  ASSUME TypeOK, NEW j \in Jobs, ReleaseSlot(j)
  PROVE  slots' \in [Workers -> 0..MaxSandboxes]
<1>1. slots \in [Workers -> 0..MaxSandboxes] /\ MaxSandboxes \in Nat
  BY CapacityAssumption DEF TypeOK
<1>2. ASSUME NEW w \in Workers PROVE slots'[w] \in 0..MaxSandboxes
  BY <1>1 DEF ReleaseSlot
<1> QED
  BY <1>1, <1>2 DEF ReleaseSlot

\* The channels of a job hold messages, after a hand-back, a close or a receive.
LEMMA HandBackType ==
  ASSUME TypeOK, NEW j \in Jobs, HandBack(j)
  PROVE  /\ ctrl' \in [Jobs -> Seq(Msg)] /\ held' \in [Jobs -> Seq(Msg)]
         /\ UNCHANGED <<sub, killSent, killSeen>>
<1>1. ctrl[j] \in Seq(Msg) /\ held[j] \in Seq(Msg)
  BY DEF TypeOK
<1>2. ctrl[j] \o held[j] \in Seq(Msg)
  BY <1>1
<1>3. ASSUME NEW s \in Seq(Msg) PROVE Fit(s) \in Seq(Msg)
  <2>1. CASE Len(s) > CtrlCap
    <3>1. \A i \in 1..CtrlCap : s[i] \in Msg
      BY <2>1, CapacityAssumption
    <3> QED
      BY <2>1, <3>1, CapacityAssumption DEF Fit
  <2> QED
    BY <2>1 DEF Fit
<1>4. Fit(ctrl[j] \o held[j]) \in Seq(Msg)
  BY <1>2, <1>3
<1>5. <<>> \in Seq(Msg)
  OBVIOUS
<1> QED
  BY <1>4, <1>5 DEF TypeOK, HandBack

\* sub.Close leaves an empty channel and no subscription.
LEMMA CloseSubsType ==
  ASSUME TypeOK, NEW j \in Jobs, CloseSubs(j)
  PROVE  /\ ctrl' \in [Jobs -> Seq(Msg)]
         /\ sub' \in [Jobs -> {"none", "requested", "active"}]
         /\ killSent' \subseteq Jobs
<1>1. <<>> \in Seq(Msg)
  OBVIOUS
<1> QED
  BY <1>1 DEF TypeOK, CloseSubs

\* What a receive takes from ctrlCh is a message, and messages stay.
LEMMA TakeType ==
  ASSUME TypeOK, NEW j \in Jobs, Take(j)
  PROVE  ctrl' \in [Jobs -> Seq(Msg)] /\ Head(ctrl[j]) \in Msg
<1>1. ctrl[j] \in Seq(Msg) /\ ctrl[j] # <<>>
  BY DEF TypeOK, Take
<1>2. Tail(ctrl[j]) \in Seq(Msg) /\ Head(ctrl[j]) \in Msg
  BY <1>1
<1> QED
  BY <1>2 DEF TypeOK, Take

\* A status write, failed or not, leaves every job with a state.
LEMMA WriteStatusType ==
  ASSUME TypeOK, NEW j \in Jobs, NEW s \in State, WriteStatus(j, s)
  PROVE  status' \in [Jobs -> State]
<1>1. status \in [Jobs -> State]
  BY DEF TypeOK
<1> QED
  BY <1>1 DEF WriteStatus

\* SREM keeps an owned-jobs set per worker.
LEMMA RemoveOwnedType ==
  ASSUME TypeOK, NEW j \in Jobs, RemoveOwned(j)
  PROVE  owned' \in [Workers -> SUBSET Jobs]
<1>1. owned \in [Workers -> SUBSET Jobs]
  BY DEF TypeOK
<1> QED
  BY <1>1 DEF RemoveOwned

\* SADD keeps an owned-jobs set per worker.
LEMMA AddOwnedType ==
  ASSUME TypeOK, NEW j \in Jobs, AddOwnedJob(j)
  PROVE  owned' \in [Workers -> SUBSET Jobs]
<1>1. owned \in [Workers -> SUBSET Jobs]
  BY DEF TypeOK
<1> QED
  BY <1>1 DEF AddOwnedJob

\* The compile watch holds messages and records kills of jobs.
LEMMA WatchTakesType ==
  ASSUME TypeOK, NEW j \in Jobs, WatchTakes(j)
  PROVE  held' \in [Jobs -> Seq(Msg)] /\ killSeen' \subseteq Jobs
<1>1. held \in [Jobs -> Seq(Msg)] /\ killSeen \subseteq Jobs
  BY DEF TypeOK
<1>2. Append(held[j], Head(ctrl[j])) \in Seq(Msg)
  <2>1. held[j] \in Seq(Msg) /\ Head(ctrl[j]) \in Msg
    BY <1>1, TakeType DEF WatchTakes
  <2> QED
    BY <2>1
<1>3. CASE Head(ctrl[j]) = "kill"
  BY <1>1, <1>3 DEF WatchTakes
<1>4. CASE Head(ctrl[j]) # "kill"
  <2>1. held' = [held EXCEPT ![j] = Append(held[j], Head(ctrl[j]))] /\ killSeen' = killSeen
    BY <1>4 DEF WatchTakes
  <2> QED
    BY <1>1, <1>2, <2>1
<1> QED
  BY <1>3, <1>4

\* A move of the goroutine ends at a place of its code.
LEMMA MoveType ==
  ASSUME TypeOK, NEW j \in Jobs, NEW from, NEW to \in JobPc, Move(j, from, to)
  PROVE  pc' \in [Jobs -> JobPc]
<1>1. pc \in [Jobs -> JobPc]
  BY DEF TypeOK
<1> QED
  BY <1>1 DEF Move

\* So does every step of the teardown.
LEMMA TeardownPcType ==
  ASSUME TypeOK, NEW j \in Jobs, TeardownStep(j)
  PROVE  pc' \in [Jobs -> JobPc]
<1>1. \E from \in JobPc, to \in JobPc : Move(j, from, to)
  <2> USE DEF JobPc, Teardown, Abort
  <2>1. CASE Disown(j)
    BY <2>1 DEF Disown
  <2>2. CASE Release(j)
    BY <2>2 DEF Release
  <2>3. CASE ReleaseLeases(j)
    BY <2>3 DEF ReleaseLeases
  <2>4. CASE PublishResult(j)
    BY <2>4 DEF PublishResult
  <2>5. CASE WriteFinal(j)
    BY <2>5 DEF WriteFinal
  <2>6. CASE PersistOutput(j)
    BY <2>6 DEF PersistOutput
  <2>7. CASE CleanupSandbox(j)
    BY <2>7 DEF CleanupSandbox
  <2> QED
    BY <2>1, <2>2, <2>3, <2>4, <2>5, <2>6, <2>7 DEF TeardownStep
<1> QED
  BY <1>1, MoveType

\* Type correctness of the worker: every step of Next keeps each variable in
\* its domain, the slot counters within 0..MaxSandboxes included.
LEMMA TypeStep == TypeOK /\ [Next]_vars => TypeOK'
<1> SUFFICES ASSUME TypeOK, [Next]_vars PROVE TypeOK'
  OBVIOUS
<1> USE DEF TypeOK, redisVars, apiVars, workerVars, watchVars, eventVars, ctrlVars, jobVars, boxVars,
         Msg, Final, State, Stage, LoopPc, JobPc, Setup, Parked, Session, Teardown, Abort
<1>1. ASSUME NEW j \in Jobs, Execute(j) PROVE TypeOK'
  BY <1>1 DEF Execute, Move, End, Take, Answers, WriteStatus, ReleaseSlot, Deliver, HandBack, Fit, CloseSubs, RemoveOwned
<1>2. ASSUME NEW j \in Jobs, StartFlag(j) PROVE TypeOK'
  BY <1>2 DEF StartFlag, Move, End, Take, Answers, WriteStatus, ReleaseSlot, Deliver, HandBack, Fit, CloseSubs, RemoveOwned
<1>3. ASSUME NEW j \in Jobs, StartPublish(j) PROVE TypeOK'
  BY <1>3 DEF StartPublish, Move, End, Take, Answers, WriteStatus, ReleaseSlot, Deliver, HandBack, Fit, CloseSubs, RemoveOwned
<1>4. ASSUME NEW j \in Jobs, NEW m \in Msg, Control(j, m) PROVE TypeOK'
  BY <1>4 DEF Control, Move, End, Take, Answers, WriteStatus, ReleaseSlot, Deliver, HandBack, Fit, CloseSubs, RemoveOwned
<1>5. ASSUME NEW j \in Jobs, Expire(j) PROVE TypeOK'
  BY <1>5 DEF Expire, Move, End, Take, Answers, WriteStatus, ReleaseSlot, Deliver, HandBack, Fit, CloseSubs, RemoveOwned
<1>6. ASSUME NEW j \in Jobs, SubscribeConfirmed(j) PROVE TypeOK'
  BY <1>6 DEF SubscribeConfirmed, Move, End, Take, Answers, WriteStatus, ReleaseSlot, Deliver, HandBack, Fit, CloseSubs, RemoveOwned
<1>7. ASSUME NEW j \in Jobs, ReadSpec(j) PROVE TypeOK'
  BY <1>7 DEF ReadSpec, Move, End, Take, Answers, WriteStatus, ReleaseSlot, Deliver, HandBack, Fit, CloseSubs, RemoveOwned
<1>8. ASSUME NEW j \in Jobs, ReadSpecFails(j) PROVE TypeOK'
  BY <1>8, ReleaseSlotType DEF ReadSpecFails, Move
<1>9. ASSUME NEW j \in Jobs, Subscribe(j) PROVE TypeOK'
  BY <1>9 DEF Subscribe, Move, End, Take, Answers, WriteStatus, ReleaseSlot, Deliver, HandBack, Fit, CloseSubs, RemoveOwned
<1>10. ASSUME NEW j \in Jobs, Announce(j) PROVE TypeOK'
  BY <1>10 DEF Announce, Move, End, Take, Answers, WriteStatus, ReleaseSlot, Deliver, HandBack, Fit, CloseSubs, RemoveOwned
<1>11. ASSUME NEW j \in Jobs, ResolveBlobs(j) PROVE TypeOK'
  BY <1>11 DEF ResolveBlobs, Move, End, Take, Answers, WriteStatus, ReleaseSlot, Deliver, HandBack, Fit, CloseSubs, RemoveOwned
<1>12. ASSUME NEW j \in Jobs, ResolveBlobsFails(j) PROVE TypeOK'
  BY <1>12 DEF ResolveBlobsFails, Move, End, Take, Answers, WriteStatus, ReleaseSlot, Deliver, HandBack, Fit, CloseSubs, RemoveOwned
<1>13. ASSUME NEW j \in Jobs, AddOwnedJob(j) PROVE TypeOK'
  <2>1. owned' \in [Workers -> SUBSET Jobs]
    BY <1>13, AddOwnedType
  <2>2. pc' \in [Jobs -> JobPc]
    BY <1>13 DEF AddOwnedJob, Move
  <2> QED
    BY <1>13, <2>1, <2>2 DEF AddOwnedJob
<1>14. ASSUME NEW j \in Jobs, CreateSandbox(j) PROVE TypeOK'
  BY <1>14 DEF CreateSandbox, Move, End, Take, Answers, WriteStatus, ReleaseSlot, Deliver, HandBack, Fit, CloseSubs, RemoveOwned
<1>15. ASSUME NEW j \in Jobs, CreateFails(j) PROVE TypeOK'
  BY <1>15 DEF CreateFails, Move, End, Take, Answers, WriteStatus, ReleaseSlot, Deliver, HandBack, Fit, CloseSubs, RemoveOwned
<1>16. ASSUME NEW j \in Jobs, CheckStartFlag(j) PROVE TypeOK'
  BY <1>16 DEF CheckStartFlag, Move, End, Take, Answers, WriteStatus, ReleaseSlot, Deliver, HandBack, Fit, CloseSubs, RemoveOwned
<1>17. ASSUME NEW j \in Jobs, ParkedStart(j) PROVE TypeOK'
  BY <1>17 DEF ParkedStart, Move, End, Take, Answers, WriteStatus, ReleaseSlot, Deliver, HandBack, Fit, CloseSubs, RemoveOwned
<1>18. ASSUME NEW j \in Jobs, ParkedKill(j) PROVE TypeOK'
  BY <1>18 DEF ParkedKill, Move, End, Take, Answers, WriteStatus, ReleaseSlot, Deliver, HandBack, Fit, CloseSubs, RemoveOwned
<1>19. ASSUME NEW j \in Jobs, ParkedOther(j) PROVE TypeOK'
  BY <1>19 DEF ParkedOther, Move, End, Take, Answers, WriteStatus, ReleaseSlot, Deliver, HandBack, Fit, CloseSubs, RemoveOwned
<1>20. ASSUME NEW j \in Jobs, WatchTakes(j) PROVE TypeOK'
  <2>1. Take(j) /\ Head(ctrl[j]) \in Msg /\ ctrl' \in [Jobs -> Seq(Msg)]
    BY <1>20, TakeType DEF WatchTakes
  <2>2. held' \in [Jobs -> Seq(Msg)] /\ killSeen' \subseteq Jobs
    BY <1>20, WatchTakesType
  <2> QED
    BY <1>20, <2>1, <2>2 DEF WatchTakes
<1>21. ASSUME NEW j \in Jobs, PumpTakes(j) PROVE TypeOK'
  BY <1>21 DEF PumpTakes, Move, End, Take, Answers, WriteStatus, ReleaseSlot, Deliver, HandBack, Fit, CloseSubs, RemoveOwned
<1>22. ASSUME NEW j \in Jobs, ParkEnds(j) PROVE TypeOK'
  BY <1>22 DEF ParkEnds, Move, End, Take, Answers, WriteStatus, ReleaseSlot, Deliver, HandBack, Fit, CloseSubs, RemoveOwned
<1>23. ASSUME NEW j \in Jobs, CompileSucceeds(j) PROVE TypeOK'
  BY <1>23, HandBackType DEF CompileSucceeds, Move
<1>24. ASSUME NEW j \in Jobs, CompileEnds(j) PROVE TypeOK'
  BY <1>24, HandBackType DEF CompileEnds, End, Move
<1>25. ASSUME NEW j \in Jobs, BeginRun(j) PROVE TypeOK'
  BY <1>25 DEF BeginRun, Move, End, Take, Answers, WriteStatus, ReleaseSlot, Deliver, HandBack, Fit, CloseSubs, RemoveOwned
<1>26. ASSUME NEW j \in Jobs, SessionEnds(j) PROVE TypeOK'
  BY <1>26 DEF SessionEnds, Move, End, Take, Answers, WriteStatus, ReleaseSlot, Deliver, HandBack, Fit, CloseSubs, RemoveOwned
<1>27. ASSUME NEW j \in Jobs, Disown(j) PROVE TypeOK'
  <2>1. pc' \in [Jobs -> JobPc]
    BY <1>27, TeardownPcType DEF TeardownStep
  <2>2. CloseSubs(j) /\ RemoveOwned(j)
    BY <1>27 DEF Disown
  <2> QED
    BY <1>27, <2>1, <2>2, CloseSubsType, RemoveOwnedType DEF Disown
<1>28. ASSUME NEW j \in Jobs, Release(j) PROVE TypeOK'
  <2>1. pc' \in [Jobs -> JobPc]
    BY <1>28, TeardownPcType DEF TeardownStep
  <2> QED
    BY <1>28, <2>1, ReleaseSlotType DEF Release
<1>29. ASSUME NEW j \in Jobs, ReleaseLeases(j) PROVE TypeOK'
  <2>1. pc' \in [Jobs -> JobPc]
    BY <1>29, TeardownPcType DEF TeardownStep
  <2>2. leases' \subseteq Jobs
    BY <1>29 DEF ReleaseLeases
  <2>3. /\ ctrl' \in [Jobs -> Seq(Msg)] /\ killSent' \subseteq Jobs
        /\ sub' \in [Jobs -> {"none", "requested", "active"}]
    <3>1. CASE UNCHANGED ctrlVars
      BY <3>1
    <3>2. CASE CloseSubs(j)
      BY <3>2, CloseSubsType
    <3> QED
      BY <1>29, <3>1, <3>2 DEF ReleaseLeases
  <2> QED
    BY <1>29, <2>1, <2>2, <2>3 DEF ReleaseLeases
<1>30. ASSUME NEW j \in Jobs, PublishResult(j) PROVE TypeOK'
  <2>1. pc' \in [Jobs -> JobPc]
    BY <1>30, TeardownPcType DEF TeardownStep
  <2>2. resulted' \subseteq Jobs /\ lost' \subseteq Jobs
    BY <1>30 DEF PublishResult
  <2> QED
    BY <1>30, <2>1, <2>2 DEF PublishResult
<1>31. ASSUME NEW j \in Jobs, WriteFinal(j) PROVE TypeOK'
  <2>1. pc' \in [Jobs -> JobPc]
    BY <1>31, TeardownPcType DEF TeardownStep
  <2>2. status' \in [Jobs -> State]
    <3>1. outcome[j] \in State /\ WriteStatus(j, outcome[j])
      BY <1>31 DEF WriteFinal
    <3> QED
      BY <3>1, WriteStatusType
  <2> QED
    BY <1>31, <2>1, <2>2 DEF WriteFinal
<1>32. ASSUME NEW j \in Jobs, PersistOutput(j) PROVE TypeOK'
  BY <1>32 DEF PersistOutput, Move, End, Take, Answers, WriteStatus, ReleaseSlot, Deliver, HandBack, Fit, CloseSubs, RemoveOwned
<1>33. ASSUME NEW j \in Jobs, CleanupSandbox(j) PROVE TypeOK'
  <2>1. pc' \in [Jobs -> JobPc]
    BY <1>33, TeardownPcType DEF TeardownStep
  <2>2. sandbox' \subseteq Jobs /\ removal' \in [Jobs -> {"none", "done", "refused"}]
    BY <1>33 DEF CleanupSandbox
  <2> QED
    BY <1>33, <2>1, <2>2 DEF CleanupSandbox
<1>34. ASSUME NEW w \in Workers, Acquire(w) PROVE TypeOK'
  <2>1. slots' \in [Workers -> 0..MaxSandboxes] /\ loop' \in [Workers -> LoopPc]
    BY <1>34, CapacityAssumption DEF Acquire, Goto
  <2> QED
    BY <1>34, <2>1 DEF Acquire
<1>35. ASSUME NEW w \in Workers, Claim(w) PROVE TypeOK'
  BY <1>35 DEF Claim, Goto
<1>36. ASSUME NEW w \in Workers, ClaimFails(w) PROVE TypeOK'
  <2>1. slots' \in [Workers -> 0..MaxSandboxes] /\ loop' \in [Workers -> LoopPc]
    BY <1>36, CapacityAssumption DEF ClaimFails, Goto
  <2> QED
    BY <1>36, <2>1 DEF ClaimFails
<1>37. ASSUME NEW w \in Workers, LoopStops(w) PROVE TypeOK'
  BY <1>37 DEF LoopStops, Goto
<1>38. ASSUME NEW w \in Workers, Sigterm(w) PROVE TypeOK'
  BY <1>38 DEF Sigterm, Goto
<1>39. ASSUME NEW w \in Workers, DrainDeadline(w) PROVE TypeOK'
  BY <1>39 DEF DrainDeadline, Goto
<1>40. ASSUME NEW w \in Workers, DrainDone(w) PROVE TypeOK'
  BY <1>40 DEF DrainDone, Goto
<1>41. ASSUME NEW j \in Jobs, Hang(j) PROVE TypeOK'
  BY <1>41 DEF Hang, UntilCancel, Unbounded
<1>42. CASE UNCHANGED vars
  BY <1>42 DEF vars
<1> QED
  BY <1>1, <1>2, <1>3, <1>4, <1>5, <1>6, <1>7, <1>8, <1>9, <1>10, <1>11, <1>12, <1>13, <1>14, <1>15, <1>16, <1>17, <1>18, <1>19, <1>20, <1>21, <1>22, <1>23, <1>24, <1>25, <1>26, <1>27, <1>28, <1>29, <1>30, <1>31, <1>32, <1>33, <1>34, <1>35, <1>36, <1>37, <1>38, <1>39, <1>40, <1>41, <1>42
  DEF Next, Client, JobStep, SetupStep, ControlStep, RunStep, TeardownStep, LoopStep

\* TypeOK of Worker holds in every reachable state: no slot counter ever
\* leaves 0..MaxSandboxes, no ownership, status or channel leaves its domain.
THEOREM TypeCorrect == Spec => []TypeOK
<1>1. Init => TypeOK
  BY CapacityAssumption DEF Init, TypeOK, State, Stage, LoopPc, JobPc, Final
<1> QED
  BY <1>1, TypeStep, PTL DEF Spec

(***************************************************************************)
(* The slot balance.  SlotsBalance alone is not inductive: Claim moves the *)
(* slot of the loop to the job at the head of the queue, which is right    *)
(* only if no goroutine has that job yet and no other entry names it, and  *)
(* releaseSlot gives the slot back to the job's worker, which must be one. *)
(***************************************************************************)

OwnerKnown == \A j \in Jobs : pc[j] # "unclaimed" => owner[j] \in Workers

SlotsInv == TypeOK /\ ClaimedOnce /\ OwnerKnown /\ SlotsBalance

SamePlace ==
  /\ queue' = queue /\ owner' = owner
  /\ \A k \in Jobs : pc'[k] = "unclaimed" <=> pc[k] = "unclaimed"

\* A step that moves no slot, no queue entry and no job into or out of
\* Holding.
Quiet ==
  /\ SamePlace /\ slots' = slots
  /\ \A w \in Workers : loop'[w] = "claim" <=> loop[w] = "claim"
  /\ \A k \in Jobs : pc'[k] \in Holding <=> pc[k] \in Holding

\* A worker's jobs are finitely many, so their number is a natural number.
LEMMA HeldFinite ==
  ASSUME NEW w \in Workers
  PROVE  IsFiniteSet(HeldBy(w)) /\ Cardinality(HeldBy(w)) \in Nat
<1>1. HeldBy(w) \subseteq Jobs
  BY DEF HeldBy
<1> QED
  BY <1>1, FS_Subset, FS_CardinalityType, JobsAssumption

\* Claims stay unique while queue and claims stay.
LEMMA SamePlaceKeeps ==
  ASSUME TypeOK, ClaimedOnce, OwnerKnown, SamePlace
  PROVE  ClaimedOnce' /\ OwnerKnown'
<1>1. \A i \in DOMAIN queue : queue[i] \in Jobs
  BY DEF TypeOK
<1> QED
  BY <1>1 DEF ClaimedOnce, OwnerKnown, SamePlace

\* A quiet step keeps the balance.
LEMMA QuietKeeps ==
  ASSUME SlotsInv, TypeOK', Quiet
  PROVE  SlotsInv'
<1>1. ASSUME NEW w \in Workers PROVE HeldBy(w)' = HeldBy(w)
  BY DEF HeldBy, Quiet, SamePlace
<1>2. SlotsBalance'
  BY <1>1 DEF SlotsInv, SlotsBalance, Quiet
<1> QED
  BY <1>2, SamePlaceKeeps DEF SlotsInv, Quiet

\* A job that leaves Holding gives its slot back to its worker.
LEMMA LeaveKeeps ==
  ASSUME SlotsInv, TypeOK', SamePlace, NEW j \in Jobs, pc[j] \in Holding, ReleaseSlot(j),
         loop' = loop, pc'[j] \notin Holding,
         \A k \in Jobs \ {j} : pc'[k] = pc[k]
  PROVE  SlotsInv'
<1> DEFINE o == owner[j]
<1>1. o \in Workers /\ slots'[o] = slots[o] + 1 /\ \A w \in Workers \ {o} : slots'[w] = slots[w]
  BY DEF SlotsInv, OwnerKnown, ReleaseSlot, TypeOK, Holding, Setup, Parked, Session, Abort
<1>2. ASSUME NEW w \in Workers, w = o PROVE HeldBy(w)' = HeldBy(w) \ {j} /\ j \in HeldBy(w)
  BY <1>2 DEF HeldBy, SamePlace
<1>3. ASSUME NEW w \in Workers, w = o PROVE Cardinality(HeldBy(w)') = Cardinality(HeldBy(w)) - 1
  BY <1>2, <1>3, HeldFinite, FS_RemoveElement
<1>4. ASSUME NEW w \in Workers, w # o PROVE HeldBy(w)' = HeldBy(w)
  BY <1>4 DEF HeldBy, SamePlace
<1>5. ASSUME NEW w \in Workers PROVE slots[w] \in Nat /\ Cardinality(HeldBy(w)) \in Nat
  BY HeldFinite, CapacityAssumption DEF SlotsInv, TypeOK
<1>6. SlotsBalance'
  <2> SUFFICES ASSUME NEW w \in Workers
      PROVE slots'[w] + Cardinality(HeldBy(w)') + (IF loop'[w] = "claim" THEN 1 ELSE 0) = MaxSandboxes
    BY DEF SlotsBalance
  <2>1. slots[w] + Cardinality(HeldBy(w)) + (IF loop[w] = "claim" THEN 1 ELSE 0) = MaxSandboxes
    BY DEF SlotsInv, SlotsBalance
  <2>2. CASE w = o
    BY <1>1, <1>3, <1>5, <2>1, <2>2
  <2>3. CASE w # o
    BY <1>1, <1>4, <2>1, <2>3
  <2> QED
    BY <2>2, <2>3
<1> QED
  BY <1>6, SamePlaceKeeps DEF SlotsInv

\* The loop takes a slot before it claims, and puts it back after a BRPOP
\* that returned nothing.
LEMMA LoopKeeps ==
  ASSUME SlotsInv, TypeOK', SamePlace, pc' = pc, NEW w \in Workers,
         \/ loop[w] # "claim" /\ loop'[w] = "claim" /\ slots'[w] = slots[w] - 1
         \/ loop[w] = "claim" /\ loop'[w] # "claim" /\ slots'[w] = slots[w] + 1,
         \A v \in Workers \ {w} : slots'[v] = slots[v] /\ loop'[v] = loop[v]
  PROVE  SlotsInv'
<1>1. ASSUME NEW v \in Workers PROVE HeldBy(v)' = HeldBy(v)
  BY DEF HeldBy, SamePlace
<1>2. SlotsBalance'
  <2> SUFFICES ASSUME NEW v \in Workers
      PROVE slots'[v] + Cardinality(HeldBy(v)) + (IF loop'[v] = "claim" THEN 1 ELSE 0) = MaxSandboxes
    BY <1>1 DEF SlotsBalance
  <2>1. slots[v] + Cardinality(HeldBy(v)) + (IF loop[v] = "claim" THEN 1 ELSE 0) = MaxSandboxes
    BY DEF SlotsInv, SlotsBalance
  <2>2. slots[v] \in Nat /\ Cardinality(HeldBy(v)) \in Nat
    BY HeldFinite, CapacityAssumption DEF SlotsInv, TypeOK
  <2> QED
    BY <2>1, <2>2
<1> QED
  BY <1>2, SamePlaceKeeps DEF SlotsInv

\* The claim hands the loop's slot to the job at the head of the queue.
LEMMA ClaimKeeps ==
  ASSUME SlotsInv, TypeOK', NEW w \in Workers, Claim(w)
  PROVE  SlotsInv'
<1> DEFINE j == Head(queue)
<1>1. queue \in Seq(Jobs) /\ queue # <<>> /\ queue' = Tail(queue)
  BY DEF SlotsInv, TypeOK, Claim
<1>2. j = queue[1] /\ j \in Jobs /\ 1 \in DOMAIN queue
  BY <1>1
<1>3. pc[j] = "unclaimed"
  BY <1>2 DEF SlotsInv, ClaimedOnce
<1>4. /\ pc' = [pc EXCEPT ![j] = "claimed"] /\ owner' = [owner EXCEPT ![j] = w]
      /\ loop[w] = "claim" /\ loop' = [loop EXCEPT ![w] = "acquire"] /\ slots' = slots
  BY DEF Claim, Goto
<1>5. pc \in [Jobs -> JobPc] /\ owner \in [Jobs -> Workers \cup {NoWorker}] /\ loop \in [Workers -> LoopPc]
      /\ slots \in [Workers -> 0..MaxSandboxes]
  BY DEF SlotsInv, TypeOK
<1> HIDE DEF j
<1>6. pc[j] \notin Holding /\ pc'[j] = "claimed" /\ pc'[j] \in Holding /\ owner'[j] = w
  BY <1>2, <1>3, <1>4, <1>5 DEF Holding, Setup, Parked, Session, Abort
<1>7. \A k \in Jobs \ {j} : pc'[k] = pc[k] /\ owner'[k] = owner[k]
  BY <1>4, <1>5
<1>8. HeldBy(w)' = HeldBy(w) \cup {j} /\ j \notin HeldBy(w)
  BY <1>2, <1>6, <1>7 DEF HeldBy
<1>9. Cardinality(HeldBy(w)') = Cardinality(HeldBy(w)) + 1
  BY <1>8, HeldFinite, FS_AddElement
<1>10. ASSUME NEW v \in Workers, v # w PROVE HeldBy(v)' = HeldBy(v)
  BY <1>6, <1>7, <1>10 DEF HeldBy
<1>11. SlotsBalance'
  <2> SUFFICES ASSUME NEW v \in Workers
      PROVE slots'[v] + Cardinality(HeldBy(v)') + (IF loop'[v] = "claim" THEN 1 ELSE 0) = MaxSandboxes
    BY DEF SlotsBalance
  <2>1. slots[v] + Cardinality(HeldBy(v)) + (IF loop[v] = "claim" THEN 1 ELSE 0) = MaxSandboxes
    BY DEF SlotsInv, SlotsBalance
  <2>2. slots[v] \in Nat /\ Cardinality(HeldBy(v)) \in Nat
    BY <1>5, HeldFinite, CapacityAssumption
  <2>3. CASE v = w
    BY <1>4, <1>5, <1>9, <2>1, <2>2, <2>3
  <2>4. CASE v # w
    BY <1>4, <1>5, <1>10, <2>1, <2>4
  <2> QED
    BY <2>3, <2>4
<1>12. /\ DOMAIN queue' \subseteq Nat /\ \A i \in DOMAIN queue' : i + 1 \in DOMAIN queue /\ i + 1 # 1 /\ queue'[i] = queue[i + 1]
  BY <1>1
<1>13. ClaimedOnce'
  <2>1. ASSUME NEW i \in DOMAIN queue' PROVE pc'[queue'[i]] = "unclaimed"
    <3>1. i + 1 \in DOMAIN queue /\ i + 1 # 1 /\ queue'[i] = queue[i + 1]
      BY <1>12
    <3>2. queue[i + 1] # j /\ queue[i + 1] \in Jobs /\ pc[queue[i + 1]] = "unclaimed"
      BY <1>1, <1>2, <3>1 DEF SlotsInv, ClaimedOnce
    <3> QED
      BY <1>7, <3>1, <3>2
  <2>2. ASSUME NEW i \in DOMAIN queue', NEW k \in DOMAIN queue', queue'[i] = queue'[k] PROVE i = k
    <3>1. i + 1 = k + 1
      BY <1>12, <2>2 DEF SlotsInv, ClaimedOnce
    <3> QED
      BY <1>12, <3>1
  <2> QED
    BY <2>1, <2>2 DEF ClaimedOnce
<1>14. OwnerKnown'
  BY <1>6, <1>7 DEF SlotsInv, OwnerKnown
<1> QED
  BY <1>11, <1>13, <1>14 DEF SlotsInv

\* Every other step of a job is quiet.
LEMMA QuietSteps ==
  ASSUME TypeOK, NEW j \in Jobs,
         \/ ReadSpec(j) \/ Subscribe(j) \/ Announce(j) \/ ResolveBlobs(j) \/ ResolveBlobsFails(j)
         \/ AddOwnedJob(j) \/ CreateSandbox(j) \/ CreateFails(j) \/ CheckStartFlag(j)
         \/ RunStep(j) \/ ControlStep(j) \/ Disown(j) \/ ReleaseLeases(j) \/ PublishResult(j)
         \/ WriteFinal(j) \/ PersistOutput(j) \/ CleanupSandbox(j)
  PROVE  Quiet
<1> USE DEF Quiet, SamePlace, Move, End, Holding, Setup, Parked, Session, Abort, TypeOK,
         redisVars, workerVars, jobVars, boxVars
<1>1. CASE ReadSpec(j)          BY <1>1 DEF ReadSpec
<1>2. CASE Subscribe(j)         BY <1>2 DEF Subscribe
<1>3. CASE Announce(j)          BY <1>3 DEF Announce
<1>4. CASE ResolveBlobs(j)      BY <1>4 DEF ResolveBlobs
<1>5. CASE ResolveBlobsFails(j) BY <1>5 DEF ResolveBlobsFails
<1>6. CASE AddOwnedJob(j)       BY <1>6 DEF AddOwnedJob
<1>7. CASE CreateSandbox(j)     BY <1>7 DEF CreateSandbox
<1>8. CASE CreateFails(j)       BY <1>8 DEF CreateFails
<1>9. CASE CheckStartFlag(j)    BY <1>9 DEF CheckStartFlag
<1>10. CASE ParkEnds(j)         BY <1>10 DEF ParkEnds
<1>11. CASE CompileSucceeds(j)  BY <1>11 DEF CompileSucceeds
<1>12. CASE CompileEnds(j)      BY <1>12 DEF CompileEnds
<1>13. CASE BeginRun(j)         BY <1>13 DEF BeginRun
<1>14. CASE SessionEnds(j)      BY <1>14 DEF SessionEnds
<1>15. CASE ParkedStart(j)      BY <1>15 DEF ParkedStart
<1>16. CASE ParkedKill(j)       BY <1>16 DEF ParkedKill
<1>17. CASE ParkedOther(j)      BY <1>17 DEF ParkedOther
<1>18. CASE WatchTakes(j)       BY <1>18 DEF WatchTakes
<1>19. CASE PumpTakes(j)        BY <1>19 DEF PumpTakes
<1>20. CASE Disown(j)           BY <1>20 DEF Disown
<1>21. CASE ReleaseLeases(j)    BY <1>21 DEF ReleaseLeases
<1>22. CASE PublishResult(j)    BY <1>22 DEF PublishResult
<1>23. CASE WriteFinal(j)       BY <1>23 DEF WriteFinal
<1>24. CASE PersistOutput(j)    BY <1>24 DEF PersistOutput
<1>25. CASE CleanupSandbox(j)   BY <1>25 DEF CleanupSandbox
<1> QED
  BY <1>1, <1>2, <1>3, <1>4, <1>5, <1>6, <1>7, <1>8, <1>9, <1>10, <1>11, <1>12, <1>13, <1>14,
     <1>15, <1>16, <1>17, <1>18, <1>19, <1>20, <1>21, <1>22, <1>23, <1>24, <1>25
  DEF RunStep, ControlStep

\* A new id enters the queue: it was in neither place before.
LEMMA ExecuteKeeps ==
  ASSUME SlotsInv, TypeOK', NEW j \in Jobs, Execute(j)
  PROVE  SlotsInv'
<1>1. /\ pc' = pc /\ owner' = owner /\ slots' = slots /\ loop' = loop
      /\ queue' \in {queue, Append(queue, j)} /\ queue \in Seq(Jobs)
      /\ pc[j] = "unclaimed" /\ \A i \in DOMAIN queue : queue[i] # j
  BY DEF Execute, Submitted, InQueue, jobVars, boxVars, workerVars, SlotsInv, TypeOK
<1>2. SlotsBalance' /\ OwnerKnown'
  <2>1. ASSUME NEW w \in Workers PROVE HeldBy(w)' = HeldBy(w)
    BY <1>1 DEF HeldBy
  <2> QED
    BY <1>1, <2>1 DEF SlotsInv, SlotsBalance, OwnerKnown
<1>3. ClaimedOnce'
  <2>1. CASE queue' = queue
    BY <1>1, <2>1 DEF SlotsInv, ClaimedOnce
  <2>2. CASE queue' = Append(queue, j)
    <3>1. /\ DOMAIN queue' = DOMAIN queue \cup {Len(queue) + 1} /\ queue'[Len(queue) + 1] = j
          /\ \A i \in DOMAIN queue : queue'[i] = queue[i]
      BY <1>1, <2>2
    <3> QED
      BY <1>1, <3>1 DEF SlotsInv, ClaimedOnce
  <2> QED
    BY <1>1, <2>1, <2>2
<1> QED
  BY <1>2, <1>3 DEF SlotsInv

\* Every step of the system keeps the slot balance and the unique claim.
LEMMA SlotsStep == SlotsInv /\ [Next]_vars => SlotsInv'
<1> SUFFICES ASSUME SlotsInv, [Next]_vars PROVE SlotsInv'
  OBVIOUS
<1>0. TypeOK /\ TypeOK'
  BY TypeStep DEF SlotsInv
<1>1. ASSUME NEW j \in Jobs, Execute(j) PROVE SlotsInv'
  BY <1>0, <1>1, ExecuteKeeps
<1>2. ASSUME NEW j \in Jobs,
             \/ StartFlag(j) \/ (\E m \in Msg : Control(j, m)) \/ StartPublish(j) \/ Expire(j)
             \/ SubscribeConfirmed(j) \/ Hang(j)
      PROVE SlotsInv'
  <2>1. Quiet
    BY <1>2 DEF StartFlag, Control, StartPublish, Expire, SubscribeConfirmed, Hang, Quiet, SamePlace,
                redisVars, workerVars, jobVars, boxVars
  <2> QED
    BY <1>0, <2>1, QuietKeeps
<1>3. ASSUME NEW j \in Jobs, JobStep(j) \/ ControlStep(j) PROVE SlotsInv'
  <2>1. CASE ReadSpecFails(j)
    <3>1. /\ pc[j] \in Holding /\ pc'[j] \notin Holding /\ SamePlace /\ loop' = loop
          /\ ReleaseSlot(j) /\ \A k \in Jobs \ {j} : pc'[k] = pc[k]
      BY <1>0, <2>1 DEF ReadSpecFails, Move, SamePlace, TypeOK, Holding, Setup, Parked, Session, Abort, redisVars
    <3> QED
      BY <1>0, <3>1, LeaveKeeps
  <2>2. CASE Release(j)
    <3>1. /\ pc[j] \in Holding /\ pc'[j] \notin Holding /\ SamePlace /\ loop' = loop
          /\ ReleaseSlot(j) /\ \A k \in Jobs \ {j} : pc'[k] = pc[k]
      BY <1>0, <2>2 DEF Release, Move, SamePlace, TypeOK, Holding, Setup, Parked, Session, Abort, redisVars
    <3> QED
      BY <1>0, <3>1, LeaveKeeps
  <2>3. CASE ~ReadSpecFails(j) /\ ~Release(j)
    <3>1. Quiet
      BY <1>0, <1>3, <2>3, QuietSteps DEF JobStep, SetupStep, TeardownStep
    <3> QED
      BY <1>0, <3>1, QuietKeeps
  <2> QED
    BY <2>1, <2>2, <2>3
<1>4. ASSUME NEW w \in Workers, Acquire(w) \/ ClaimFails(w) PROVE SlotsInv'
  <2>1. /\ SamePlace /\ pc' = pc /\ \A v \in Workers \ {w} : slots'[v] = slots[v] /\ loop'[v] = loop[v]
    BY <1>0, <1>4 DEF Acquire, ClaimFails, Goto, SamePlace, TypeOK, jobVars, boxVars, redisVars
  <2>2. \/ loop[w] # "claim" /\ loop'[w] = "claim" /\ slots'[w] = slots[w] - 1
        \/ loop[w] = "claim" /\ loop'[w] # "claim" /\ slots'[w] = slots[w] + 1
    BY <1>0, <1>4 DEF Acquire, ClaimFails, Goto, TypeOK
  <2> QED
    BY <1>0, <2>1, <2>2, LoopKeeps
<1>5. ASSUME NEW w \in Workers, Claim(w) PROVE SlotsInv'
  BY <1>0, <1>5, ClaimKeeps
<1>6. ASSUME NEW w \in Workers, LoopStops(w) \/ Sigterm(w) \/ DrainDeadline(w) \/ DrainDone(w) PROVE SlotsInv'
  <2>1. Quiet
    BY <1>0, <1>6 DEF LoopStops, Sigterm, DrainDeadline, DrainDone, Goto, Quiet, SamePlace, TypeOK,
                      redisVars, jobVars, boxVars
  <2> QED
    BY <1>0, <2>1, QuietKeeps
<1>7. CASE UNCHANGED vars
  <2>1. Quiet
    BY <1>7 DEF vars, redisVars, workerVars, jobVars, boxVars, Quiet, SamePlace
  <2> QED
    BY <1>0, <2>1, QuietKeeps
<1> QED
  BY <1>1, <1>2, <1>3, <1>4, <1>5, <1>6, <1>7 DEF Next, Client, LoopStep

\* The inductive invariant holds in every reachable state.
LEMMA SlotsInvariant == Spec => []SlotsInv
<1>1. Init => SlotsInv
  <2> SUFFICES ASSUME Init PROVE SlotsInv
    OBVIOUS
  <2>1. TypeOK
    BY CapacityAssumption DEF Init, TypeOK, State, Stage, LoopPc, JobPc, Final
  <2>2. ClaimedOnce /\ OwnerKnown
    BY DEF Init, ClaimedOnce, OwnerKnown
  <2>3. ASSUME NEW w \in Workers PROVE HeldBy(w) = {}
    BY DEF Init, HeldBy, Holding, Setup, Parked, Session, Abort
  <2>4. ASSUME NEW w \in Workers PROVE Cardinality(HeldBy(w)) = 0
    BY <2>3, FS_EmptySet
  <2>5. SlotsBalance
    BY <2>4, CapacityAssumption DEF Init, SlotsBalance
  <2> QED
    BY <2>1, <2>2, <2>5 DEF SlotsInv
<1> QED
  BY <1>1, SlotsStep, PTL DEF Spec

\* No path of runJobFromSpec leaks or duplicates a slot (SlotsBalance of
\* Worker) whatever the number of workers, jobs and slots and whatever fails.
THEOREM SlotsAlwaysBalance == Spec => []SlotsBalance
<1>1. SlotsInv => SlotsBalance
  BY DEF SlotsInv
<1> QED
  BY <1>1, SlotsInvariant, PTL

\* No job is ever run by two goroutines (ClaimedOnce of Worker): LPUSH of a
\* fresh id and BRPOP give each id to one claim.
THEOREM ClaimsAreUnique == Spec => []ClaimedOnce
<1>1. SlotsInv => ClaimedOnce
  BY DEF SlotsInv
<1> QED
  BY <1>1, SlotsInvariant, PTL

(***************************************************************************)
(* Steps of one job, and what they leave alone of another.  The invariants *)
(* below speak of one job at a time: a step is either a step of that job   *)
(* or leaves all of it as it was, except that a drain deadline may cancel  *)
(* its worker.                                                             *)
(***************************************************************************)

ClaimOf(j) == \E w \in Workers : Claim(w) /\ Head(queue) = j

\* What the clients, the Redis server, the subscription and a hung call do to
\* job j.
Around(j) ==
  \/ Execute(j) \/ StartFlag(j) \/ StartPublish(j) \/ (\E m \in Msg : Control(j, m))
  \/ Expire(j) \/ SubscribeConfirmed(j) \/ Hang(j) \/ ClaimOf(j)

StepOf(j) == Around(j) \/ JobStep(j) \/ ControlStep(j)

CancelledStay == cancelled \subseteq cancelled'

Untouched(j) ==
  /\ pc'[j] = pc[j] /\ owner'[j] = owner[j] /\ outcome'[j] = outcome[j]
  /\ sub'[j] = sub[j] /\ ctrl'[j] = ctrl[j] /\ published'[j] = published[j]
  /\ status'[j] = status[j]
  /\ j \in specs' <=> j \in specs
  /\ j \in startFlag' <=> j \in startFlag
  /\ j \in starting' <=> j \in starting
  /\ j \in leases' <=> j \in leases
  /\ j \in killSent' <=> j \in killSent
  /\ j \in killSeen' <=> j \in killSeen
  /\ j \in sandbox' <=> j \in sandbox
  /\ removal'[j] = removal[j]
  /\ j \in killRefused' <=> j \in killRefused
  /\ j \in resulted' <=> j \in resulted
  /\ j \in lost' <=> j \in lost
  /\ \A w \in Workers : j \in owned'[w] <=> j \in owned[w]

\* The steps around a job leave every other job alone.
LEMMA AroundLeavesOthers ==
  ASSUME TypeOK, NEW j \in Jobs, NEW k \in Jobs, k # j, Around(k)
  PROVE  Untouched(j)
<1> USE DEF Untouched, TypeOK, redisVars, apiVars, workerVars, watchVars, eventVars, ctrlVars, jobVars, boxVars
<1>1. CASE Execute(k)
  BY <1>1 DEF Execute
<1>2. CASE StartFlag(k)
  BY <1>2 DEF StartFlag
<1>3. CASE StartPublish(k)
  BY <1>3 DEF StartPublish, Deliver
<1>4. ASSUME NEW m \in Msg, Control(k, m) PROVE Untouched(j)
  BY <1>4 DEF Control, Deliver
<1>5. CASE Expire(k)
  BY <1>5 DEF Expire
<1>6. CASE SubscribeConfirmed(k)
  BY <1>6 DEF SubscribeConfirmed
<1>7. CASE ClaimOf(k)
  BY <1>7 DEF ClaimOf, Claim
<1>8. CASE Hang(k)
  BY <1>8 DEF Hang
<1> QED
  BY <1>1, <1>2, <1>3, <1>4, <1>5, <1>6, <1>7, <1>8 DEF Around

\* A job's goroutine leaves every other job alone.
LEMMA GoroutineLeavesOthers ==
  ASSUME TypeOK, NEW j \in Jobs, NEW k \in Jobs, k # j, JobStep(k) \/ ControlStep(k)
  PROVE  Untouched(j)
<1> USE DEF Untouched, TypeOK, redisVars, apiVars, workerVars, watchVars, eventVars, ctrlVars, jobVars, boxVars,
            Move, End, Take, WriteStatus
<1>1. CASE SetupStep(k)
  <2>1. CASE ReadSpec(k)          BY <2>1 DEF ReadSpec
  <2>2. CASE ReadSpecFails(k)     BY <2>2 DEF ReadSpecFails
  <2>3. CASE Subscribe(k)         BY <2>3 DEF Subscribe
  <2>4. CASE Announce(k)          BY <2>4 DEF Announce
  <2>5. CASE ResolveBlobs(k)      BY <2>5 DEF ResolveBlobs
  <2>6. CASE ResolveBlobsFails(k) BY <2>6 DEF ResolveBlobsFails
  <2>7. CASE AddOwnedJob(k)       BY <2>7 DEF AddOwnedJob
  <2>8. CASE CreateSandbox(k)     BY <2>8 DEF CreateSandbox
  <2>9. CASE CreateFails(k)       BY <2>9 DEF CreateFails
  <2>10. CASE CheckStartFlag(k)   BY <2>10 DEF CheckStartFlag
  <2> QED
    BY <1>1, <2>1, <2>2, <2>3, <2>4, <2>5, <2>6, <2>7, <2>8, <2>9, <2>10 DEF SetupStep
<1>2. CASE RunStep(k)
  <2>1. CASE ParkEnds(k)        BY <2>1 DEF ParkEnds
  <2>2. CASE CompileSucceeds(k) BY <2>2 DEF CompileSucceeds, HandBack
  <2>3. CASE CompileEnds(k)     BY <2>3 DEF CompileEnds, HandBack
  <2>4. CASE BeginRun(k)        BY <2>4 DEF BeginRun
  <2>5. CASE SessionEnds(k)     BY <2>5 DEF SessionEnds
  <2> QED
    BY <1>2, <2>1, <2>2, <2>3, <2>4, <2>5 DEF RunStep
<1>3. CASE TeardownStep(k)
  <2>1. CASE Disown(k)         BY <2>1 DEF Disown, CloseSubs, RemoveOwned
  <2>2. CASE Release(k)        BY <2>2 DEF Release
  <2>3. CASE ReleaseLeases(k)  BY <2>3 DEF ReleaseLeases, CloseSubs
  <2>4. CASE PublishResult(k)  BY <2>4 DEF PublishResult
  <2>5. CASE WriteFinal(k)     BY <2>5 DEF WriteFinal
  <2>6. CASE PersistOutput(k)  BY <2>6 DEF PersistOutput
  <2>7. CASE CleanupSandbox(k) BY <2>7 DEF CleanupSandbox
  <2> QED
    BY <1>3, <2>1, <2>2, <2>3, <2>4, <2>5, <2>6, <2>7 DEF TeardownStep
<1>4. CASE ControlStep(k)
  <2>1. CASE ParkedStart(k) BY <2>1 DEF ParkedStart
  <2>2. CASE ParkedKill(k)  BY <2>2 DEF ParkedKill
  <2>3. CASE ParkedOther(k) BY <2>3 DEF ParkedOther
  <2>4. CASE WatchTakes(k)  BY <2>4 DEF WatchTakes
  <2>5. CASE PumpTakes(k)   BY <2>5 DEF PumpTakes
  <2> QED
    BY <1>4, <2>1, <2>2, <2>3, <2>4, <2>5 DEF ControlStep
<1> QED
  BY <1>1, <1>2, <1>3, <1>4 DEF JobStep

\* The claim loop, a signal and the drain touch no job but the one claimed.
LEMMA LoopLeavesJobs ==
  ASSUME TypeOK, NEW j \in Jobs, ~ClaimOf(j), NEW w \in Workers,
         LoopStep(w) \/ Sigterm(w) \/ DrainDeadline(w) \/ DrainDone(w)
  PROVE  Untouched(j)
<1> USE DEF Untouched, TypeOK, redisVars, apiVars, eventVars, ctrlVars, jobVars, boxVars, watchVars
<1>1. CASE Claim(w)
  BY <1>1 DEF Claim, ClaimOf
<1>2. CASE Acquire(w) \/ ClaimFails(w) \/ LoopStops(w) \/ Sigterm(w) \/ DrainDeadline(w) \/ DrainDone(w)
  BY <1>2 DEF Acquire, ClaimFails, LoopStops, Sigterm, DrainDeadline, DrainDone
<1> QED
  BY <1>1, <1>2 DEF LoopStep

\* jobsCancel is never taken back.
LEMMA CancelledGrows ==
  ASSUME [Next]_vars
  PROVE  CancelledStay
<1> USE DEF CancelledStay, workerVars
<1>1. ASSUME NEW j \in Jobs, Around(j) PROVE CancelledStay
  BY <1>1 DEF Around, Execute, StartFlag, StartPublish, Control, Expire, SubscribeConfirmed, Hang, ClaimOf, Claim
<1>2. ASSUME NEW j \in Jobs, SetupStep(j) PROVE CancelledStay
  BY <1>2 DEF SetupStep, ReadSpec, ReadSpecFails, Subscribe, Announce, ResolveBlobs, ResolveBlobsFails,
              AddOwnedJob, CreateSandbox, CreateFails, CheckStartFlag
<1>3. ASSUME NEW j \in Jobs, RunStep(j) \/ TeardownStep(j) \/ ControlStep(j) PROVE CancelledStay
  BY <1>3 DEF RunStep, ParkEnds, CompileSucceeds, CompileEnds, BeginRun, SessionEnds,
              TeardownStep, Disown, Release, ReleaseLeases, PublishResult, WriteFinal, PersistOutput,
              CleanupSandbox, ControlStep, ParkedStart, ParkedKill, ParkedOther, WatchTakes, PumpTakes
<1>4. ASSUME NEW w \in Workers, LoopStep(w) \/ Sigterm(w) \/ DrainDeadline(w) \/ DrainDone(w)
      PROVE CancelledStay
  BY <1>4 DEF LoopStep, Acquire, Claim, ClaimFails, LoopStops, Sigterm, DrainDeadline, DrainDone
<1>5. CASE UNCHANGED vars
  BY <1>5 DEF vars
<1> QED
  BY <1>1, <1>2, <1>3, <1>4, <1>5 DEF Next, Client, JobStep, Around

\* A step of the system is a step of job j or leaves it alone.
LEMMA StepOfOneJob ==
  ASSUME TypeOK, [Next]_vars, NEW j \in Jobs
  PROVE  StepOf(j) \/ Untouched(j)
<1>1. ASSUME NEW k \in Jobs, StepOf(k) PROVE StepOf(j) \/ Untouched(j)
  BY <1>1, AroundLeavesOthers, GoroutineLeavesOthers DEF StepOf
<1>2. ASSUME NEW w \in Workers, LoopStep(w) \/ Sigterm(w) \/ DrainDeadline(w) \/ DrainDone(w)
      PROVE StepOf(j) \/ Untouched(j)
  BY <1>2, LoopLeavesJobs DEF StepOf, Around
<1>3. CASE UNCHANGED vars
  BY <1>3 DEF Untouched, vars, redisVars, apiVars, eventVars, ctrlVars, jobVars, boxVars, watchVars
<1> QED
  BY <1>1, <1>2, <1>3 DEF Next, Client, StepOf, Around

(***************************************************************************)
(* The subscription and the container, by the place of the goroutine.      *)
(***************************************************************************)

Before  == {"unclaimed", "claimed", "subscribe"}
Waiting == {"announce", "resolve", "own", "create"} \cup Parked
Closed  == {"release", "unlease", "result", "status", "persist", "cleanup",
            "abortResult", "abortStatus", "abortRelease", "finished"}

\* A subscription is open from Subscribe to its close; a container exists
\* between CreateSandbox and CleanupSandbox, on every path, and beyond only
\* when its removal was refused.
Resources(j) ==
  /\ pc[j] \in Before \cup Closed => sub[j] = "none"
  /\ pc[j] \in (Before \cup Waiting) \ Parked => j \notin sandbox
  /\ pc[j] \in Before \cup Waiting \cup Session => removal[j] = "none"
  /\ removal[j] = "done" => j \notin sandbox
  /\ pc[j] \in Abort \cup {"finished"} /\ j \in sandbox => removal[j] = "refused"
  /\ removal[j] = "refused" => "docker" \in Faults \/ owner[j] \in cancelled

\* What is popped was nobody's.
LEMMA ClaimOfUnclaimed ==
  ASSUME TypeOK, ClaimedOnce, NEW j \in Jobs, ClaimOf(j)
  PROVE  /\ pc[j] = "unclaimed" /\ pc'[j] = "claimed"
         /\ UNCHANGED <<specs, status, startFlag, owned, leases, outputs, ctrlVars, apiVars, slots,
                       sigterm, cancelled, outcome, watchVars, boxVars, eventVars>>
<1>1. PICK w \in Workers : Claim(w) /\ Head(queue) = j
  BY DEF ClaimOf
<1>2. queue \in Seq(Jobs) /\ queue # <<>>
  BY <1>1 DEF Claim, TypeOK
<1>3. j = queue[1] /\ 1 \in DOMAIN queue
  BY <1>1, <1>2
<1>4. pc[j] = "unclaimed"
  BY <1>3 DEF ClaimedOnce
<1> QED
  BY <1>1, <1>4 DEF Claim, TypeOK

\* Every step of the job keeps both.
LEMMA ResourcesKept ==
  ASSUME TypeOK, ClaimedOnce, NEW j \in Jobs, Resources(j), StepOf(j)
  PROVE  Resources(j)'
<1> USE DEF Resources, TypeOK, Before, Waiting, Closed, Setup, Parked, Session, Teardown, Abort,
            redisVars, apiVars, workerVars, watchVars, eventVars, ctrlVars, jobVars, boxVars, Move, End
<1>1. CASE Around(j)
  <2>1. CASE ClaimOf(j)
    BY <2>1, ClaimOfUnclaimed
  <2>2. CASE Around(j) /\ ~ClaimOf(j)
    BY <2>2 DEF Around, Execute, StartFlag, StartPublish, Control, Deliver, Expire, SubscribeConfirmed, Hang
  <2> QED
    BY <1>1, <2>1, <2>2
<1>2. CASE SetupStep(j)
  <2>1. CASE ReadSpec(j) \/ ReadSpecFails(j) \/ Subscribe(j) \/ Announce(j)
    BY <2>1 DEF ReadSpec, ReadSpecFails, Subscribe, Announce
  <2>2. CASE ResolveBlobs(j) \/ ResolveBlobsFails(j) \/ AddOwnedJob(j)
    BY <2>2 DEF ResolveBlobs, ResolveBlobsFails, AddOwnedJob
  <2>3. CASE CreateSandbox(j)
    BY <2>3 DEF CreateSandbox
  <2>4. CASE CreateFails(j)
    BY <2>4 DEF CreateFails, Kills, Removes
  <2>5. CASE CheckStartFlag(j)
    BY <2>5 DEF CheckStartFlag
  <2> QED
    BY <1>2, <2>1, <2>2, <2>3, <2>4, <2>5 DEF SetupStep
<1>3. CASE RunStep(j)
  <2>1. CASE ParkEnds(j) \/ CompileSucceeds(j) \/ CompileEnds(j) \/ BeginRun(j)
    BY <2>1 DEF ParkEnds, CompileSucceeds, CompileEnds, BeginRun, HandBack
  <2>2. CASE SessionEnds(j)
    <3>1. pc[j] = "running" /\ pc'[j] = "disown" /\ UNCHANGED <<sub, owner, cancelled>>
      BY <2>2 DEF SessionEnds
    <3>2. PICK killed \in Kills(j), removed \in Removes :
            /\ sandbox' = IF killed \/ removed THEN sandbox \ {j} ELSE sandbox
            /\ removal' = [removal EXCEPT ![j] = IF removed THEN "done" ELSE "refused"]
      BY <2>2 DEF SessionEnds
    <3>3. ~removed => "docker" \in Faults
      BY <3>2 DEF Removes
    <3>4. removal'[j] = (IF removed THEN "done" ELSE "refused") /\ (removed => j \notin sandbox')
      BY <3>2
    <3> QED
      BY <3>1, <3>3, <3>4
  <2> QED
    BY <1>3, <2>1, <2>2 DEF RunStep
<1>4. CASE TeardownStep(j)
  <2>1. CASE Disown(j) \/ Release(j) \/ ReleaseLeases(j)
    BY <2>1 DEF Disown, Release, ReleaseLeases, CloseSubs
  <2>2. CASE PublishResult(j) \/ WriteFinal(j) \/ PersistOutput(j)
    BY <2>2 DEF PublishResult, WriteFinal, PersistOutput
  <2>3. CASE CleanupSandbox(j)
    BY <2>3 DEF CleanupSandbox, Removes
  <2> QED
    BY <1>4, <2>1, <2>2, <2>3 DEF TeardownStep
<1>5. CASE ControlStep(j)
  BY <1>5 DEF ControlStep, ParkedStart, ParkedKill, ParkedOther, WatchTakes, PumpTakes
<1> QED
  BY <1>1, <1>2, <1>3, <1>4, <1>5 DEF StepOf, JobStep

\* A message that is sent joins those in the channel.
LEMMA HasAfterSend ==
  ASSUME NEW s \in Seq(Msg), NEW m \in Msg, NEW n \in Msg
  PROVE  Has(Append(s, m), m) /\ (Has(s, n) => Has(Append(s, m), n)) /\ Len(Append(s, m)) = Len(s) + 1
<1>1. Append(s, m)[Len(s) + 1] = m /\ Len(s) + 1 \in DOMAIN Append(s, m)
  OBVIOUS
<1>2. \A i \in DOMAIN s : i \in DOMAIN Append(s, m) /\ Append(s, m)[i] = s[i]
  OBVIOUS
<1> QED
  BY <1>1, <1>2 DEF Has

\* A receive loses only the oldest message.
LEMMA HasAfterReceive ==
  ASSUME NEW s \in Seq(Msg), s # <<>>, NEW m \in Msg
  PROVE  /\ Head(s) # m /\ Has(s, m) => Has(Tail(s), m)
         /\ Len(Tail(s)) = Len(s) - 1 /\ Len(s) \in Nat
<1>1. Head(s) = s[1] /\ Len(s) \in Nat /\ Len(Tail(s)) = Len(s) - 1
  OBVIOUS
<1>2. \A i \in DOMAIN s : i # 1 => i - 1 \in DOMAIN Tail(s) /\ Tail(s)[i - 1] = s[i]
  OBVIOUS
<1> QED
  BY <1>1, <1>2 DEF Has

\* The hand-back keeps the messages that are in the channel already, and
\* never fills the channel beyond its capacity.
LEMMA HasAfterHandBack ==
  ASSUME NEW s \in Seq(Msg), NEW t \in Seq(Msg), Len(s) <= CtrlCap, NEW m \in Msg
  PROVE  (Has(s, m) => Has(Fit(s \o t), m)) /\ Len(Fit(s \o t)) <= CtrlCap
<1> DEFINE u == s \o t
<1>1. u \in Seq(Msg) /\ Len(u) = Len(s) + Len(t) /\ Len(s) \in Nat /\ Len(t) \in Nat /\ CtrlCap \in Nat
  BY CapacityAssumption
<1>2. \A i \in DOMAIN s : i \in DOMAIN u /\ u[i] = s[i] /\ i <= CtrlCap /\ i \in Nat /\ i >= 1
  BY <1>1
<1> HIDE DEF u
<1>3. (Has(s, m) => Has(Fit(u), m)) /\ Len(Fit(u)) <= CtrlCap
  <2>1. CASE Len(u) > CtrlCap
    <3>1. Fit(u) = SubSeq(u, 1, CtrlCap) /\ Len(Fit(u)) = CtrlCap
      BY <1>1, <2>1 DEF Fit
    <3>2. \A i \in 1..CtrlCap : i \in DOMAIN Fit(u) /\ Fit(u)[i] = u[i]
      BY <1>1, <2>1, <3>1
    <3>3. \A i \in DOMAIN s : i \in DOMAIN Fit(u) /\ Fit(u)[i] = s[i]
      BY <1>1, <1>2, <3>2
    <3> QED
      BY <1>1, <3>1, <3>3 DEF Has
  <2>2. CASE ~(Len(u) > CtrlCap)
    BY <1>1, <1>2, <2>2 DEF Fit, Has
  <2> QED
    BY <2>1, <2>2
<1> QED
  BY <1>3 DEF u

\* Where a kill that reached the channel of job j is: still there, noted by
\* the compile watch, or carried out by the stdin pump.  No kill reaches it
\* before the subscription, and the channel never exceeds its capacity.
KillKnown(j) ==
  \/ Has(ctrl[j], "kill")
  \/ pc[j] = "compiling" /\ j \in killSeen
  \/ pc[j] = "running" /\ (j \notin sandbox \/ j \in killRefused)

KillPlaced(j) ==
  /\ Len(ctrl[j]) <= CtrlCap
  /\ pc[j] \in Before => j \notin killSent
  /\ j \in killSent /\ pc[j] \in Waiting \cup Session /\ owner[j] \notin cancelled => KillKnown(j)

\* A publish puts a kill into the channel or does not deliver it.
LEMMA DeliverKeepsKill ==
  ASSUME TypeOK, NEW j \in Jobs, Resources(j), KillPlaced(j), NEW m \in Msg, Deliver(j, m),
         UNCHANGED <<pc, owner, killSeen, sandbox, killRefused, cancelled>>
  PROVE  KillPlaced(j)'
<1> DEFINE arrives == sub[j] = "active" /\ owner[j] \notin cancelled /\ Len(ctrl[j]) < CtrlCap
<1>1. ctrl[j] \in Seq(Msg) /\ ctrl \in [Jobs -> Seq(Msg)] /\ CtrlCap \in Nat
  BY CapacityAssumption DEF TypeOK
<1>2. CASE arrives
  <2>1. ctrl'[j] = Append(ctrl[j], m) /\ killSent' = IF m = "kill" THEN killSent \cup {j} ELSE killSent
    BY <1>1, <1>2 DEF Deliver
  <2>2. Has(ctrl'[j], m) /\ (Has(ctrl[j], "kill") => Has(ctrl'[j], "kill")) /\ Len(ctrl'[j]) = Len(ctrl[j]) + 1
    BY <1>1, <2>1, HasAfterSend DEF Msg
  <2>3. pc[j] \notin Before /\ Len(ctrl'[j]) <= CtrlCap
    BY <1>1, <1>2, <2>2 DEF Resources
  <2> QED
    BY <2>1, <2>2, <2>3 DEF KillPlaced, KillKnown
<1>3. CASE ~arrives
  BY <1>3 DEF Deliver, KillPlaced, KillKnown
<1> QED
  BY <1>2, <1>3

\* Whoever receives a kill remembers it or acts on it.
LEMMA ReceiveKeepsKill ==
  ASSUME TypeOK, NEW j \in Jobs, KillPlaced(j), ControlStep(j)
  PROVE  KillPlaced(j)'
<1>1. /\ Take(j) /\ ctrl[j] \in Seq(Msg) /\ ctrl[j] # <<>> /\ ctrl'[j] = Tail(ctrl[j])
      /\ UNCHANGED <<killSent, owner, cancelled>>
  BY DEF ControlStep, ParkedStart, ParkedKill, ParkedOther, WatchTakes, PumpTakes, Take, TypeOK,
         jobVars, boxVars, workerVars
<1>2. /\ Head(ctrl[j]) # "kill" /\ Has(ctrl[j], "kill") => Has(ctrl'[j], "kill")
      /\ Len(ctrl'[j]) <= CtrlCap
  BY <1>1, HasAfterReceive, CapacityAssumption DEF KillPlaced, Msg
<1> USE <1>1, <1>2 DEF KillPlaced, KillKnown, TypeOK, Before, Waiting, Parked, Session, Move, End,
                       jobVars, boxVars, watchVars
<1>3. CASE ParkedStart(j)
  BY <1>3 DEF ParkedStart
<1>4. CASE ParkedKill(j)
  BY <1>4 DEF ParkedKill
<1>5. CASE ParkedOther(j)
  BY <1>5 DEF ParkedOther
<1>6. CASE WatchTakes(j)
  BY <1>6 DEF WatchTakes
<1>7. CASE PumpTakes(j)
  BY <1>7 DEF PumpTakes
<1> QED
  BY <1>3, <1>4, <1>5, <1>6, <1>7 DEF ControlStep

\* The watch hands the channel back with what it held behind the rest, and
\* a compile whose watch saw a kill does not go on to the run.
LEMMA HandBackKeepsKill ==
  ASSUME TypeOK, NEW j \in Jobs, KillPlaced(j), CompileSucceeds(j) \/ CompileEnds(j)
  PROVE  KillPlaced(j)'
<1>1. ctrl[j] \in Seq(Msg) /\ held[j] \in Seq(Msg) /\ ctrl'[j] = Fit(ctrl[j] \o held[j])
  BY DEF CompileSucceeds, CompileEnds, HandBack, TypeOK
<1>2. (Has(ctrl[j], "kill") => Has(ctrl'[j], "kill")) /\ Len(ctrl'[j]) <= CtrlCap
  BY <1>1, HasAfterHandBack DEF KillPlaced, Msg
<1> USE <1>2 DEF KillPlaced, KillKnown, TypeOK, Before, Waiting, Parked, Session, Move, End, HandBack, workerVars
<1>3. CASE CompileSucceeds(j)
  BY <1>3 DEF CompileSucceeds
<1>4. CASE CompileEnds(j)
  BY <1>4 DEF CompileEnds
<1> QED
  BY <1>3, <1>4

\* Every step of the job keeps a delivered kill in its place.
LEMMA KillKept ==
  ASSUME TypeOK, ClaimedOnce, NEW j \in Jobs, Resources(j), KillPlaced(j), StepOf(j)
  PROVE  KillPlaced(j)'
<1>1. CASE Around(j)
  <2>1. CASE StartPublish(j) \/ \E m \in Msg : Control(j, m)
    <3>1. "start" \in Msg
      BY DEF Msg
    <3>2. PICK m \in Msg : Deliver(j, m)
      BY <2>1, <3>1 DEF StartPublish, Control
    <3>3. UNCHANGED <<pc, owner, killSeen, sandbox, killRefused, cancelled>>
      BY <2>1 DEF StartPublish, Control, workerVars, jobVars, boxVars, watchVars
    <3> QED
      BY <3>2, <3>3, DeliverKeepsKill
  <2>2. CASE ClaimOf(j)
    <3>1. pc[j] = "unclaimed" /\ pc'[j] = "claimed" /\ UNCHANGED <<ctrlVars>>
      BY <2>2, ClaimOfUnclaimed
    <3> QED
      BY <3>1 DEF KillPlaced, Before, Waiting, Parked, Session, ctrlVars
  <2>3. CASE Execute(j) \/ StartFlag(j) \/ Expire(j) \/ SubscribeConfirmed(j) \/ Hang(j)
    BY <2>3 DEF Execute, StartFlag, Expire, SubscribeConfirmed, Hang, KillPlaced, KillKnown,
                workerVars, jobVars, boxVars, ctrlVars, watchVars
  <2> QED
    BY <1>1, <2>1, <2>2, <2>3 DEF Around
<1> USE DEF KillPlaced, KillKnown, TypeOK, Before, Waiting, Closed, Setup, Parked, Session, Teardown, Abort,
            apiVars, workerVars, watchVars, ctrlVars, jobVars, boxVars, Move, End
<1>2. CASE SetupStep(j)
  BY <1>2 DEF SetupStep, ReadSpec, ReadSpecFails, Subscribe, Announce, ResolveBlobs, ResolveBlobsFails,
              AddOwnedJob, CreateSandbox, CreateFails, CheckStartFlag
<1>3. CASE RunStep(j)
  <2>1. CASE CompileSucceeds(j) \/ CompileEnds(j)
    BY <2>1, HandBackKeepsKill
  <2>2. CASE ParkEnds(j) \/ BeginRun(j) \/ SessionEnds(j)
    BY <2>2 DEF ParkEnds, BeginRun, SessionEnds
  <2> QED
    BY <1>3, <2>1, <2>2 DEF RunStep
<1>4. CASE TeardownStep(j)
  <2>1. Len(ctrl'[j]) <= CtrlCap
    <3>1. ctrl'[j] \in {ctrl[j], <<>>}
      BY <1>4 DEF TeardownStep, Disown, Release, ReleaseLeases, PublishResult, WriteFinal, PersistOutput,
                  CleanupSandbox, CloseSubs
    <3>2. Len(<<>>) = 0 /\ CtrlCap \in Nat
      BY CapacityAssumption
    <3> QED
      BY <3>1, <3>2
  <2>2. pc'[j] \notin Before \cup Waiting \cup Session
    BY <1>4 DEF TeardownStep, Disown, Release, ReleaseLeases, PublishResult, WriteFinal, PersistOutput, CleanupSandbox
  <2> QED
    BY <2>1, <2>2
<1>5. CASE ControlStep(j)
  BY <1>5, ReceiveKeepsKill
<1> QED
  BY <1>1, <1>2, <1>3, <1>4, <1>5 DEF StepOf, JobStep

\* Together, for every job, whatever fails.
Delivered == \A j \in Jobs : Resources(j) /\ KillPlaced(j)

\* Subscriptions, containers and kills are so in every reachable state.
LEMMA DeliveredInvariant == Spec => []Delivered
<1>1. ASSUME Init PROVE Delivered
  <2>1. Len(<<>>) = 0 /\ CtrlCap \in Nat
    BY CapacityAssumption
  <2> QED
    BY <1>1, <2>1 DEF Init, Delivered, Resources, KillPlaced, Before, Waiting, Closed, Parked, Session
<1>2. ASSUME SlotsInv, Delivered, [Next]_vars PROVE Delivered'
  <2> SUFFICES ASSUME NEW j \in Jobs PROVE Resources(j)' /\ KillPlaced(j)'
    BY DEF Delivered
  <2>1. TypeOK /\ ClaimedOnce /\ Resources(j) /\ KillPlaced(j)
    BY <1>2 DEF SlotsInv, Delivered
  <2>2. CASE StepOf(j)
    BY <2>1, <2>2, ResourcesKept, KillKept
  <2>3. CASE Untouched(j)
    <3>1. CancelledStay
      BY <1>2, CancelledGrows
    <3> QED
      BY <2>1, <2>3, <3>1 DEF Untouched, Resources, KillPlaced, KillKnown, CancelledStay
  <2> QED
    BY <1>2, <2>1, <2>2, <2>3, StepOfOneJob
<1> QED
  BY <1>1, <1>2, SlotsInvariant, PTL DEF Spec

\* A kill that reached the job's channel is never lost between the park loop,
\* the compile watch and the stdin pump (worker.go: compileCtrlWatch and the
\* consumers of ctrlCh), whatever the order of the messages and whatever fails.
THEOREM KillsAreNeverForgotten == Spec => []KillNeverForgotten
<1>1. Delivered /\ TypeOK => KillNeverForgotten
  BY DEF Delivered, TypeOK, KillNeverForgotten, KillPlaced, KillKnown, Waiting
<1> QED
  BY <1>1, DeliveredInvariant, TypeCorrect, PTL

(***************************************************************************)
(* The start.  It reaches a parked job when Redis answers, the SUBSCRIBE   *)
(* is in force when the flag is read, and the job's control messages fit   *)
(* into ctrlCh; each of the three is needed.                               *)
(***************************************************************************)

StartIsHeard == Faults \cap {"redis", "lateSubscribe"} = {} /\ MaxCtrl <= CtrlCap

\* Until the start the subscription is active and the channel holds at most
\* what was published, so it has room for the publish of a /start handler.
StartPlaced(j) ==
  /\ pc[j] \in Waiting => sub[j] = "active"
  /\ pc[j] \in Before \cup Waiting => Len(ctrl[j]) <= published[j]
  /\ published[j] + (IF j \in starting THEN 1 ELSE 0) <= MaxCtrl
  /\ j \in startFlag \ starting /\ pc[j] = "parked" /\ owner[j] \notin cancelled => Has(ctrl[j], "start")

\* A control message of a waiting job arrives.
LEMMA DeliverKeepsStart ==
  ASSUME TypeOK, NEW j \in Jobs, StartPlaced(j), MaxCtrl <= CtrlCap,
         StartPublish(j) \/ \E m \in Msg : Control(j, m)
  PROVE  StartPlaced(j)'
<1>1. /\ ctrl[j] \in Seq(Msg) /\ ctrl \in [Jobs -> Seq(Msg)] /\ CtrlCap \in Nat /\ MaxCtrl \in Nat
      /\ published \in [Jobs -> Nat] /\ "start" \in Msg
  BY CapacityAssumption DEF TypeOK, Msg
<1>2. PICK m \in Msg : Deliver(j, m) /\ (StartPublish(j) => m = "start")
  BY <1>1 DEF StartPublish, Control
<1>3. UNCHANGED <<pc, owner, cancelled, sub, startFlag>>
  BY <1>2 DEF StartPublish, Control, Deliver, workerVars, jobVars, boxVars, redisVars
<1>4. published'[j] = published[j] + 1
  BY <1>1, <1>2 DEF Deliver
<1>5. /\ published'[j] + (IF j \in starting' THEN 1 ELSE 0) <= MaxCtrl /\ published[j] + 1 <= MaxCtrl
      /\ StartPublish(j) \/ starting' = starting
  <2>1. CASE StartPublish(j)
    BY <1>1, <1>4, <2>1 DEF StartPublish, StartPlaced
  <2>2. CASE \E n \in Msg : Control(j, n)
    BY <1>1, <1>4, <2>2 DEF Control, MayPublish
  <2> QED
    BY <2>1, <2>2
<1>6. CASE sub[j] = "active" /\ owner[j] \notin cancelled /\ Len(ctrl[j]) < CtrlCap
  <2>1. ctrl'[j] = Append(ctrl[j], m)
    BY <1>1, <1>2, <1>6 DEF Deliver
  <2>2. Has(ctrl'[j], m) /\ (Has(ctrl[j], "start") => Has(ctrl'[j], "start")) /\ Len(ctrl'[j]) = Len(ctrl[j]) + 1
        /\ Len(ctrl[j]) \in Nat
    BY <1>1, <2>1, HasAfterSend
  <2>3. pc[j] \in Before \cup Waiting => Len(ctrl'[j]) <= published'[j]
    BY <1>1, <1>4, <2>2 DEF StartPlaced
  <2> QED
    BY <1>2, <1>3, <1>5, <2>2, <2>3 DEF StartPlaced
<1>7. CASE ~(sub[j] = "active" /\ owner[j] \notin cancelled /\ Len(ctrl[j]) < CtrlCap)
  <2>1. ctrl' = ctrl
    BY <1>2, <1>7 DEF Deliver
  <2>2. pc[j] \in Before \cup Waiting => Len(ctrl[j]) <= published'[j]
    BY <1>1, <1>4 DEF StartPlaced
  <2>3. pc[j] \in Waiting => Len(ctrl[j]) < CtrlCap
    BY <1>1, <1>5 DEF StartPlaced
  <2>4. pc[j] = "parked" => owner[j] \in cancelled
    BY <1>7, <2>3 DEF StartPlaced, Waiting, Parked
  <2> QED
    BY <1>3, <1>5, <2>1, <2>2, <2>4 DEF StartPlaced
<1> QED
  BY <1>6, <1>7

\* What is received from a parked job's channel without starting or ending
\* it is not the start.
LEMMA ReceiveKeepsStart ==
  ASSUME TypeOK, NEW j \in Jobs, StartPlaced(j), ControlStep(j)
  PROVE  StartPlaced(j)'
<1>1. /\ Take(j) /\ ctrl[j] \in Seq(Msg) /\ ctrl[j] # <<>> /\ ctrl'[j] = Tail(ctrl[j])
      /\ UNCHANGED <<owner, cancelled, sub, starting, startFlag, published>>
  BY DEF ControlStep, ParkedStart, ParkedKill, ParkedOther, WatchTakes, PumpTakes, Take, TypeOK,
         jobVars, boxVars, workerVars, redisVars, apiVars
<1>2. /\ Head(ctrl[j]) # "start" /\ Has(ctrl[j], "start") => Has(ctrl'[j], "start")
      /\ Len(ctrl'[j]) = Len(ctrl[j]) - 1 /\ Len(ctrl[j]) \in Nat
  BY <1>1, HasAfterReceive DEF Msg
<1>3. published[j] \in Nat
  BY DEF TypeOK
<1>4. Len(ctrl[j]) <= published[j] => Len(ctrl'[j]) <= published[j]
  BY <1>2, <1>3
<1> USE DEF StartPlaced, TypeOK, Before, Waiting, Parked, Move, End, jobVars, boxVars
<1>5. CASE ParkedOther(j)
  BY <1>1, <1>2, <1>4, <1>5 DEF ParkedOther
<1>6. CASE ParkedStart(j) \/ ParkedKill(j) \/ WatchTakes(j) \/ PumpTakes(j)
  <2>1. pc'[j] \notin Before \cup Waiting
    BY <1>6 DEF ParkedStart, ParkedKill, WatchTakes, PumpTakes
  <2> QED
    BY <1>1, <2>1
<1> QED
  BY <1>5, <1>6 DEF ControlStep

\* Every step of the job keeps it: the flag is read after the SUBSCRIBE.
LEMMA StartKept ==
  ASSUME TypeOK, ClaimedOnce, StartIsHeard, NEW j \in Jobs, Resources(j), StartPlaced(j), StepOf(j)
  PROVE  StartPlaced(j)'
<1>0. published \in [Jobs -> Nat] /\ MaxCtrl \in Nat
  BY CapacityAssumption DEF TypeOK
<1>1. CASE Around(j)
  <2>1. CASE StartPublish(j) \/ \E m \in Msg : Control(j, m)
    BY <2>1, DeliverKeepsStart DEF StartIsHeard
  <2>2. CASE ClaimOf(j)
    <3>1. pc[j] = "unclaimed" /\ pc'[j] = "claimed" /\ UNCHANGED <<ctrlVars, apiVars, startFlag>>
      BY <2>2, ClaimOfUnclaimed
    <3> QED
      BY <3>1 DEF StartPlaced, Before, Waiting, Parked, ctrlVars, apiVars
  <2>3. CASE StartFlag(j)
    BY <1>0, <2>3 DEF StartFlag, MayPublish, StartPlaced, workerVars, jobVars, boxVars, ctrlVars
  <2>4. CASE Execute(j) \/ Expire(j) \/ SubscribeConfirmed(j) \/ Hang(j)
    BY <2>4 DEF Execute, Expire, SubscribeConfirmed, Hang, StartPlaced, TypeOK,
                workerVars, jobVars, boxVars, ctrlVars, apiVars, redisVars
  <2> QED
    BY <1>1, <2>1, <2>2, <2>3, <2>4 DEF Around
<1> USE DEF StartPlaced, TypeOK, Before, Waiting, Closed, Setup, Parked, Session, Teardown, Abort,
            redisVars, apiVars, workerVars, ctrlVars, jobVars, boxVars, Move, End
<1>2. CASE SetupStep(j)
  <2>1. CASE Subscribe(j)
    BY <2>1 DEF Subscribe, StartIsHeard
  <2>2. CASE CheckStartFlag(j)
    <3>1. pc'[j] = "parked" /\ owner[j] \notin cancelled => j \notin startFlag
      BY <2>2 DEF CheckStartFlag, Answers, StartIsHeard
    <3> QED
      BY <2>2, <3>1 DEF CheckStartFlag
  <2>3. CASE ~Subscribe(j) /\ ~CheckStartFlag(j)
    BY <1>2, <2>3 DEF SetupStep, ReadSpec, ReadSpecFails, Announce, ResolveBlobs, ResolveBlobsFails,
                AddOwnedJob, CreateSandbox, CreateFails
  <2> QED
    BY <2>1, <2>2, <2>3
<1>3. CASE RunStep(j) \/ TeardownStep(j)
  <2>1. pc'[j] \notin Before \cup Waiting
    BY <1>3 DEF RunStep, ParkEnds, CompileSucceeds, CompileEnds, BeginRun, SessionEnds,
                TeardownStep, Disown, Release, ReleaseLeases, PublishResult, WriteFinal, PersistOutput, CleanupSandbox
  <2>2. UNCHANGED <<published, starting>>
    BY <1>3 DEF RunStep, ParkEnds, CompileSucceeds, CompileEnds, BeginRun, SessionEnds,
                TeardownStep, Disown, Release, ReleaseLeases, PublishResult, WriteFinal, PersistOutput, CleanupSandbox
  <2> QED
    BY <2>1, <2>2
<1>4. CASE ControlStep(j)
  BY <1>4, ReceiveKeepsStart
<1> QED
  BY <1>1, <1>2, <1>3, <1>4 DEF StepOf, JobStep

\* Once a /start handler is through, a job that still waits has the message
\* coming (StartDelivered of Worker), for every number of jobs and workers and
\* every interleaving of the flag, its read and the publish.
THEOREM StartsAreDelivered ==
  ASSUME StartIsHeard
  PROVE  Spec => []StartDelivered
<1> DEFINE Inv == \A j \in Jobs : StartPlaced(j)
<1>1. ASSUME Init PROVE Inv
  <2>1. Len(<<>>) = 0 /\ MaxCtrl \in Nat
    BY CapacityAssumption
  <2> QED
    BY <1>1, <2>1 DEF Init, StartPlaced, Before, Waiting, Parked
<1>2. ASSUME SlotsInv, Delivered, Inv, [Next]_vars PROVE Inv'
  <2> SUFFICES ASSUME NEW j \in Jobs PROVE StartPlaced(j)'
    OBVIOUS
  <2>1. TypeOK /\ ClaimedOnce /\ Resources(j) /\ StartPlaced(j)
    BY <1>2 DEF SlotsInv, Delivered
  <2>2. CASE StepOf(j)
    BY <2>1, <2>2, StartIsHeard, StartKept
  <2>3. CASE Untouched(j)
    <3>1. CancelledStay
      BY <1>2, CancelledGrows
    <3> QED
      BY <2>1, <2>3, <3>1 DEF Untouched, StartPlaced, CancelledStay
  <2> QED
    BY <1>2, <2>1, <2>2, <2>3, StepOfOneJob
<1>3. TypeOK /\ Inv => StartDelivered
  BY DEF StartDelivered, StartPlaced, TypeOK
<1> QED
  BY <1>1, <1>2, <1>3, SlotsInvariant, DeliveredInvariant, TypeCorrect, PTL DEF Spec

(***************************************************************************)
(* What a job leaves in Redis.  A command that fails is logged and not     *)
(* repeated, so these hold while Redis answers; a worker past its drain    *)
(* deadline (cancelled) is still covered.                                  *)
(***************************************************************************)

RedisAnswers == "redis" \notin Faults

\* The owned-jobs entry: from AddOwnedJob to Disown, and before any container.
Owned(j) ==
  /\ pc[j] \in Before \cup {"announce", "resolve", "own"} => \A w \in Workers : j \notin owned[w]
  /\ pc[j] = "create" /\ owner[j] \notin cancelled => j \in owned[owner[j]]
  /\ j \in sandbox /\ pc[j] \in Parked \cup Session => j \in owned[owner[j]]
  /\ pc[j] \in Closed \cup {"abortUnlease"} /\ owner[j] \notin cancelled => j \notin owned[owner[j]]

Unleased == Closed \ {"release", "unlease"}
Settled  == {"persist", "cleanup", "abortRelease", "finished"}

\* The blob lease and the status of a job that is through with them.
Returned(j) ==
  /\ pc[j] \in Before \cup {"announce", "resolve"} => j \notin leases
  /\ pc[j] \in Unleased /\ owner[j] \notin cancelled => j \notin leases
  /\ pc[j] \in {"unclaimed", "claimed"} /\ j \notin specs => status[j] = "absent"
  /\ pc[j] \in Settled /\ owner[j] \notin cancelled => status[j] \in Final \cup {"absent"}

\* Every step of the job keeps its owned-jobs entry so.
LEMMA OwnedKept ==
  ASSUME TypeOK, ClaimedOnce, OwnerKnown, RedisAnswers, NEW j \in Jobs, Resources(j), Owned(j), StepOf(j)
  PROVE  Owned(j)'
<1>0. pc[j] # "unclaimed" => owner[j] \in Workers
  BY DEF OwnerKnown
<1> USE DEF Owned, TypeOK, Before, Waiting, Closed, Setup, Parked, Session, Teardown, Abort,
            redisVars, workerVars, watchVars, jobVars, boxVars, Move, End
<1>1. CASE Around(j)
  <2>1. CASE ClaimOf(j)
    <3>1. pc[j] = "unclaimed" /\ pc'[j] = "claimed" /\ UNCHANGED <<owned, sandbox, cancelled>>
      BY <2>1, ClaimOfUnclaimed
    <3> QED
      BY <3>1
  <2>2. CASE Around(j) /\ ~ClaimOf(j)
    BY <2>2 DEF Around, Execute, StartFlag, StartPublish, Control, Expire, SubscribeConfirmed, Hang
  <2> QED
    BY <1>1, <2>1, <2>2
<1>2. CASE SetupStep(j)
  <2>1. CASE AddOwnedJob(j)
    <3>1. owner[j] \in Workers /\ pc'[j] = "create" /\ UNCHANGED <<owner, cancelled, sandbox>> /\ j \notin sandbox
      BY <1>0, <2>1 DEF AddOwnedJob, Resources
    <3>2. owner[j] \notin cancelled => j \in owned'[owner[j]]
      BY <2>1, <3>1 DEF AddOwnedJob, Answers, RedisAnswers
    <3> QED
      BY <3>1, <3>2
  <2>2. CASE SetupStep(j) /\ ~AddOwnedJob(j)
    BY <2>2, <1>0 DEF SetupStep, ReadSpec, ReadSpecFails, Subscribe, Announce, ResolveBlobs, ResolveBlobsFails,
              CreateSandbox, CreateFails, CheckStartFlag, Resources
  <2> QED
    BY <1>2, <2>1, <2>2
<1>3. CASE RunStep(j)
  BY <1>3 DEF RunStep, ParkEnds, CompileSucceeds, CompileEnds, BeginRun, SessionEnds
<1>4. CASE TeardownStep(j)
  <2>1. CASE Disown(j)
    <3>1. owner[j] \in Workers /\ pc'[j] \in {"release", "abortUnlease"} /\ UNCHANGED <<owner, cancelled, sandbox>>
      BY <1>0, <2>1 DEF Disown
    <3>2. owner[j] \notin cancelled => j \notin owned'[owner[j]]
      BY <2>1, <3>1 DEF Disown, RemoveOwned, Answers, RedisAnswers
    <3> QED
      BY <3>1, <3>2
  <2>2. CASE TeardownStep(j) /\ ~Disown(j)
    BY <2>2 DEF TeardownStep, Release, ReleaseLeases, PublishResult, WriteFinal, PersistOutput, CleanupSandbox
  <2> QED
    BY <1>4, <2>1, <2>2
<1>5. CASE ControlStep(j)
  BY <1>5 DEF ControlStep, ParkedStart, ParkedKill, ParkedOther, WatchTakes, PumpTakes
<1> QED
  BY <1>1, <1>2, <1>3, <1>4, <1>5 DEF StepOf, JobStep

\* Every step of the job keeps its lease and status so.
LEMMA ReturnedKept ==
  ASSUME TypeOK, ClaimedOnce, RedisAnswers, NEW j \in Jobs, Returned(j), StepOf(j)
  PROVE  Returned(j)'
<1> USE DEF Returned, Unleased, Settled, TypeOK, Before, Waiting, Closed, Setup, Parked, Session, Teardown, Abort,
            redisVars, workerVars, watchVars, jobVars, boxVars, Move, End, Answers, RedisAnswers
<1>1. CASE Around(j)
  <2>1. CASE ClaimOf(j)
    <3>1. pc[j] = "unclaimed" /\ pc'[j] = "claimed" /\ UNCHANGED <<leases, specs, status, cancelled>>
      BY <2>1, ClaimOfUnclaimed
    <3> QED
      BY <3>1
  <2>2. CASE Execute(j) \/ Expire(j)
    BY <2>2 DEF Execute, Expire, Submitted
  <2>3. CASE StartFlag(j) \/ StartPublish(j) \/ (\E m \in Msg : Control(j, m)) \/ SubscribeConfirmed(j) \/ Hang(j)
    BY <2>3 DEF StartFlag, StartPublish, Control, SubscribeConfirmed, Hang
  <2> QED
    BY <1>1, <2>1, <2>2, <2>3 DEF Around
<1>2. CASE SetupStep(j)
  <2>1. CASE ReadSpec(j) \/ ReadSpecFails(j)
    BY <2>1 DEF ReadSpec, ReadSpecFails
  <2>2. CASE Subscribe(j) \/ Announce(j)
    BY <2>2 DEF Subscribe, Announce
  <2>3. CASE ResolveBlobs(j)
    BY <2>3 DEF ResolveBlobs
  <2>4. CASE ResolveBlobsFails(j)
    BY <2>4 DEF ResolveBlobsFails
  <2>5. CASE AddOwnedJob(j) \/ CheckStartFlag(j)
    BY <2>5 DEF AddOwnedJob, CheckStartFlag
  <2>6. CASE CreateSandbox(j) \/ CreateFails(j)
    BY <2>6 DEF CreateSandbox, CreateFails
  <2> QED
    BY <1>2, <2>1, <2>2, <2>3, <2>4, <2>5, <2>6 DEF SetupStep
<1>3. CASE RunStep(j)
  BY <1>3 DEF RunStep, ParkEnds, CompileSucceeds, CompileEnds, BeginRun, SessionEnds
<1>4. CASE TeardownStep(j)
  <2>1. CASE WriteFinal(j)
    BY <2>1 DEF WriteFinal, WriteStatus
  <2>2. CASE TeardownStep(j) /\ ~WriteFinal(j)
    BY <2>2 DEF TeardownStep, Disown, Release, ReleaseLeases, PublishResult, PersistOutput, CleanupSandbox
  <2> QED
    BY <1>4, <2>1, <2>2
<1>5. CASE ControlStep(j)
  BY <1>5 DEF ControlStep, ParkedStart, ParkedKill, ParkedOther, WatchTakes, PumpTakes
<1> QED
  BY <1>1, <1>2, <1>3, <1>4, <1>5 DEF StepOf, JobStep

\* Both hold in every reachable state while Redis answers.
LEMMA KeptInRedis ==
  ASSUME RedisAnswers
  PROVE  Spec => [](\A j \in Jobs : Owned(j) /\ Returned(j))
<1> DEFINE Inv == \A j \in Jobs : Owned(j) /\ Returned(j)
<1>1. ASSUME Init PROVE Inv
  BY <1>1 DEF Init, Owned, Returned, Before, Closed, Parked, Session, Unleased, Settled
<1>2. ASSUME SlotsInv, Delivered, Inv, [Next]_vars PROVE Inv'
  <2> SUFFICES ASSUME NEW j \in Jobs PROVE Owned(j)' /\ Returned(j)'
    OBVIOUS
  <2>1. TypeOK /\ ClaimedOnce /\ OwnerKnown /\ Resources(j) /\ Owned(j) /\ Returned(j)
    BY <1>2 DEF SlotsInv, Delivered
  <2>2. CASE StepOf(j)
    BY <2>1, <2>2, RedisAnswers, OwnedKept, ReturnedKept
  <2>3. CASE Untouched(j)
    <3>1. CancelledStay
      BY <1>2, CancelledGrows
    <3>2. \A w \in Workers : j \in owned'[w] <=> j \in owned[w]
      BY <2>3 DEF Untouched
    <3>3. pc[j] # "unclaimed" => owner[j] \in Workers
      BY <2>1 DEF OwnerKnown
    <3>4. "unclaimed" \notin {"create", "abortUnlease"} \cup Parked \cup Session \cup Closed
      BY DEF Parked, Session, Closed
    <3>5. Owned(j)'
      BY <2>1, <2>3, <3>1, <3>2, <3>3, <3>4 DEF Untouched, Owned, CancelledStay
    <3>6. Returned(j)'
      BY <2>1, <2>3, <3>1 DEF Untouched, Returned, CancelledStay
    <3> QED
      BY <3>5, <3>6
  <2> QED
    BY <1>2, <2>1, <2>2, <2>3, StepOfOneJob
<1> QED
  BY <1>1, <1>2, SlotsInvariant, DeliveredInvariant, PTL DEF Spec

\* The container of a job that waits, compiles or runs is in its worker's
\* owned-jobs set (SandboxIsOwned of Worker): AddOwnedJob precedes Create.
THEOREM SandboxesAreOwned ==
  ASSUME RedisAnswers
  PROVE  Spec => []SandboxIsOwned
<1>1. TypeOK /\ Delivered /\ (\A j \in Jobs : Owned(j) /\ Returned(j)) => SandboxIsOwned
  BY DEF SandboxIsOwned, TypeOK, Owned
<1> QED
  BY <1>1, RedisAnswers, KeptInRedis, DeliveredInvariant, TypeCorrect, PTL

\* Every way out of runJobFromSpec gives back what the job took
\* (GivenBackUnlessCancelled of Worker): early returns, aborts, both ends of
\* the park, of the compile and of the session.
THEOREM EverythingGivenBack ==
  ASSUME RedisAnswers
  PROVE  Spec => []GivenBackUnlessCancelled
<1>1. Delivered /\ (\A j \in Jobs : Owned(j) /\ Returned(j)) => GivenBackUnlessCancelled
  <2> SUFFICES ASSUME Delivered, \A j \in Jobs : Owned(j) /\ Returned(j), NEW j \in Jobs, pc[j] = "finished"
      PROVE  /\ j \in sandbox => removal[j] = "refused"
             /\ sub[j] = "none"
             /\ owner[j] \notin cancelled =>
                  j \notin owned[owner[j]] /\ j \notin leases /\ status[j] \in Final \cup {"absent"}
    BY DEF GivenBackUnlessCancelled
  <2>1. Resources(j) /\ Owned(j) /\ Returned(j)
    BY DEF Delivered
  <2>2. "finished" \in Closed \cap Unleased \cap Settled /\ "finished" \notin Parked
    BY DEF Closed, Unleased, Settled, Parked
  <2>3. (j \in sandbox => removal[j] = "refused") /\ sub[j] = "none"
    BY <2>1, <2>2 DEF Resources
  <2>4. owner[j] \notin cancelled =>
          j \notin owned[owner[j]] /\ j \notin leases /\ status[j] \in Final \cup {"absent"}
    BY <2>1, <2>2 DEF Owned, Returned
  <2> QED
    BY <2>3, <2>4
<1> QED
  BY <1>1, RedisAnswers, KeptInRedis, DeliveredInvariant, PTL

\* What may be left of a job whose goroutine has ended: no subscription, and a
\* container only when the last attempt to remove it was refused.
LeftOver(j) ==
  /\ sub[j] = "none"
  /\ j \in sandbox => removal[j] = "refused"
  /\ "docker" \notin Faults /\ owner[j] \notin cancelled => j \notin sandbox

\* Whatever fails, Redis included, no subscription survives the goroutine that
\* made it, and no container but one whose removal was refused: by Docker, or
\* because a failed Create removes under its own, cancelled context.
THEOREM NothingSurvivesItsJob ==
  Spec => [](\A j \in Jobs : pc[j] = "finished" => LeftOver(j))
<1>1. Delivered => \A j \in Jobs : pc[j] = "finished" => LeftOver(j)
  BY DEF Delivered, Resources, Closed, LeftOver
<1> QED
  BY <1>1, DeliveredInvariant, PTL

(***************************************************************************)
(* The refinement.  The status and the result of a job follow the place of *)
(* its goroutine, so each of their writes is a step JobLifecycle allows.   *)
(***************************************************************************)

NotBegun == {"unclaimed", "compiling", "begin"} \cup Setup \cup Parked \cup (Abort \ {"abortRelease"})
Ending   == {"disown", "release", "unlease", "result", "status"}
Told     == {"status", "persist", "cleanup", "abortStatus", "abortRelease"}

\* No final status before the result, no "running" before the run, and a
\* killed outcome only for a job that never ran.
InOrder(j) ==
  /\ pc[j] \in NotBegun => status[j] \in {"absent", "queued"}
  /\ pc[j] \in {"running"} \cup Ending => status[j] \in {"absent", "queued", "running"}
  /\ pc[j] \in Ending /\ outcome[j] = "killed" => status[j] # "running"
  /\ j \in resulted \cup lost => pc[j] \in Told \cup {"finished"}
  /\ pc[j] \in Told => j \in resulted \cup lost

\* Every step of the job keeps the order.
LEMMA OrderKept ==
  ASSUME TypeOK, ClaimedOnce, NEW j \in Jobs, InOrder(j), StepOf(j)
  PROVE  InOrder(j)'
<1> USE DEF InOrder, TypeOK, NotBegun, Ending, Told, Setup, Parked, Session, Teardown, Abort,
            redisVars, workerVars, watchVars, jobVars, boxVars, eventVars, Move, End, WriteStatus
<1>1. CASE Around(j)
  <2>1. CASE ClaimOf(j)
    <3>1. pc[j] = "unclaimed" /\ pc'[j] = "claimed" /\ UNCHANGED <<status, resulted, lost>>
      BY <2>1, ClaimOfUnclaimed
    <3> QED
      BY <3>1
  <2>2. CASE Execute(j) \/ Expire(j)
    BY <2>2 DEF Execute, Expire, Submitted
  <2>3. CASE StartFlag(j) \/ StartPublish(j) \/ (\E m \in Msg : Control(j, m)) \/ SubscribeConfirmed(j) \/ Hang(j)
    BY <2>3 DEF StartFlag, StartPublish, Control, SubscribeConfirmed, Hang
  <2> QED
    BY <1>1, <2>1, <2>2, <2>3 DEF Around
<1>2. CASE SetupStep(j)
  <2>1. CASE Announce(j)
    BY <2>1 DEF Announce
  <2>2. CASE CheckStartFlag(j)
    BY <2>2 DEF CheckStartFlag
  <2>3. CASE SetupStep(j) /\ ~Announce(j) /\ ~CheckStartFlag(j)
    BY <2>3 DEF SetupStep, ReadSpec, ReadSpecFails, Subscribe, ResolveBlobs, ResolveBlobsFails,
                AddOwnedJob, CreateSandbox, CreateFails
  <2> QED
    BY <1>2, <2>1, <2>2, <2>3
<1>3. CASE RunStep(j)
  BY <1>3 DEF RunStep, ParkEnds, CompileSucceeds, CompileEnds, BeginRun, SessionEnds
<1>4. CASE TeardownStep(j)
  <2>1. CASE WriteFinal(j)
    BY <2>1 DEF WriteFinal
  <2>2. CASE TeardownStep(j) /\ ~WriteFinal(j)
    BY <2>2 DEF TeardownStep, Disown, Release, ReleaseLeases, PublishResult, PersistOutput, CleanupSandbox
  <2> QED
    BY <1>4, <2>1, <2>2
<1>5. CASE ControlStep(j)
  BY <1>5 DEF ControlStep, ParkedStart, ParkedKill, ParkedOther, WatchTakes, PumpTakes
<1> QED
  BY <1>1, <1>2, <1>3, <1>4, <1>5 DEF StepOf, JobStep

\* The order holds in every reachable state.
LEMMA OrderInvariant == Spec => [](\A j \in Jobs : InOrder(j))
<1> DEFINE Inv == \A j \in Jobs : InOrder(j)
<1>1. ASSUME Init PROVE Inv
  BY <1>1 DEF Init, InOrder, NotBegun, Ending, Told
<1>2. ASSUME SlotsInv, Inv, [Next]_vars PROVE Inv'
  <2> SUFFICES ASSUME NEW j \in Jobs PROVE InOrder(j)'
    OBVIOUS
  <2>1. TypeOK /\ ClaimedOnce /\ InOrder(j)
    BY <1>2 DEF SlotsInv
  <2>2. CASE StepOf(j)
    BY <2>1, <2>2, OrderKept
  <2>3. CASE Untouched(j)
    BY <2>1, <2>3 DEF Untouched, InOrder
  <2> QED
    BY <1>2, <2>1, <2>2, <2>3, StepOfOneJob
<1> QED
  BY <1>1, <1>2, SlotsInvariant, PTL DEF Spec

\* What the lifecycle sees of a step of job j.
Promised(j) ==
  \/ Lifecycle!Submit(j) \/ Lifecycle!Expire(j) \/ Lifecycle!Begin(j) \/ Lifecycle!Publish(j)
  \/ (\E s \in Lifecycle!Final : Lifecycle!Settle(j, s))
  \/ UNCHANGED <<status, resulted, lost>>

\* The clients submit, the TTL takes back what nobody ran.
LEMMA AroundAsPromised ==
  ASSUME TypeOK, NEW j \in Jobs, InOrder(j), Around(j)
  PROVE  Promised(j)
<1> USE DEF Promised, TypeOK
<1>1. CASE Execute(j)
  <2>1. pc[j] = "unclaimed" /\ UNCHANGED <<resulted, lost>> /\ status' \in {status, [status EXCEPT ![j] = "queued"]}
    BY <1>1 DEF Execute, Submitted, eventVars
  <2>2. status[j] \in {"absent", "queued"} /\ j \notin resulted \cup lost
    BY <2>1 DEF InOrder, NotBegun, Told
  <2>3. status[j] = "queued" => [status EXCEPT ![j] = "queued"] = status
    OBVIOUS
  <2> QED
    BY <2>1, <2>2, <2>3 DEF Lifecycle!Submit, Lifecycle!Tried
<1>2. CASE Expire(j)
  <2>1. pc[j] = "unclaimed" /\ UNCHANGED <<resulted, lost>> /\ status' = [status EXCEPT ![j] = "absent"]
    BY <1>2 DEF Expire, eventVars
  <2>2. status[j] \in {"absent", "queued"} /\ j \notin resulted \cup lost
    BY <2>1 DEF InOrder, NotBegun, Told
  <2>3. status[j] = "absent" => [status EXCEPT ![j] = "absent"] = status
    OBVIOUS
  <2> QED
    BY <2>1, <2>2, <2>3 DEF Lifecycle!Expire, Lifecycle!Tried
<1>3. CASE StartFlag(j) \/ StartPublish(j) \/ (\E m \in Msg : Control(j, m)) \/ SubscribeConfirmed(j) \/ Hang(j) \/ ClaimOf(j)
  BY <1>3 DEF StartFlag, StartPublish, Control, SubscribeConfirmed, Hang, ClaimOf, Claim, redisVars, eventVars
<1> QED
  BY <1>1, <1>2, <1>3 DEF Around

\* The goroutine begins, publishes and settles, in this order.
LEMMA GoroutineAsPromised ==
  ASSUME TypeOK, NEW j \in Jobs, InOrder(j), JobStep(j) \/ ControlStep(j)
  PROVE  Promised(j)
<1> USE DEF Promised, TypeOK
<1>1. CASE Announce(j)
  <2>1. pc[j] = "announce" /\ UNCHANGED <<resulted, lost>> /\ status' \in {status, [status EXCEPT ![j] = "queued"]}
    BY <1>1 DEF Announce, Move, WriteStatus
  <2>2. status[j] \in {"absent", "queued"} /\ j \notin resulted \cup lost
    BY <2>1 DEF InOrder, NotBegun, Setup, Told
  <2>3. status[j] = "queued" => [status EXCEPT ![j] = "queued"] = status
    OBVIOUS
  <2> QED
    BY <2>1, <2>2, <2>3 DEF Lifecycle!Submit, Lifecycle!Tried
<1>2. CASE BeginRun(j)
  <2>1. pc[j] = "begin" /\ UNCHANGED <<resulted, lost>> /\ status' \in {status, [status EXCEPT ![j] = "running"]}
    BY <1>2 DEF BeginRun, Move, WriteStatus
  <2>2. status[j] \in {"absent", "queued"} /\ j \notin resulted \cup lost
    BY <2>1 DEF InOrder, NotBegun, Told
  <2> QED
    BY <2>1, <2>2 DEF Lifecycle!Begin, Lifecycle!Tried
<1>3. CASE PublishResult(j)
  <2>1. pc[j] \in {"result", "abortResult"} /\ UNCHANGED status
        /\ \/ resulted' = resulted \cup {j} /\ UNCHANGED lost
           \/ "soketi" \in Faults /\ lost' = lost \cup {j} /\ UNCHANGED resulted
    BY <1>3 DEF PublishResult, Move, redisVars
  <2>2. status[j] \in {"absent", "queued", "running"} /\ j \notin resulted \cup lost
    BY <2>1 DEF InOrder, NotBegun, Abort, Ending, Told
  <2> QED
    BY <2>1, <2>2 DEF Lifecycle!Publish, Lifecycle!Live, Lifecycle!Tried
<1>4. CASE WriteFinal(j)
  <2>1. /\ pc[j] \in {"status", "abortStatus"} /\ UNCHANGED <<resulted, lost>>
        /\ status' \in {status, [status EXCEPT ![j] = outcome[j]]}
    BY <1>4 DEF WriteFinal, Move, WriteStatus, eventVars
  <2>2. /\ status[j] \in {"absent", "queued", "running"} /\ j \in resulted \cup lost
        /\ outcome[j] = "killed" => status[j] # "running"
    BY <2>1 DEF InOrder, NotBegun, Abort, Ending, Told
  <2>3. outcome[j] \in Lifecycle!Final
    BY DEF Lifecycle!Final, Final
  <2> QED
    BY <2>1, <2>2, <2>3 DEF Lifecycle!Settle, Lifecycle!Live, Lifecycle!Tried
<1>5. CASE ~Announce(j) /\ ~BeginRun(j) /\ ~PublishResult(j) /\ ~WriteFinal(j)
  <2>1. UNCHANGED <<status, resulted, lost>>
    BY <1>5 DEF JobStep, SetupStep, ReadSpec, ReadSpecFails, Subscribe, ResolveBlobs, ResolveBlobsFails,
              AddOwnedJob, CreateSandbox, CreateFails, CheckStartFlag,
              RunStep, ParkEnds, CompileSucceeds, CompileEnds, SessionEnds,
              TeardownStep, Disown, Release, ReleaseLeases, PersistOutput, CleanupSandbox,
              ControlStep, ParkedStart, ParkedKill, ParkedOther, WatchTakes, PumpTakes, redisVars, eventVars
  <2> QED
    BY <2>1
<1> QED
  BY <1>1, <1>2, <1>3, <1>4, <1>5

\* Every step of the system is a step of the lifecycle or invisible to it.
LEMMA StepAsPromised ==
  ASSUME TypeOK, \A j \in Jobs : InOrder(j), [Next]_vars
  PROVE  [Lifecycle!Next]_(Lifecycle!lifecycleVars)
<1> USE DEF Lifecycle!lifecycleVars
<1>1. ASSUME NEW j \in Jobs, StepOf(j) PROVE [Lifecycle!Next]_(Lifecycle!lifecycleVars)
  <2>1. Promised(j)
    BY <1>1, AroundAsPromised, GoroutineAsPromised DEF StepOf
  <2> QED
    BY <2>1 DEF Promised, Lifecycle!Next
<1>2. ASSUME NEW w \in Workers, LoopStep(w) \/ Sigterm(w) \/ DrainDeadline(w) \/ DrainDone(w)
      PROVE [Lifecycle!Next]_(Lifecycle!lifecycleVars)
  BY <1>2 DEF LoopStep, Acquire, Claim, ClaimFails, LoopStops, Sigterm, DrainDeadline, DrainDone,
              redisVars, eventVars
<1>3. CASE UNCHANGED vars
  BY <1>3 DEF vars, redisVars, eventVars
<1> QED
  BY <1>1, <1>2, <1>3 DEF Next, Client, StepOf, Around

\* Worker implements JobLifecycle: to a client the status of a job is a
\* submission, at most one "running" and one final state that stays, with the
\* single result event published, or refused by soketi, before it, whatever
\* else fails.
THEOREM WorkerImplementsLifecycle == Spec => ImplementsLifecycle
<1>1. Init => Lifecycle!Init
  BY DEF Init, Lifecycle!Init
<1>2. TypeOK /\ (\A j \in Jobs : InOrder(j)) /\ [Next]_vars => [Lifecycle!Next]_(Lifecycle!lifecycleVars)
  BY StepAsPromised
<1> QED
  BY <1>1, <1>2, TypeCorrect, OrderInvariant, PTL DEF Spec, ImplementsLifecycle, Lifecycle!Spec

=============================================================================

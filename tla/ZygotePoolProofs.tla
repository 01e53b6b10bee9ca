------------------------- MODULE ZygotePoolProofs -------------------------
(***************************************************************************)
(* For any number of jobs, keys and pool containers and every fault of the *)
(* model: the in-flight count of a parent is exact on every path, the idle *)
(* reaper therefore never takes a parent that is counted, and every pool   *)
(* container has somebody who will remove it.                              *)
(***************************************************************************)
EXTENDS ZygotePool, FiniteSetTheorems, TLAPS

Holders(p) == {j \in Jobs : my[j] = p /\ pc[j] \in Counted}

\* A job that is probing, launching, dropping or using a parent has one.
HasParent == {"probe", "launching", "reserve"} \cup Dropping \cup Counted
MyKnown   == \A j \in Jobs : pc[j] \in HasParent => my[j] \in Parents

\* pm.mu is held over the whole launch, and the map still lacks the key.
LaunchingAlone == \A j \in Jobs : pc[j] = "launching" => lock = j /\ parents[KeyOf[j]] = NoParent

\* close takes nothing out of an open pool, a living process leaves nothing, and a pool that is not open has
\* neither parents nor jobs that could launch one.
EndOfPool ==
  /\ pool = "open" => closing = {}
  /\ pool # "exited" => left = {}
  /\ pool # "open" => /\ \A j \in Jobs : pc[j] \in Over \cup {"new"}
                     /\ \A k \in Keys : parents[k] = NoParent

Typed   == TypeOK /\ MyKnown
PoolInv == Typed /\ InflightExact /\ LaunchingAlone /\ EndOfPool /\ EveryParentOwned

\* An empty pool satisfies the invariant.
LEMMA InitInv == Init => PoolInv
<1> SUFFICES ASSUME Init PROVE PoolInv
  OBVIOUS
<1> USE JobsAssumption, ParentAssumption DEF Init
<1>1. TypeOK
  BY DEF TypeOK, Steps
<1>2. MyKnown /\ LaunchingAlone
  BY DEF MyKnown, LaunchingAlone, HasParent, Dropping, Counted
<1>3. InflightExact
  <2> SUFFICES ASSUME NEW p \in Parents
               PROVE  inflight[p] = Cardinality({j \in Jobs : my[j] = p /\ pc[j] \in Counted})
    BY DEF InflightExact
  <2>1. {j \in Jobs : my[j] = p /\ pc[j] \in Counted} = {}
    BY DEF Counted
  <2> QED
    BY <2>1, FS_EmptySet
<1>4. EveryParentOwned
  BY DEF EveryParentOwned, Exists
<1> QED
  BY <1>1, <1>2, <1>3, <1>4 DEF PoolInv, Typed, EndOfPool

(***************************************************************************)
(* The in-flight count.                                                    *)
(***************************************************************************)

\* A parent that some job is counted in has a positive count.
LEMMA CountedIsPositive ==
  ASSUME Typed, InflightExact, NEW j \in Jobs, pc[j] \in Counted
  PROVE  inflight[my[j]] \in Nat \ {0}
<1>1. my[j] \in Parents
  BY DEF Typed, MyKnown, HasParent
<1>2. IsFiniteSet(Holders(my[j]))
  BY JobsAssumption, FS_Subset DEF Holders
<1>3. Holders(my[j]) # {}
  BY DEF Holders
<1>4. Cardinality(Holders(my[j])) \in Nat \ {0}
  BY <1>2, <1>3, FS_CardinalityType, FS_EmptySet
<1> QED
  BY <1>1, <1>4 DEF InflightExact, Holders

\* Steps that change neither the counts nor who is counted.
LEMMA SameHolders ==
  ASSUME InflightExact, UNCHANGED inflight,
         \A p \in Parents : Holders(p)' = Holders(p)
  PROVE  InflightExact'
BY DEF InflightExact, Holders

\* A job enters the count: dial reserves.
LEMMA ReserveCounts ==
  ASSUME Typed, InflightExact, NEW j \in Jobs, Reserve(j)
  PROVE  InflightExact'
<1> SUFFICES ASSUME NEW p \in Parents PROVE inflight'[p] = Cardinality(Holders(p)')
  BY DEF InflightExact, Holders
<1>1. IsFiniteSet(Holders(p)) /\ inflight[p] = Cardinality(Holders(p))
  BY JobsAssumption, FS_Subset DEF Holders, InflightExact
<1>2. CASE my[j] = p
  <2>1. Holders(p)' = Holders(p) \cup {j} /\ j \notin Holders(p)
    BY <1>2 DEF Reserve, Goto, Holders, Counted, Typed, TypeOK
  <2>2. inflight'[p] = inflight[p] + 1
    BY <1>2 DEF Reserve, Typed, TypeOK
  <2> QED
    BY <1>1, <2>1, <2>2, FS_AddElement
<1>3. CASE my[j] # p
  <2>1. Holders(p)' = Holders(p)
    BY <1>3 DEF Reserve, Goto, Holders, Counted, Typed, TypeOK
  <2>2. inflight'[p] = inflight[p]
    BY <1>3 DEF Reserve, Typed, TypeOK
  <2> QED
    BY <1>1, <2>1, <2>2
<1> QED
  BY <1>2, <1>3

\* A job leaves the count: a failed dial, a failed handshake, Cleanup.
LEMMA ReleaseCounts ==
  ASSUME Typed, InflightExact, NEW j \in Jobs, pc[j] \in Counted, Release(j),
         NEW to \in Steps \ Counted, pc' = [pc EXCEPT ![j] = to],
         my' = my \/ my' = [my EXCEPT ![j] = NoParent]
  PROVE  InflightExact'
<1> SUFFICES ASSUME NEW p \in Parents PROVE inflight'[p] = Cardinality(Holders(p)')
  BY DEF InflightExact, Holders
<1>1. IsFiniteSet(Holders(p)) /\ inflight[p] = Cardinality(Holders(p))
  BY JobsAssumption, FS_Subset DEF Holders, InflightExact
<1>2. CASE my[j] = p
  <2>1. Holders(p)' = Holders(p) \ {j} /\ j \in Holders(p)
    BY <1>2 DEF Holders, Typed, TypeOK
  <2>2. inflight'[p] = inflight[p] - 1
    BY <1>2 DEF Release, Typed, TypeOK
  <2> QED
    BY <1>1, <2>1, <2>2, FS_RemoveElement
<1>3. CASE my[j] # p
  <2>1. Holders(p)' = Holders(p)
    BY <1>3, ParentAssumption DEF Holders, Typed, TypeOK
  <2>2. inflight'[p] = inflight[p]
    BY <1>3 DEF Release, Typed, TypeOK
  <2> QED
    BY <1>1, <2>1, <2>2
<1> QED
  BY <1>2, <1>3

(***************************************************************************)
(* Types.                                                                  *)
(***************************************************************************)

\* The steps of a job, from Create to Cleanup, keep the types.
LEMMA CreateTyped ==
  ASSUME Typed, InflightExact, NEW j \in Jobs, Lookup(j) \/ CreateStep(j) \/ SessionEnds(j) \/ Cleanup(j)
  PROVE  Typed'
<1> USE JobsAssumption, ParentAssumption
        DEF Typed, TypeOK, MyKnown, HasParent, Steps, Over, Dropping, Counted, poolVars, endVars, Goto
<1>1. CASE Lookup(j)
  BY <1>1 DEF Lookup
<1>2. CASE ProbeOk(j) \/ ProbeFails(j)
  BY <1>2 DEF ProbeOk, ProbeFails
<1>3. CASE FindLaunched(j)
  BY <1>3 DEF FindLaunched
<1>4. CASE Launch(j)
  BY <1>4 DEF Launch
<1>5. CASE LaunchCancelled(j)
  BY <1>5 DEF LaunchCancelled
<1>6. CASE LaunchSucceeds(j)
  BY <1>6 DEF LaunchSucceeds
<1>7. CASE LaunchFails(j)
  BY <1>7 DEF LaunchFails
<1>8. CASE Drop(j)
  <2>1. ASSUME NEW from \in Dropping, NEW to \in Dropping, Unmap(j, from, to)
        PROVE  Typed'
    BY <2>1 DEF Unmap
  <2>2. ASSUME NEW from \in Dropping, NEW to \in {"launch", "fallback"}, Remove(j, from, to)
        PROVE  Typed'
    BY <2>2 DEF Remove, Removed, RemoveFails
  <2> QED
    BY <1>8, <2>1, <2>2 DEF Drop
<1>9. CASE Reserve(j)
  BY <1>9 DEF Reserve
<1>10. CASE DialSucceeds(j) \/ Started(j) \/ SessionEnds(j)
  BY <1>10 DEF DialSucceeds, Started, SessionEnds
<1>11. CASE FallBack(j)
  BY <1>11 DEF FallBack
<1>12. CASE DialFails(j) \/ HandshakeFails(j) \/ Cleanup(j)
  <2>1. my[j] \in Parents /\ inflight[my[j]] - 1 \in Nat
    BY <1>12, CountedIsPositive DEF DialFails, HandshakeFails, Cleanup
  <2>2. inflight' \in [Parents -> Nat] /\ idle' \in [Parents -> BOOLEAN]
    <3>1. Release(j)
      BY <1>12 DEF DialFails, HandshakeFails, Cleanup
    <3> QED
      BY <2>1, <3>1 DEF Release
  <2>3. CASE DialFails(j)
    BY <2>2, <2>3 DEF DialFails
  <2>4. CASE HandshakeFails(j)
    BY <2>2, <2>4 DEF HandshakeFails
  <2>5. CASE Cleanup(j)
    BY <2>2, <2>5 DEF Cleanup
  <2> QED
    BY <1>12, <2>3, <2>4, <2>5
<1> QED
  BY <1>1, <1>2, <1>3, <1>4, <1>5, <1>6, <1>7, <1>8, <1>9, <1>10, <1>11, <1>12 DEF CreateStep

\* So do the idle reaper, Close, the daemon and the clock.
LEMMA PoolTyped ==
  ASSUME Typed,
         \/ \E p \in Parents : Ages(p) \/ ReaperRemoves(p) \/ CloseRemoves(p) \/ Dies(p)
         \/ ReapIdle \/ Close \/ Exit \/ Deadline
  PROVE  Typed'
<1> USE ParentAssumption DEF Typed, TypeOK, MyKnown, poolVars, endVars
<1>1. ASSUME NEW p \in Parents, Ages(p) PROVE Typed'
  BY <1>1 DEF Ages
<1>2. ASSUME NEW p \in Parents, ReaperRemoves(p) PROVE Typed'
  BY <1>2 DEF ReaperRemoves, Removed, RemoveFails
<1>3. ASSUME NEW p \in Parents, CloseRemoves(p) PROVE Typed'
  BY <1>3 DEF CloseRemoves, Removed, RemoveFails
<1>4. ASSUME NEW p \in Parents, Dies(p) PROVE Typed'
  BY <1>4 DEF Dies
<1>5. CASE ReapIdle
  BY <1>5 DEF ReapIdle, Reapable, Mapped
<1>6. CASE Close
  BY <1>6 DEF Close, Mapped
<1>7. CASE Exit \/ Deadline
  BY <1>7 DEF Exit, Deadline
<1> QED
  BY <1>1, <1>2, <1>3, <1>4, <1>5, <1>6, <1>7

(***************************************************************************)
(* The mutex, and the end of the pool.                                     *)
(***************************************************************************)

\* pm.mu is held by the one job that launches a parent.
LEMMA LaunchAlone ==
  ASSUME Typed, LaunchingAlone, Next
  PROVE  LaunchingAlone'
<1> USE JobsAssumption, ParentAssumption DEF LaunchingAlone, Typed, TypeOK, Unlocked, poolVars, endVars, Goto
<1>1. ASSUME NEW j \in Jobs, Lookup(j) \/ CreateStep(j) \/ SessionEnds(j) \/ Cleanup(j)
      PROVE  LaunchingAlone'
  <2>1. CASE Launch(j) \/ LaunchSucceeds(j) \/ LaunchFails(j)
    BY <2>1 DEF Launch, LaunchSucceeds, LaunchFails
  <2>2. CASE Drop(j)
    <3>1. ASSUME NEW from, NEW to \in Dropping, Unmap(j, from, to) PROVE LaunchingAlone'
      BY <3>1 DEF Unmap, Dropping
    <3>2. ASSUME NEW from, NEW to \in {"launch", "fallback"}, Remove(j, from, to) PROVE LaunchingAlone'
      BY <3>2 DEF Remove
    <3> QED
      BY <2>2, <3>1, <3>2 DEF Drop, Dropping
  <2>3. CASE Lookup(j) \/ ProbeOk(j) \/ ProbeFails(j) \/ FindLaunched(j) \/ LaunchCancelled(j)
    BY <2>3 DEF Lookup, ProbeOk, ProbeFails, FindLaunched, LaunchCancelled
  <2>4. CASE \/ Reserve(j) \/ DialSucceeds(j) \/ DialFails(j) \/ Started(j) \/ HandshakeFails(j)
             \/ FallBack(j) \/ SessionEnds(j) \/ Cleanup(j)
    BY <2>4 DEF Reserve, DialSucceeds, DialFails, Started, HandshakeFails, FallBack, SessionEnds, Cleanup
  <2> QED
    BY <1>1, <2>1, <2>2, <2>3, <2>4 DEF CreateStep
<1>2. ASSUME NEW p \in Parents, Ages(p) \/ ReaperRemoves(p) \/ CloseRemoves(p) \/ Dies(p)
      PROVE  LaunchingAlone'
  BY <1>2 DEF Ages, ReaperRemoves, CloseRemoves, Dies
<1>3. CASE ReapIdle \/ Close \/ Exit \/ Deadline
  BY <1>3 DEF ReapIdle, Close, Exit, Deadline
<1> QED
  BY <1>1, <1>2, <1>3 DEF Next

\* close takes out what is in the map, when no job is left, and no job comes after it.
LEMMA EndStays ==
  ASSUME Typed, EndOfPool, Next
  PROVE  EndOfPool'
<1> USE ParentAssumption DEF EndOfPool, Typed, TypeOK, poolVars, endVars, Goto, Over
<1>1. ASSUME NEW j \in Jobs, Lookup(j) \/ CreateStep(j) \/ SessionEnds(j) \/ Cleanup(j)
      PROVE  EndOfPool'
  <2>1. UNCHANGED <<pool, closing, left>>
    BY <1>1 DEF Lookup, CreateStep, ProbeOk, ProbeFails, FindLaunched, Launch, LaunchCancelled, LaunchSucceeds,
                LaunchFails, Drop, Unmap, Remove, Reserve, DialSucceeds, DialFails, Started, HandshakeFails,
                FallBack, SessionEnds, Cleanup
  <2>2. pool = "open" \/ pc[j] \notin Over \cup {"new"}
    BY <1>1 DEF Lookup, CreateStep, ProbeOk, ProbeFails, FindLaunched, Launch, LaunchCancelled, LaunchSucceeds,
                LaunchFails, Drop, Unmap, Remove, Reserve, DialSucceeds, DialFails, Started, HandshakeFails,
                FallBack, SessionEnds, Cleanup
  <2> QED
    BY <2>1, <2>2
<1>2. ASSUME NEW p \in Parents, Ages(p) \/ ReaperRemoves(p) \/ CloseRemoves(p) \/ Dies(p)
      PROVE  EndOfPool'
  BY <1>2 DEF Ages, ReaperRemoves, CloseRemoves, Dies
<1>3. CASE ReapIdle
  BY <1>3 DEF ReapIdle
<1>4. CASE Close
  BY <1>4 DEF Close
<1>5. CASE Exit \/ Deadline
  BY <1>5 DEF Exit, Deadline
<1> QED
  BY <1>1, <1>2, <1>3, <1>4, <1>5 DEF Next

(***************************************************************************)
(* The count is exact.                                                     *)
(***************************************************************************)

\* Every step, and every failure of one, keeps the count exact.
LEMMA CountExact ==
  ASSUME Typed, InflightExact, Next
  PROVE  InflightExact'
<1> USE DEF poolVars, endVars, Goto
<1>1. ASSUME NEW j \in Jobs, Reserve(j) PROVE InflightExact'
  BY <1>1, ReserveCounts
<1>2. ASSUME NEW j \in Jobs, DialFails(j) \/ HandshakeFails(j) \/ Cleanup(j) PROVE InflightExact'
  <2>1. Release(j) /\ pc[j] \in Counted /\ (my' = my \/ my' = [my EXCEPT ![j] = NoParent])
    BY <1>2 DEF DialFails, HandshakeFails, Cleanup, Counted
  <2>2. \E to \in {"dropThenFail", "fallback", "ended"} : pc' = [pc EXCEPT ![j] = to]
    BY <1>2 DEF DialFails, HandshakeFails, Cleanup
  <2>3. {"dropThenFail", "fallback", "ended"} \subseteq Steps \ Counted
    BY DEF Steps, Dropping, Over, Counted
  <2> QED
    BY <2>1, <2>2, <2>3, ReleaseCounts
<1>3. ASSUME NEW j \in Jobs,
             \/ Lookup(j) \/ ProbeOk(j) \/ ProbeFails(j) \/ FindLaunched(j) \/ Launch(j) \/ LaunchCancelled(j)
             \/ LaunchSucceeds(j) \/ LaunchFails(j) \/ Drop(j) \/ DialSucceeds(j) \/ Started(j)
             \/ FallBack(j) \/ SessionEnds(j)
      PROVE  InflightExact'
  <2>1. UNCHANGED inflight
    BY <1>3 DEF Lookup, ProbeOk, ProbeFails, FindLaunched, Launch, LaunchCancelled, LaunchSucceeds, LaunchFails,
                Drop, Unmap, Remove, DialSucceeds, Started, FallBack, SessionEnds
  <2>2. ASSUME NEW p \in Parents PROVE Holders(p)' = Holders(p)
    <3> USE DEF Holders, Counted, Typed, TypeOK
    <3>1. CASE Lookup(j) \/ FindLaunched(j) \/ Launch(j) \/ FallBack(j)
      BY <3>1 DEF Lookup, FindLaunched, Launch, FallBack
    <3>2. CASE ProbeOk(j) \/ ProbeFails(j) \/ LaunchCancelled(j) \/ LaunchSucceeds(j) \/ LaunchFails(j)
      BY <3>2 DEF ProbeOk, ProbeFails, LaunchCancelled, LaunchSucceeds, LaunchFails
    <3>3. CASE Drop(j)
      BY <3>3 DEF Drop, Unmap, Remove
    <3>4. CASE DialSucceeds(j) \/ Started(j) \/ SessionEnds(j)
      BY <3>4 DEF DialSucceeds, Started, SessionEnds
    <3> QED
      BY <1>3, <3>1, <3>2, <3>3, <3>4
  <2> QED
    BY <2>1, <2>2, SameHolders
<1>4. ASSUME \/ \E p \in Parents : Ages(p) \/ ReaperRemoves(p) \/ CloseRemoves(p) \/ Dies(p)
             \/ ReapIdle \/ Close \/ Exit \/ Deadline
      PROVE  InflightExact'
  BY <1>4, SameHolders
     DEF Holders, Ages, ReaperRemoves, CloseRemoves, Dies, ReapIdle, Close, Exit, Deadline
<1> QED
  BY <1>1, <1>2, <1>3, <1>4 DEF Next, CreateStep

(***************************************************************************)
(* Nobody's container.                                                     *)
(***************************************************************************)

\* The goroutine j is on its way to the daemon for p, or launches p.
Responsible(j, p) == my[j] = p /\ pc[j] \in Dropping \cup {"launching"}

\* What the process holds, and what is left by name.
Held == (IF pool = "exited" THEN {} ELSE Mapped \cup reaping \cup closing) \cup stray \cup left

\* A step that does not touch the daemon, and takes no parent from anybody.
LEMMA StaysOwned ==
  ASSUME EveryParentOwned, UNCHANGED container,
         \A p \in Parents : p \in Held => p \in Held' \/ \E j \in Jobs : Responsible(j, p)',
         \A j \in Jobs : \A p \in Parents : Responsible(j, p) => Responsible(j, p)'
  PROVE  EveryParentOwned'
BY DEF EveryParentOwned, Exists, Responsible, Held

\* A parent a job takes out of the map is one it removes, or leaves with the daemon's error.
LEMMA JobKeepsOwned ==
  ASSUME Typed, LaunchingAlone, EndOfPool, EveryParentOwned,
         NEW j \in Jobs, Lookup(j) \/ CreateStep(j) \/ SessionEnds(j) \/ Cleanup(j)
  PROVE  EveryParentOwned'
<1> USE JobsAssumption, ParentAssumption DEF poolVars, endVars, Goto, Typed, TypeOK
<1>1. CASE Lookup(j) \/ ProbeOk(j) \/ ProbeFails(j) \/ FindLaunched(j) \/ LaunchCancelled(j)
  BY <1>1, StaysOwned
     DEF Held, Lookup, ProbeOk, ProbeFails, FindLaunched, LaunchCancelled, Mapped, Responsible, Dropping
<1>2. CASE \/ Reserve(j) \/ DialSucceeds(j) \/ DialFails(j) \/ Started(j) \/ HandshakeFails(j) \/ FallBack(j)
           \/ SessionEnds(j) \/ Cleanup(j)
  BY <1>2, StaysOwned
     DEF Held, Reserve, DialSucceeds, DialFails, Started, HandshakeFails, FallBack, SessionEnds, Cleanup, Mapped,
         Responsible, Dropping
<1>3. CASE Launch(j)
  BY <1>3 DEF Launch, EveryParentOwned, Exists, Mapped, Dropping
<1>4. CASE LaunchSucceeds(j)
  BY <1>4 DEF LaunchSucceeds, LaunchingAlone, EndOfPool, Over, EveryParentOwned, Exists, Mapped, Dropping, MyKnown, HasParent
<1>5. CASE LaunchFails(j)
  BY <1>5 DEF LaunchFails, EveryParentOwned, Exists, Mapped, Dropping, MyKnown, HasParent
<1>6. ASSUME NEW from \in Dropping, NEW to \in Dropping, Unmap(j, from, to) PROVE EveryParentOwned'
  BY <1>6, StaysOwned DEF Held, Unmap, Mapped, Responsible, MyKnown, HasParent, Dropping
<1>7. ASSUME NEW from \in Dropping, NEW to \in {"launch", "fallback"}, Remove(j, from, to)
      PROVE  EveryParentOwned'
  BY <1>7 DEF Remove, Removed, RemoveFails, EveryParentOwned, Exists, Mapped, MyKnown, HasParent, Dropping
<1>8. CASE Drop(j)
  BY <1>6, <1>7, <1>8 DEF Drop, Dropping
<1> QED
  BY <1>1, <1>2, <1>3, <1>4, <1>5, <1>8 DEF CreateStep

\* What reapIdle and close take out is in their own list.
LEMMA PoolKeepsOwned ==
  ASSUME Typed, EndOfPool, EveryParentOwned,
         \/ \E p \in Parents : Ages(p) \/ ReaperRemoves(p) \/ CloseRemoves(p) \/ Dies(p)
         \/ ReapIdle \/ Close \/ Exit \/ Deadline
  PROVE  EveryParentOwned'
<1> USE ParentAssumption DEF poolVars, endVars, Typed, TypeOK
<1>1. ASSUME NEW p \in Parents, ReaperRemoves(p) \/ CloseRemoves(p) PROVE EveryParentOwned'
  BY <1>1 DEF ReaperRemoves, CloseRemoves, Removed, RemoveFails, EveryParentOwned, Exists, Mapped
<1>2. ASSUME NEW p \in Parents, Ages(p) PROVE EveryParentOwned'
  BY <1>2, StaysOwned DEF Held, Ages, Mapped, Responsible
<1>3. ASSUME NEW p \in Parents, Dies(p) PROVE EveryParentOwned'
  BY <1>3 DEF Dies, EveryParentOwned, Exists, Mapped
<1>4. CASE ReapIdle
  BY <1>4, StaysOwned DEF Held, ReapIdle, Mapped, Responsible
<1>5. CASE Close
  BY <1>5, StaysOwned DEF Held, Close, EndOfPool, Mapped, Responsible
<1>6. CASE Deadline
  BY <1>6, StaysOwned DEF Held, Deadline, Mapped, Responsible
<1>7. CASE Exit
  <2>1. pool = "closing" /\ closing = {} /\ left' = reaping /\ UNCHANGED <<container, pc, my, stray>>
    BY <1>7 DEF Exit
  <2>2. Mapped = {}
    BY <2>1 DEF EndOfPool, Mapped
  <2>3. left = {}
    BY <2>1 DEF EndOfPool
  <2> HIDE DEF Typed, TypeOK
  <2> QED
    BY <2>1, <2>2, <2>3 DEF EveryParentOwned, Exists
<1> QED
  BY <1>1, <1>2, <1>3, <1>4, <1>5, <1>6, <1>7

(***************************************************************************)
(* The invariant, and what follows from it.                                *)
(***************************************************************************)

\* Every step keeps the invariant.
LEMMA StepInv == PoolInv /\ [Next]_vars => PoolInv'
<1> SUFFICES ASSUME PoolInv, [Next]_vars PROVE PoolInv'
  OBVIOUS
<1>1. CASE Next
  <2>1. Typed'
    BY <1>1, CreateTyped, PoolTyped DEF PoolInv, Next
  <2>2. InflightExact'
    BY <1>1, CountExact DEF PoolInv
  <2>3. LaunchingAlone' /\ EndOfPool'
    BY <1>1, LaunchAlone, EndStays DEF PoolInv
  <2>4. EveryParentOwned'
    BY <1>1, JobKeepsOwned, PoolKeepsOwned DEF PoolInv, Next
  <2> QED
    BY <2>1, <2>2, <2>3, <2>4 DEF PoolInv
<1>2. CASE UNCHANGED vars
  BY <1>2 DEF vars, poolVars, endVars, PoolInv, Typed, TypeOK, MyKnown, InflightExact, LaunchingAlone,
              EndOfPool, EveryParentOwned, Exists, Mapped
<1> QED
  BY <1>1, <1>2

\* The invariant holds throughout.
LEMMA Invariance == Spec => []PoolInv
BY InitInv, StepInv, PTL DEF Spec

\* Every variable of the pool keeps its type.
THEOREM TypeCorrect == Spec => []TypeOK
<1>1. PoolInv => TypeOK
  BY DEF PoolInv, Typed
<1> QED
  BY <1>1, Invariance, PTL

\* The reservation of zygote_relay.go is given back once on each of its paths:
\* the count of a parent is the number of jobs that hold it.
THEOREM InflightIsExact == Spec => []InflightExact
<1>1. PoolInv => InflightExact
  BY DEF PoolInv
<1> QED
  BY <1>1, Invariance, PTL

\* No pool container is left that nobody will ask the daemon to remove.
THEOREM ParentsOwned == Spec => []EveryParentOwned
<1>1. PoolInv => EveryParentOwned
  BY DEF PoolInv
<1> QED
  BY <1>1, Invariance, PTL

\* An exact count of zero means that no job is counted in: the idle reaper
\* condemns no parent in use.
THEOREM ReaperSpares == Spec => ReapSparesCounted
<1> DEFINE Spares == \A p \in reaping' \ reaping : \A j \in Jobs : my[j] = p => pc[j] \notin Counted
<1>1. PoolInv /\ [Next]_vars => [Spares]_vars
  <2> SUFFICES ASSUME PoolInv, Next, NEW p \in reaping' \ reaping, NEW j \in Jobs, my[j] = p
               PROVE  pc[j] \notin Counted
    BY DEF PoolInv
  <2>1. ReapIdle
    BY DEF Next, CreateStep, Lookup, ProbeOk, ProbeFails, FindLaunched, Launch, LaunchCancelled, LaunchSucceeds,
           LaunchFails, Drop, Unmap, Remove, Reserve, DialSucceeds, DialFails, Started, HandshakeFails, FallBack,
           SessionEnds, Cleanup, Ages, ReaperRemoves, CloseRemoves, Dies, Close, Exit, Deadline, poolVars, endVars
  <2>2. p \in Parents /\ inflight[p] = 0
    BY <2>1 DEF ReapIdle, Reapable, Mapped
  <2> QED
    BY <2>2, CountedIsPositive DEF PoolInv
<1> QED
  BY <1>1, Invariance, PTL DEF Spec, ReapSparesCounted

===========================================================================

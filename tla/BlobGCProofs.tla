---------------------------- MODULE BlobGCProofs ----------------------------
(***************************************************************************)
(* For any number of blobs, jobs and replicas: types, one sweep at a time  *)
(* while no sweep outlasts its lock, no lease left by a job that ended     *)
(* while Redis answers, and, whatever fails, no sweep that removes a blob  *)
(* leased since before it began.                                           *)
(***************************************************************************)
EXTENDS BlobGCHeld, SequenceTheorems, TLAPS

\* The preconditions of OneSweepAtATime and NoLeaseLeft.
SweepsAreShort == "slowSweep" \notin Faults
RedisAnswers   == "redis" \notin Faults

(***************************************************************************)
(* Types.                                                                  *)
(***************************************************************************)

\* The initial states are well typed.
LEMMA InitTyped == Init => TypeOK
<1> SUFFICES ASSUME Init PROVE TypeOK
  OBVIOUS
<1> USE BlobsAssumption, RefsAssumption DEF Init
<1>1. sweep \in [Sweepers -> Sweep] /\ \A s \in Sweepers : sweep[s].at = "idle"
  BY DEF Sweep, SweepAt, Idle
<1>2. \A j \in Jobs : pos[j] \in DOMAIN Refs[j]
  <2> SUFFICES ASSUME NEW j \in Jobs PROVE 1 \in DOMAIN Refs[j]
    OBVIOUS
  <2> QED
    BY LenProperties, EmptySeq
<1>3. pc \in [Jobs -> JobPc] /\ outcome \in [Jobs -> Outcome] /\ candidates \in [Hashes -> Age]
  BY DEF JobPc, OfClient, OfWorker, Outcome, Age
<1> QED
  BY <1>1, <1>2, <1>3 DEF TypeOK

\* The ref a job is at.
LEMMA RefIsHash ==
  ASSUME TypeOK, NEW j \in Jobs
  PROVE  Ref(j) \in Hashes
BY RefsAssumption, LenProperties DEF TypeOK, Ref

\* To the next ref, or back to the first one.
LEMMA OnwardTyped ==
  ASSUME TypeOK, NEW j \in Jobs, NEW again \in JobPc, NEW then \in JobPc, Onward(j, again, then)
  PROVE  /\ pc' \in [Jobs -> JobPc] /\ pos' \in [Jobs -> Nat]
         /\ \A i \in Jobs : pos'[i] \in DOMAIN Refs[i]
<1>1. Refs[j] \in Seq(Hashes) /\ Len(Refs[j]) \in Nat \ {0} /\ DOMAIN Refs[j] = 1 .. Len(Refs[j])
  BY RefsAssumption, LenProperties, EmptySeq
<1>2. pos[j] \in 1 .. Len(Refs[j])
  BY <1>1 DEF TypeOK
<1>3. CASE pos[j] < Len(Refs[j])
  <2>1. pos' = [pos EXCEPT ![j] = @ + 1] /\ pc' = [pc EXCEPT ![j] = again]
    BY <1>3 DEF Onward
  <2>2. pos[j] + 1 \in 1 .. Len(Refs[j])
    BY <1>1, <1>2, <1>3
  <2> QED
    BY <1>1, <2>1, <2>2 DEF TypeOK
<1>4. CASE ~(pos[j] < Len(Refs[j]))
  <2>1. pos' = [pos EXCEPT ![j] = 1] /\ pc' = [pc EXCEPT ![j] = then]
    BY <1>4 DEF Onward
  <2> QED
    BY <1>1, <2>1 DEF TypeOK
<1> QED
  BY <1>3, <1>4

\* An SDK that checks, uploads and finalizes keeps the types.
LEMMA ClientTyped ==
  ASSUME TypeOK, NEW j \in Jobs, ClientStep(j)
  PROVE  TypeOK'
<1>0. Ref(j) \in Hashes
  BY RefIsHash
<1> USE DEF redisVars, bytes
<1>1. CASE CheckTouch(j) \/ Finalize(j) \/ Reuse(j)
  <2>1. Onward(j, "client", "lease") /\ "client" \in JobPc /\ "lease" \in JobPc
    BY <1>1 DEF CheckTouch, Finalize, Reuse, JobPc, OfClient, OfWorker
  <2>2. /\ pc' \in [Jobs -> JobPc] /\ pos' \in [Jobs -> Nat]
        /\ \A i \in Jobs : pos'[i] \in DOMAIN Refs[i]
    BY <2>1, OnwardTyped
  <2> QED
    BY <1>0, <1>1, <2>2 DEF CheckTouch, Finalize, Reuse, Touch, TypeOK, Hash
<1>2. CASE CheckExists(j) \/ Put(j) \/ GiveUp(j)
  BY <1>0, <1>2 DEF CheckExists, Put, GiveUp, Goto, TypeOK, JobPc, OfClient, Hash
<1> QED
  BY <1>1, <1>2 DEF ClientStep

\* So does a worker that leases, pulls and releases.
LEMMA WorkerTyped ==
  ASSUME TypeOK, NEW j \in Jobs, WorkerStep(j)
  PROVE  TypeOK'
<1>0. Ref(j) \in Hashes
  BY RefIsHash
<1> USE DEF redisVars, bytes, Goto, Fail, JobPc, OfClient, OfWorker, Outcome, Hash
<1>1. CASE LeaseAdd(j)
  BY <1>0, <1>1 DEF LeaseAdd, TypeOK
<1>2. CASE LeaseTouch(j)
  BY <1>0, <1>2 DEF LeaseTouch, Touch, TypeOK
<1>3. CASE PullAndVerify(j)
  BY <1>3 DEF PullAndVerify, TypeOK
<1>4. CASE TouchSize(j)
  <2>1. Onward(j, "lease", "running") /\ "lease" \in JobPc /\ "running" \in JobPc
    BY <1>4 DEF TouchSize
  <2>2. /\ pc' \in [Jobs -> JobPc] /\ pos' \in [Jobs -> Nat]
        /\ \A i \in Jobs : pos'[i] \in DOMAIN Refs[i]
    BY <2>1, OnwardTyped
  <2>3. meta' \in SUBSET Hashes /\ index' \in SUBSET Hashes
    BY <1>0, <1>4 DEF TouchSize, Touch, TypeOK
  <2>4. UNCHANGED <<bytes, lease, candidates, lock, sweep, leased, outcome>>
    BY <1>4 DEF TouchSize
  <2> QED
    BY <2>2, <2>3, <2>4 DEF TypeOK
<1>5. CASE RunEnds(j) \/ Released(j) \/ Lost(j)
  BY <1>5 DEF RunEnds, Released, Lost, TypeOK
<1>6. ASSUME NEW h \in Hashes, Release(j, h) PROVE TypeOK'
  <2>1. lease' \in [Hashes -> SUBSET Jobs] /\ leased' \in [Jobs -> SUBSET Hashes]
    BY <1>6 DEF Release, TypeOK
  <2>2. UNCHANGED <<bytes, meta, index, candidates, lock, sweep, pc, pos, outcome>>
    BY <1>6 DEF Release
  <2> QED
    BY <2>1, <2>2 DEF TypeOK
<1> QED
  BY <1>1, <1>2, <1>3, <1>4, <1>5, <1>6 DEF WorkerStep

\* So does time.
LEMMA TimeTyped ==
  ASSUME TypeOK, Time
  PROVE  TypeOK'
BY DEF Time, MetaExpires, Ages, LockExpires, TypeOK, bytes, jobVars, Hash, Age

\* A replica that is at a blob has one.
HasHash(r) == r.at \notin {"idle", "list", "next", "unlock", "stopped"} => r.hash \in Hashes

\* So does every command of a sweep.
LEMMA SweepTyped ==
  ASSUME TypeOK, NEW s \in Sweepers, Sweeping(s)
  PROVE  TypeOK'
<1> USE BlobsAssumption DEF redisVars, bytes, jobVars, At, NextHash, From, Hash
<1>1. \E r \in Sweep : HasHash(r) /\ sweep' = [sweep EXCEPT ![s] = r]
  <2>0. sweep[s] \in Sweep /\ HasHash(sweep[s]) /\ sweep \in [Sweepers -> Sweep]
    BY DEF TypeOK, HasHash
  <2> DEFINE new == sweep'[s]
  <2>1. sweep' = [sweep EXCEPT ![s] = new]
    BY <2>0 DEF Sweeping, Collects, Acquire, List, CheckMeta, CheckLease, DropCandidate, Score, AddCandidate,
                Remove, RemoveFails, ScrubIndex, ScrubCandidate, ScrubLease, ScrubMeta, NoneLeft, Unlock, Stop
  <2>2. new \in Sweep /\ HasHash(new)
    <3> USE <2>0 DEF Sweep, SweepAt, Idle, HasHash
    <3>1. CASE Acquire(s) \/ List(s)
      BY <3>1 DEF Acquire, List, TypeOK
    <3>2. ASSUME NEW h \in Hashes, CheckMeta(s, h) PROVE new \in Sweep /\ HasHash(new)
      BY <3>2 DEF CheckMeta
    <3>3. CASE CheckLease(s) \/ Score(s)
      BY <3>3 DEF CheckLease, Score
    <3>4. CASE DropCandidate(s) \/ AddCandidate(s) \/ RemoveFails(s) \/ ScrubMeta(s)
      BY <3>4 DEF DropCandidate, AddCandidate, RemoveFails, ScrubMeta
    <3>5. CASE Remove(s) \/ ScrubIndex(s)
      BY <3>5 DEF Remove, ScrubIndex
    <3>6. CASE ScrubCandidate(s) \/ ScrubLease(s)
      BY <3>6 DEF ScrubCandidate, ScrubLease
    <3>7. CASE NoneLeft(s)
      BY <3>7 DEF NoneLeft
    <3>8. CASE Unlock(s)
      BY <3>8 DEF Unlock
    <3>9. CASE Stop(s)
      <4>1. new = [at |-> "stopped", todo |-> {}, due |-> {}, hash |-> NoHash]
        BY <3>9 DEF Stop
      <4> QED
        BY <4>1
    <3> QED
      BY <3>1, <3>2, <3>3, <3>4, <3>5, <3>6, <3>7, <3>8, <3>9 DEF Sweeping, Collects
  <2> QED
    BY <2>1, <2>2
<1>2. /\ sweep' \in [Sweepers -> Sweep]
      /\ \A t \in Sweepers : HasHash(sweep'[t])
  BY <1>1 DEF TypeOK, HasHash
<1>3. /\ objects' \in SUBSET Hashes /\ meta' \in SUBSET Hashes /\ index' \in SUBSET Hashes
      /\ lease' \in [Hashes -> SUBSET Jobs] /\ lock' \in BOOLEAN
  BY DEF TypeOK, Sweeping, Collects, Acquire, List, CheckMeta, CheckLease, DropCandidate, Score, AddCandidate,
         Remove, RemoveFails, ScrubIndex, ScrubCandidate, ScrubLease, ScrubMeta, NoneLeft, Unlock, Stop
<1>4. candidates' \in [Hashes -> Age]
  BY DEF TypeOK, Age, Sweeping, Collects, Acquire, List, CheckMeta, CheckLease, DropCandidate, Score, AddCandidate,
         Remove, RemoveFails, ScrubIndex, ScrubCandidate, ScrubLease, ScrubMeta, NoneLeft, Unlock, Stop
<1>5. UNCHANGED <<pc, pos, leased, outcome, wiped>>
  BY DEF Sweeping, Collects, Acquire, List, CheckMeta, CheckLease, DropCandidate, Score, AddCandidate,
         Remove, RemoveFails, ScrubIndex, ScrubCandidate, ScrubLease, ScrubMeta, NoneLeft, Unlock, Stop
<1> QED
  BY <1>2, <1>3, <1>4, <1>5 DEF TypeOK, HasHash

\* Every step keeps the types.
LEMMA TypeStep == TypeOK /\ [Next]_vars => TypeOK'
<1>1. TypeOK /\ UNCHANGED vars => TypeOK'
  BY DEF TypeOK, vars, redisVars, bytes, jobVars, Hash
<1> QED
  BY <1>1, ClientTyped, WorkerTyped, TimeTyped, SweepTyped DEF Next

\* Every variable of the collector, the uploaders and the workers keeps its
\* type, whatever fails; in particular every step of a sweep has a blob.
THEOREM TypeCorrect == Spec => []TypeOK
BY InitTyped, TypeStep, PTL DEF Spec

(***************************************************************************)
(* One sweep at a time.                                                    *)
(***************************************************************************)

\* A sweep under way holds the lock.
LockHeld == \A s \in Sweepers : Running(s) => lock

LockInv == LockHeld /\ OneSweep

\* A replica sweeps only while the lock is its own.
LEMMA SweepKeepsLock ==
  ASSUME TypeOK, LockInv, NEW s \in Sweepers, Sweeping(s)
  PROVE  LockInv'
<1> USE DEF LockInv, LockHeld, OneSweep, Running, At, NextHash, From, redisVars, bytes, jobVars, TypeOK
<1>1. CASE Acquire(s)
  BY <1>1 DEF Acquire
<1>2. CASE Unlock(s)
  <2>1. Running(s) /\ \A r \in Sweepers \ {s} : ~Running(r) /\ ~Running(r)'
    BY <1>2 DEF Unlock
  <2>2. ~Running(s)'
    BY <1>2 DEF Unlock, Idle
  <2> QED
    BY <2>1, <2>2
<1>3. CASE Stop(s)
  <2>1. lock' = lock /\ ~Running(s)' /\ \A r \in Sweepers \ {s} : Running(r)' => Running(r)
    BY <1>3 DEF Stop, Idle
  <2> QED
    BY <2>1
<1>4. ASSUME lock' = lock, Running(s), \A r \in Sweepers \ {s} : Running(r)' => Running(r)
      PROVE  LockInv'
  BY <1>4
<1>5. CASE Collects(s) /\ ~Unlock(s)
  <2>1. lock' = lock /\ Running(s)
    BY <1>5 DEF Collects, List, CheckMeta, CheckLease, DropCandidate, Score, AddCandidate, Remove, RemoveFails,
                ScrubIndex, ScrubCandidate, ScrubLease, ScrubMeta, NoneLeft
  <2>2. \A r \in Sweepers \ {s} : sweep'[r] = sweep[r]
    BY <1>5 DEF Collects, List, CheckMeta, CheckLease, DropCandidate, Score, AddCandidate, Remove, RemoveFails,
                ScrubIndex, ScrubCandidate, ScrubLease, ScrubMeta, NoneLeft
  <2> QED
    BY <1>4, <2>1, <2>2
<1> QED
  BY <1>1, <1>2, <1>3, <1>5 DEF Sweeping

\* "Exactly one worker replica runs a sweep at a time" (gc.go:25): the lock
\* is exclusive as long as no sweep takes longer than its TTL.
THEOREM OneSweepAtATime ==
  ASSUME SweepsAreShort
  PROVE  Spec => []OneSweep
<1>1. Init => LockInv
  BY DEF Init, LockInv, LockHeld, OneSweep, Running, Idle
<1>2. ASSUME TypeOK, LockInv, [Next]_vars PROVE LockInv'
  <2>1. CASE UNCHANGED vars
    BY <1>2, <2>1 DEF vars, redisVars, bytes, LockInv, LockHeld, OneSweep, Running
  <2>2. ASSUME NEW j \in Jobs, ClientStep(j) \/ WorkerStep(j) PROVE UNCHANGED <<sweep, lock>>
    BY <2>2 DEF ClientStep, WorkerStep, CheckExists, CheckTouch, Put, Finalize, Reuse, GiveUp, LeaseAdd,
                LeaseTouch, PullAndVerify, TouchSize, RunEnds, Release, Released, Lost, redisVars, bytes
  <2>3. CASE UNCHANGED <<sweep, lock>>
    BY <1>2, <2>3 DEF LockInv, LockHeld, OneSweep, Running
  <2>4. CASE Time
    <3>1. sweep' = sweep /\ (lock' = lock \/ \A s \in Sweepers : ~Running(s))
      BY <2>4, SweepsAreShort DEF Time, MetaExpires, Ages, LockExpires, SweepsAreShort
    <3> QED
      BY <1>2, <3>1 DEF LockInv, LockHeld, OneSweep, Running
  <2> QED
    BY <1>2, <2>1, <2>2, <2>3, <2>4, SweepKeepsLock DEF Next
<1>3. LockInv => OneSweep
  BY DEF LockInv
<1> QED
  BY <1>1, <1>2, <1>3, TypeCorrect, PTL DEF Spec

(***************************************************************************)
(* Leases of ended jobs.                                                   *)
(***************************************************************************)

\* Whoever holds a lease knows it, is about to, or has lost its worker.
LeaseKnown ==
  \A j \in Jobs, h \in Hashes :
    j \in lease[h] => \/ h \in leased[j] /\ pc[j] # "finished"
                      \/ pc[j] = "leaseTouch" /\ Ref(j) = h
                      \/ pc[j] = "lost"

\* Every lease of a job is one its goroutine will release, or that died with it.
LEMMA LeaseStep ==
  ASSUME RedisAnswers, TypeOK, LeaseKnown, [Next]_vars
  PROVE  LeaseKnown'
<1> USE DEF LeaseKnown, TypeOK, Goto, redisVars, bytes, jobVars
<1>1. ASSUME NEW j \in Jobs, ClientStep(j) PROVE LeaseKnown'
  <2>1. UNCHANGED <<lease, leased>> /\ pc[j] \in OfClient /\ pc'[j] # "finished"
    BY <1>1 DEF ClientStep, CheckExists, CheckTouch, Put, Finalize, Reuse, GiveUp, OfClient, Onward
  <2>2. \A i \in Jobs \ {j} : pc'[i] = pc[i] /\ pos'[i] = pos[i]
    BY <1>1 DEF ClientStep, CheckExists, CheckTouch, Put, Finalize, Reuse, GiveUp, Onward
  <2> QED
    BY <2>1, <2>2 DEF OfClient, Ref
<1>2. ASSUME NEW j \in Jobs, LeaseAdd(j) \/ LeaseTouch(j) PROVE LeaseKnown'
  <2>1. \A i \in Jobs \ {j} : pc'[i] = pc[i] /\ pos'[i] = pos[i] /\ leased'[i] = leased[i]
    BY <1>2 DEF LeaseAdd, LeaseTouch, Fail
  <2>2. Ref(j) \in Hashes /\ pos' = pos
    BY <1>2, RefIsHash DEF LeaseAdd, LeaseTouch, Fail
  <2>3. CASE LeaseAdd(j)
    <3>1. CASE lease' = [lease EXCEPT ![Ref(j)] = @ \cup {j}] /\ pc' = [pc EXCEPT ![j] = "leaseTouch"]
      BY <2>1, <2>2, <2>3, <3>1 DEF LeaseAdd, Ref
    <3>2. CASE lease' = lease /\ pc' = [pc EXCEPT ![j] = "release"]
      BY <2>1, <2>2, <2>3, <3>2 DEF LeaseAdd, Ref
    <3> QED
      BY <2>3, <3>1, <3>2 DEF LeaseAdd, Fail
  <2>4. CASE LeaseTouch(j)
    BY <2>1, <2>2, <2>4, RedisAnswers DEF LeaseTouch, RedisAnswers, Ref
  <2> QED
    BY <1>2, <2>3, <2>4
<1>3. ASSUME NEW j \in Jobs, PullAndVerify(j) \/ TouchSize(j) \/ RunEnds(j) \/ Lost(j) PROVE LeaseKnown'
  <2>1. UNCHANGED <<lease, leased>> /\ (pc[j] # "leaseTouch" \/ pc'[j] = "lost")
    BY <1>3 DEF PullAndVerify, TouchSize, RunEnds, Lost
  <2>2. /\ \A i \in Jobs \ {j} : pc'[i] = pc[i] /\ pos'[i] = pos[i]
        /\ pc'[j] # "finished" /\ (pc[j] = "lost" => pc'[j] = "lost")
    BY <1>3 DEF PullAndVerify, TouchSize, RunEnds, Lost, Fail, Onward, OfWorker
  <2> QED
    BY <2>1, <2>2 DEF Ref
<1>4. ASSUME NEW j \in Jobs, NEW h \in Hashes, Release(j, h) PROVE LeaseKnown'
  <2>1. /\ lease' = [lease EXCEPT ![h] = @ \ {j}] /\ leased' = [leased EXCEPT ![j] = @ \ {h}]
        /\ UNCHANGED <<pc, pos>>
    BY <1>4, RedisAnswers DEF Release, RedisAnswers, Ok
  <2> QED
    BY <2>1 DEF Ref
<1>5. ASSUME NEW j \in Jobs, Released(j) PROVE LeaseKnown'
  BY <1>5 DEF Released, Ref
<1>6. CASE Time
  BY <1>6 DEF Time, MetaExpires, Ages, LockExpires, Ref
<1>7. ASSUME NEW s \in Sweepers, Sweeping(s) PROVE LeaseKnown'
  <2>1. \A h \in Hashes : lease'[h] \subseteq lease[h]
    BY <1>7 DEF Sweeping, Collects, Acquire, List, CheckMeta, CheckLease, DropCandidate, Score, AddCandidate,
                Remove, RemoveFails, ScrubIndex, ScrubCandidate, ScrubLease, ScrubMeta, NoneLeft, Unlock, Stop
  <2>2. UNCHANGED <<pc, pos, leased>>
    BY <1>7 DEF Sweeping, Collects, Acquire, List, CheckMeta, CheckLease, DropCandidate, Score, AddCandidate,
                Remove, RemoveFails, ScrubIndex, ScrubCandidate, ScrubLease, ScrubMeta, NoneLeft, Unlock, Stop
  <2> QED
    BY <2>1, <2>2 DEF Ref
<1>8. CASE UNCHANGED vars
  BY <1>8 DEF vars, Ref
<1> QED
  BY <1>1, <1>2, <1>3, <1>4, <1>5, <1>6, <1>7, <1>8 DEF Next, WorkerStep

\* resolveBlobRefs reports what it has leased on its error paths too, and
\* releaseLeases gives all of it back (blobs.go:72, worker.go:715).
THEOREM NoLeaseLeft ==
  ASSUME RedisAnswers
  PROVE  Spec => []LeasesReleased
<1>1. Init => LeaseKnown
  BY DEF Init, LeaseKnown
<1>2. ASSUME TypeOK, LeaseKnown, [Next]_vars PROVE LeaseKnown'
  BY <1>2, RedisAnswers, LeaseStep
<1>3. LeaseKnown => LeasesReleased
  BY DEF LeaseKnown, LeasesReleased
<1> QED
  BY <1>1, <1>2, <1>3, TypeCorrect, PTL DEF Spec

(***************************************************************************)
(* A lease older than the sweep.                                           *)
(***************************************************************************)

\* Past SCARD, the blob of a sweep has been unleased at some moment of it.
SeenUnleased ==
  \A s \in Sweepers : sweep[s].at \in {"score", "remove"} => Hash(s) \notin heldSince[s]

\* A blob that passed SCARD was not leased ever since the sweep read the index.
LEMMA SeenStep ==
  ASSUME TypeOK, heldSince \in [Sweepers -> SUBSET Hashes], SeenUnleased, HeldNext
  PROVE  SeenUnleased' /\ heldSince' \in [Sweepers -> SUBSET Hashes]
<1> SUFFICES ASSUME NEW s \in Sweepers, sweep'[s].at \in {"score", "remove"}
             PROVE  Hash(s)' \notin heldSince'[s]
  BY DEF SeenUnleased, HeldNext
<1>1. heldSince'[s] = {h \in Hashes : /\ Leased(h)'
                                      /\ IF sweep[s].at = "list" THEN Leased(h) ELSE h \in heldSince[s]}
  BY DEF HeldNext
<1> USE DEF TypeOK, Hash, At, NextHash, From, redisVars, bytes, jobVars
<1>2. CASE sweep'[s] = sweep[s]
  BY <1>1, <1>2 DEF SeenUnleased
<1>3. CASE CheckLease(s)
  <2>1. lease[Hash(s)] = {} /\ lease' = lease /\ Hash(s)' = Hash(s)
    BY <1>3 DEF CheckLease, Sweep
  <2> QED
    BY <1>1, <2>1 DEF Leased
<1>4. CASE Score(s)
  <2>1. sweep[s].at = "score" /\ Hash(s)' = Hash(s)
    BY <1>4 DEF Score, Sweep
  <2> QED
    BY <1>1, <2>1 DEF SeenUnleased
<1>5. CASE Sweeping(s) /\ ~CheckLease(s) /\ ~Score(s)
  <2> SUFFICES sweep'[s].at \notin {"score", "remove"}
    OBVIOUS
  <2>0. sweep[s] \in Sweep /\ sweep \in [Sweepers -> Sweep]
    OBVIOUS
  <2> USE <2>0 DEF Sweep
  <2>1. CASE Acquire(s) \/ List(s)
    BY <2>1 DEF Acquire, List
  <2>2. ASSUME NEW h \in Hashes, CheckMeta(s, h) PROVE sweep'[s].at \in {"next", "live", "lease"}
    BY <2>2 DEF CheckMeta
  <2>3. CASE DropCandidate(s) \/ AddCandidate(s) \/ Remove(s) \/ RemoveFails(s)
    BY <2>3 DEF DropCandidate, AddCandidate, Remove, RemoveFails
  <2>4. CASE ScrubIndex(s) \/ ScrubCandidate(s) \/ ScrubLease(s) \/ ScrubMeta(s) \/ NoneLeft(s)
    BY <2>4 DEF ScrubIndex, ScrubCandidate, ScrubLease, ScrubMeta, NoneLeft
  <2>5. CASE Unlock(s)
    BY <2>5 DEF Unlock, Idle
  <2>6. CASE Stop(s)
    BY <2>6 DEF Stop, Idle
  <2> QED
    BY <1>5, <2>1, <2>3, <2>4, <2>5, <2>6, <2>2 DEF Sweeping, Collects
<1>6. ASSUME NEW r \in Sweepers \ {s}, Sweeping(r) PROVE sweep'[s] = sweep[s]
  BY <1>6 DEF Sweeping, Collects, Acquire, List, CheckMeta, CheckLease, DropCandidate, Score, AddCandidate, Remove,
              RemoveFails, ScrubIndex, ScrubCandidate, ScrubLease, ScrubMeta, NoneLeft, Unlock, Stop
<1>7. ASSUME NEW j \in Jobs, ClientStep(j) \/ WorkerStep(j) PROVE sweep' = sweep
  BY <1>7 DEF ClientStep, WorkerStep, CheckExists, CheckTouch, Put, Finalize, Reuse, GiveUp, LeaseAdd,
              LeaseTouch, PullAndVerify, TouchSize, RunEnds, Release, Released, Lost
<1>8. CASE Time
  BY <1>2, <1>8 DEF Time, MetaExpires, Ages, LockExpires
<1> QED
  BY <1>2, <1>3, <1>4, <1>5, <1>6, <1>7, <1>8 DEF HeldNext, Next

\* Whatever fails, expires or overlaps, no sweep removes a blob that has been
\* leased since it read the index: SCARD lies in between (gc.go:92, 108, 136).
THEOREM OldLeasesPin == HeldSpec => PinnedFromStart
<1> DEFINE Held == heldSince \in [Sweepers -> SUBSET Hashes]
           Pinned == \A s \in Sweepers : From(s, "remove") /\ sweep'[s].at = "scrubIndex"
                                           => Hash(s) \notin heldSince[s]
<1>1. HeldInit => TypeOK /\ Held /\ SeenUnleased
  BY InitTyped DEF HeldInit, Init, SeenUnleased, Idle
<1>2. TypeOK /\ Held /\ SeenUnleased /\ [HeldNext]_heldVars => (TypeOK /\ Held /\ SeenUnleased)'
  <2>1. CASE HeldNext
    BY <2>1, TypeStep, SeenStep DEF HeldNext
  <2>2. CASE UNCHANGED heldVars
    BY <2>2, TypeStep DEF heldVars, vars, SeenUnleased, Hash
  <2> QED
    BY <2>1, <2>2
<1>3. SeenUnleased => [Pinned]_heldVars
  BY DEF SeenUnleased, From
<1> QED
  BY <1>1, <1>2, <1>3, PTL DEF HeldSpec, PinnedFromStart

=============================================================================

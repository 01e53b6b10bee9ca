---------------------------- MODULE ZygotePool ----------------------------
(***************************************************************************)
(* The pool of warm parents of one worker process                          *)
(* (internal/runner/zygote_pool.go) as the job goroutines use it through   *)
(* ZygoteRunner.Create and Cleanup (zygote.go) behind the tiered runner    *)
(* (tiered.go), with its idle reaper and its Close.  pm.mu is held while a *)
(* parent is launched; every other critical section is one action.         *)
(***************************************************************************)
EXTENDS Naturals, FiniteSets

CONSTANTS
  Keys,     \* (language, version) pairs
  Jobs,     \* jobs routed to the zygote tier
  KeyOf,    \* the key of each job
  Parents,  \* pool containers; a job launches at most one
  Faults,   \* the adverse events a behaviour may contain
  NoParent, NoJob

\* "probe": a dial of a reachable agent times out; "crash": a pool container
\* dies; "hang": its agent accepts connections and never answers; "agent": it
\* answers EXIT for STARTED; "docker": a request to the daemon fails;
\* "deadline": the drain deadline cancels jobsCtx.
FaultKinds == {"probe", "crash", "hang", "agent", "docker", "deadline"}

ASSUME JobsAssumption   == IsFiniteSet(Jobs) /\ KeyOf \in [Jobs -> Keys] /\ NoJob \notin Jobs
ASSUME ParentAssumption == NoParent \notin Parents
ASSUME FaultsAssumption == Faults \subseteq FaultKinds

VARIABLES
  parents,    \* pm.parents
  lock,       \* the job that launches a parent under pm.mu
  container,  \* the pool container of each parent, as the daemon knows it
  inflight,   \* poolParent.inflight
  idle,       \* lastUsed is at least ZygotePoolIdleMs ago
  reaping,    \* toReap of a reapIdle under way, still to be removed
  closing,    \* the parents close took out, still to be removed
  pool,       \* "open", "closing", or "exited" with its process
  cancelled,  \* jobsCtx, the context of every Create
  pc,         \* where the job's Create, session and Cleanup stand
  my,         \* the parent its dial got from getOrCreate, until Create or Cleanup is over
  stray,      \* auxiliary: containers whose removal failed, which nobody retries
  left        \* auxiliary: the toReap the end of the process cut off

poolVars == <<parents, lock, container, inflight, idle>>
endVars  == <<reaping, closing, pool, cancelled, left>>
vars     == <<poolVars, endVars, pc, my, stray>>

Over     == {"ended", "docker", "failed"}
Dropping == {"dropThenLaunch", "removeThenLaunch", "dropThenFail", "removeThenFail"}
Counted  == {"dial", "handshake", "run", "over"}
Steps    == {"new", "probe", "launch", "launching", "reserve", "fallback"} \cup Dropping \cup Counted \cup Over

Accepts(p) == container[p] \in {"up", "hung"}            \* a TCP dial succeeds
Exists(p)  == container[p] \in {"starting", "up", "hung", "dead"}
Mapped     == {p \in Parents : \E k \in Keys : parents[k] = p}
Unlocked   == lock = NoJob

Init ==
  /\ parents = [k \in Keys |-> NoParent]
  /\ lock = NoJob
  /\ container = [p \in Parents |-> "none"]
  /\ inflight = [p \in Parents |-> 0]
  /\ idle = [p \in Parents |-> FALSE]
  /\ reaping = {} /\ closing = {} /\ pool = "open" /\ cancelled = FALSE /\ left = {}
  /\ pc = [j \in Jobs |-> "new"]
  /\ my = [j \in Jobs |-> NoParent]
  /\ stray = {}

Goto(j, from, to) == pc[j] = from /\ pc' = [pc EXCEPT ![j] = to]

---------------------------------------------------------------------------
(* getOrCreate *)

Lookup(j) ==
  /\ pool = "open" /\ Unlocked
  /\ my' = [my EXCEPT ![j] = parents[KeyOf[j]]]
  /\ Goto(j, "new", IF parents[KeyOf[j]] = NoParent THEN "launch" ELSE "probe")
  /\ UNCHANGED <<poolVars, endVars, stray>>

ProbeOk(j) ==
  /\ Goto(j, "probe", "reserve")
  /\ Accepts(my[j])
  /\ UNCHANGED <<poolVars, endVars, my, stray>>

ProbeFails(j) ==
  /\ Goto(j, "probe", "dropThenLaunch")
  /\ ~Accepts(my[j]) \/ "probe" \in Faults
  /\ UNCHANGED <<poolVars, endVars, my, stray>>

\* The lookup is repeated under the lock the launch will hold; what it finds
\* is used without a probe.
FindLaunched(j) ==
  /\ Unlocked
  /\ parents[KeyOf[j]] # NoParent
  /\ my' = [my EXCEPT ![j] = parents[KeyOf[j]]]
  /\ Goto(j, "launch", "reserve")
  /\ UNCHANGED <<poolVars, endVars, stray>>

\* Seeded fault: no second lookup under the lock.
LaunchUnchecked(j) ==
  /\ Unlocked
  /\ ~cancelled
  /\ \E p \in Parents :
       /\ container[p] = "none"
       /\ container' = [container EXCEPT ![p] = "starting"]
       /\ my' = [my EXCEPT ![j] = p]
  /\ lock' = j
  /\ Goto(j, "launch", "launching")
  /\ UNCHANGED <<parents, inflight, idle, endVars, stray>>

Launch(j) ==
  /\ Unlocked
  /\ parents[KeyOf[j]] = NoParent
  /\ ~cancelled
  /\ \E p \in Parents :
       /\ container[p] = "none"
       /\ container' = [container EXCEPT ![p] = "starting"]
       /\ my' = [my EXCEPT ![j] = p]
  /\ lock' = j
  /\ Goto(j, "launch", "launching")
  /\ UNCHANGED <<parents, inflight, idle, endVars, stray>>

LaunchCancelled(j) ==
  /\ Unlocked
  /\ parents[KeyOf[j]] = NoParent
  /\ cancelled
  /\ Goto(j, "launch", "fallback")
  /\ UNCHANGED <<poolVars, endVars, my, stray>>

LaunchSucceeds(j) ==
  /\ Goto(j, "launching", "reserve")
  /\ container' = [container EXCEPT ![my[j]] = "up"]
  /\ parents' = [parents EXCEPT ![KeyOf[j]] = my[j]]
  /\ idle' = [idle EXCEPT ![my[j]] = FALSE]
  /\ lock' = NoJob
  /\ UNCHANGED <<inflight, endVars, my, stray>>

\* Seeded fault: a failed launch returns without giving the lock back.
LaunchFailsLocked(j) ==
  /\ Goto(j, "launching", "fallback")
  /\ cancelled \/ {"docker", "crash", "hang"} \cap Faults # {}
  /\ container' = [container EXCEPT ![my[j]] = "gone"]
  /\ UNCHANGED <<parents, lock, inflight, idle, endVars, my, stray>>

\* The container is removed under its own context, which may fail like any
\* request to the daemon.
LaunchFails(j) ==
  /\ Goto(j, "launching", "fallback")
  /\ cancelled \/ {"docker", "crash", "hang"} \cap Faults # {}
  /\ \/ /\ container' = [container EXCEPT ![my[j]] = "gone"]
        /\ UNCHANGED stray
     \/ /\ "docker" \in Faults
        /\ container' = [container EXCEPT ![my[j]] = "dead"]
        /\ stray' = stray \cup {my[j]}
  /\ lock' = NoJob
  /\ UNCHANGED <<parents, inflight, idle, endVars, my>>

---------------------------------------------------------------------------
(* dropParent: take the parent out of the map if it is still there, then
   remove its container, under the context of the job *)

Unmap(j, from, to) ==
  /\ Unlocked
  /\ parents' = [k \in Keys |-> IF k = KeyOf[j] /\ parents[k] = my[j] THEN NoParent ELSE parents[k]]
  /\ Goto(j, from, to)
  /\ UNCHANGED <<lock, container, inflight, idle, endVars, my, stray>>

Removed(p) ==
  /\ container' = [container EXCEPT ![p] = "gone"]
  /\ UNCHANGED stray

RemoveFails(p) ==
  /\ stray' = IF Exists(p) THEN stray \cup {p} ELSE stray
  /\ UNCHANGED container

Remove(j, from, to) ==
  /\ Goto(j, from, to)
  /\ \/ ~cancelled /\ Removed(my[j])
     \/ (cancelled \/ "docker" \in Faults) /\ RemoveFails(my[j])
  /\ UNCHANGED <<parents, lock, inflight, idle, endVars, my>>

Drop(j) ==
  \/ Unmap(j, "dropThenLaunch", "removeThenLaunch") \/ Remove(j, "removeThenLaunch", "launch")
  \/ Unmap(j, "dropThenFail", "removeThenFail")     \/ Remove(j, "removeThenFail", "fallback")

---------------------------------------------------------------------------
(* dial, Create, the session, Cleanup *)

Reserve(j) ==
  /\ Goto(j, "reserve", "dial")
  /\ inflight' = [inflight EXCEPT ![my[j]] = @ + 1]
  /\ idle' = [idle EXCEPT ![my[j]] = FALSE]
  /\ UNCHANGED <<parents, lock, container, endVars, my, stray>>

Release(j) ==
  /\ inflight' = [inflight EXCEPT ![my[j]] = @ - 1]
  /\ idle' = [idle EXCEPT ![my[j]] = FALSE]

DialSucceeds(j) ==
  /\ Goto(j, "dial", "handshake")
  /\ Accepts(my[j])
  /\ UNCHANGED <<poolVars, endVars, my, stray>>

DialFails(j) ==
  /\ Goto(j, "dial", "dropThenFail")
  /\ ~Accepts(my[j]) \/ "probe" \in Faults
  /\ Release(j)
  /\ UNCHANGED <<parents, lock, container, endVars, my, stray>>

\* Nothing bounds the wait for STARTED: neither a deadline on the connection
\* nor the context.
Started(j) ==
  /\ Goto(j, "handshake", "run")
  /\ container[my[j]] = "up"
  /\ UNCHANGED <<poolVars, endVars, my, stray>>

\* Seeded fault: the error return before STARTED forgets release().
HandshakeFailsKept(j) ==
  /\ Goto(j, "handshake", "fallback")
  /\ ~Accepts(my[j]) \/ "agent" \in Faults
  /\ UNCHANGED <<poolVars, endVars, my, stray>>

HandshakeFails(j) ==
  /\ Goto(j, "handshake", "fallback")
  /\ ~Accepts(my[j]) \/ "agent" \in Faults
  /\ Release(j)
  /\ UNCHANGED <<parents, lock, container, endVars, my, stray>>

\* A failed Create falls back to the Docker tier, a cancelled one does not.
FallBack(j) ==
  /\ Goto(j, "fallback", IF cancelled THEN "failed" ELSE "docker")
  /\ my' = [my EXCEPT ![j] = NoParent]
  /\ UNCHANGED <<poolVars, endVars, stray>>

\* An EXIT frame, a clock of the session, or a connection that broke.
SessionEnds(j) ==
  /\ Goto(j, "run", "over")
  /\ UNCHANGED <<poolVars, endVars, my, stray>>

Cleanup(j) ==
  /\ Goto(j, "over", "ended")
  /\ Release(j)
  /\ my' = [my EXCEPT ![j] = NoParent]
  /\ UNCHANGED <<parents, lock, container, endVars, stray>>

---------------------------------------------------------------------------
(* the idle reaper and close, and what happens to them *)

Ages(p) ==
  /\ p \in Mapped /\ ~idle[p]
  /\ pool = "open"
  /\ idle' = [idle EXCEPT ![p] = TRUE]
  /\ UNCHANGED <<parents, lock, container, inflight, endVars, pc, my, stray>>

Reapable == {p \in Mapped : inflight[p] = 0 /\ idle[p]}

\* Seeded fault: lastUsed alone decides.
ReapIdleByAge ==
  LET old == {p \in Mapped : idle[p]} IN
  /\ pool = "open" /\ Unlocked
  /\ reaping = {} /\ old # {}
  /\ reaping' = old
  /\ parents' = [k \in Keys |-> IF parents[k] \in old THEN NoParent ELSE parents[k]]
  /\ UNCHANGED <<lock, container, inflight, idle, closing, pool, cancelled, left, pc, my, stray>>

ReapIdle ==
  /\ pool = "open" /\ Unlocked
  /\ reaping = {} /\ Reapable # {}
  /\ reaping' = Reapable
  /\ parents' = [k \in Keys |-> IF parents[k] \in Reapable THEN NoParent ELSE parents[k]]
  /\ UNCHANGED <<lock, container, inflight, idle, closing, pool, cancelled, left, pc, my, stray>>

ReaperRemoves(p) ==
  /\ p \in reaping
  /\ reaping' = reaping \ {p}
  /\ Removed(p) \/ ("docker" \in Faults /\ RemoveFails(p))
  /\ UNCHANGED <<parents, lock, inflight, idle, closing, pool, cancelled, left, pc, my>>

\* main defers Close behind Drain, so every job goroutine is over.
Close ==
  /\ pool = "open" /\ Unlocked
  /\ \A j \in Jobs : pc[j] \in Over \cup {"new"}
  /\ pool' = "closing"
  /\ closing' = Mapped
  /\ parents' = [k \in Keys |-> NoParent]
  /\ UNCHANGED <<lock, container, inflight, idle, reaping, cancelled, left, pc, my, stray>>

CloseRemoves(p) ==
  /\ p \in closing
  /\ closing' = closing \ {p}
  /\ Removed(p) \/ ("docker" \in Faults /\ RemoveFails(p))
  /\ UNCHANGED <<parents, lock, inflight, idle, reaping, pool, cancelled, left, pc, my>>

\* The process ends when close returns, wherever its idle reaper stands: what
\* that has taken out and not removed is left to nobody.
Exit ==
  /\ pool = "closing" /\ closing = {}
  /\ pool' = "exited"
  /\ left' = reaping /\ reaping' = {}
  /\ UNCHANGED <<poolVars, closing, cancelled, pc, my, stray>>

Dies(p) ==
  /\ container[p] = "up"
  /\ \/ "crash" \in Faults /\ container' = [container EXCEPT ![p] = "dead"]
     \/ "hang" \in Faults /\ container' = [container EXCEPT ![p] = "hung"]
  /\ UNCHANGED <<parents, lock, inflight, idle, endVars, pc, my, stray>>

Deadline ==
  /\ "deadline" \in Faults /\ ~cancelled
  /\ cancelled' = TRUE
  /\ UNCHANGED <<poolVars, reaping, closing, pool, left, pc, my, stray>>

---------------------------------------------------------------------------

CreateStep(j) ==
  \/ ProbeOk(j) \/ ProbeFails(j) \/ FindLaunched(j) \/ Launch(j)
  \/ LaunchCancelled(j) \/ LaunchSucceeds(j) \/ LaunchFails(j) \/ Drop(j)
  \/ Reserve(j) \/ DialSucceeds(j) \/ DialFails(j) \/ Started(j)
  \/ HandshakeFails(j) \/ FallBack(j)

Next ==
  \/ \E j \in Jobs : Lookup(j) \/ CreateStep(j) \/ SessionEnds(j) \/ Cleanup(j)
  \/ \E p \in Parents : Ages(p) \/ ReaperRemoves(p) \/ CloseRemoves(p) \/ Dies(p)
  \/ ReapIdle \/ Close \/ Exit \/ Deadline

Spec == Init /\ [][Next]_vars

\* The scheduler runs every goroutine, the mutex is not held back for ever
\* from one that waits for it, requests return, and sessions end by their
\* wall clock.  Jobs, shutdown and adverse events need not happen.
Fairness ==
  /\ \A j \in Jobs : SF_vars(CreateStep(j)) /\ WF_vars(SessionEnds(j)) /\ WF_vars(Cleanup(j))
  /\ \A p \in Parents : WF_vars(Ages(p)) /\ WF_vars(ReaperRemoves(p)) /\ WF_vars(CloseRemoves(p))
  /\ SF_vars(ReapIdle) /\ WF_vars(Exit)

FairSpec == Spec /\ Fairness

---------------------------------------------------------------------------

TypeOK ==
  /\ parents \in [Keys -> Parents \cup {NoParent}]
  /\ lock \in Jobs \cup {NoJob}
  /\ container \in [Parents -> {"none", "starting", "up", "hung", "dead", "gone"}]
  /\ inflight \in [Parents -> Nat]
  /\ idle \in [Parents -> BOOLEAN]
  /\ reaping \subseteq Parents /\ closing \subseteq Parents /\ stray \subseteq Parents
  /\ left \subseteq Parents
  /\ pool \in {"open", "closing", "exited"}
  /\ cancelled \in BOOLEAN
  /\ pc \in [Jobs -> Steps]
  /\ my \in [Jobs -> Parents \cup {NoParent}]

\* "In-flight reservation rolled back so no slot leaks": on every path through
\* dial, the handshake, the fallback and Cleanup, the count of a parent is
\* the number of jobs that hold it.
InflightExact ==
  \A p \in Parents : inflight[p] = Cardinality({j \in Jobs : my[j] = p /\ pc[j] \in Counted})

\* Every pool container there is has somebody who will remove it: it is in the
\* map of a process that lives, or being launched, or the goroutine that took
\* it out of the map is on its way to the daemon.  (The sandbox reaper does not
\* list pool containers.)  Two kinds are nobody's, and no others: those whose
\* removal failed, and those the idle reaper had taken out of the map when the
\* process ended under it.
EveryParentOwned ==
  \A p \in Parents : Exists(p) =>
    \/ pool # "exited" /\ p \in Mapped \cup reaping \cup closing
    \/ \E j \in Jobs : my[j] = p /\ pc[j] \in Dropping \cup {"launching"}
    \/ p \in stray \cup left

\* The idle reaper condemns no parent a job is counted in.
ReapSparesCounted ==
  [][\A p \in reaping' \ reaping : \A j \in Jobs : my[j] = p => pc[j] \notin Counted]_vars

\* No job waits for ever for a parent, whichever job launches it and however
\* that launch, or a dial, fails.  The exception is an agent that accepts the
\* connection and then says nothing: no timeout of the code covers it.
CreateReturns ==
  \A j \in Jobs :
    pc[j] # "new" ~> \/ pc[j] \in {"run", "over"} \cup Over
                     \/ pc[j] = "handshake" /\ container[my[j]] = "hung"

\* RAM is reclaimed: with no more jobs, or at shutdown, every pool container
\* goes, unless its removal failed, the process ended before its idle reaper
\* got to it, or its agent hangs (its jobs then never give it back).
IdleReclaimed ==
  \A p \in Parents :
    Exists(p) ~> ~Exists(p) \/ p \in stray \cup left \/ container[p] = "hung"

\* zygote_pool.go:9: the idle reaper tears a parent down "with no jobs".
ReapedWithoutJobs ==
  \A p \in reaping : \A j \in Jobs : my[j] = p => pc[j] \notin Counted

===========================================================================

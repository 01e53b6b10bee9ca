------------------------------ MODULE Reaper ------------------------------
(***************************************************************************)
(* The dead-worker orphan sweep (internal/reaper/reaper.go), the heartbeat *)
(* and the owned-jobs sets it reads (internal/worker/heartbeat.go,         *)
(* internal/jobstore/capacity.go) and, reduced to the steps a sweep can    *)
(* see, the job goroutines it runs beside (internal/worker/worker.go; in   *)
(* full in Worker.tla).  Workers crash here.                               *)
(***************************************************************************)
EXTENDS Naturals, FiniteSets

CONSTANTS
  Workers,  \* worker processes; a restarted one has a new id
  Reapers,  \* those whose reaper got its Docker client (main.go)
  HostOf,   \* the Docker host of a worker
  Jobs,
  MaxDown,  \* bound: workers that crash or are told to stop
  Faults,   \* the adverse events a behaviour may contain
  NoWorker, NoJob

FaultKinds == {"docker", "workerRedis", "reaperRedis", "missedBeats"}

ASSUME ReapersAssumption == Reapers \subseteq Workers /\ NoWorker \notin Workers /\ NoJob \notin Jobs
ASSUME FaultsAssumption  == Faults \subseteq FaultKinds
ASSUME DownAssumption    == IsFiniteSet(Workers) /\ MaxDown \in Nat

VARIABLES
  proc,        \* the worker processes
  heartbeats,  \* workers whose worker:<id>:heartbeat exists
  owned,       \* worker:<id>:jobs
  status,      \* job:<id>:status
  containers,  \* jobs whose labelled container exists
  old,         \* jobs whose container was created reapMinAge ago
  pc, owner, outcome,
  sweep        \* the reaper of each worker

jobVars == <<pc, owner, outcome>>
vars == <<proc, heartbeats, owned, status, containers, old, jobVars, sweep>>

Final  == {"done", "error", "killed"}
State  == {"queued", "running"} \cup Final
Proc   == {"up", "draining", "dead"}
Unmade == {"unclaimed", "claimed", "owned", "rollback", "abort"}
Using  == {"parked", "running"}
JobPc  == Unmade \cup Using \cup {"disown", "report", "cleanup", "finished"}

\* One sweep: the containers it listed and has not judged, the worker ids it
\* has still to check, the live ones (later: those still to read), the jobs
\* they own, and the orphan at hand.
SweepAt == {"idle", "scan", "beats", "jobs", "judge", "forget", "mark"}
Sweep   == [at : SweepAt, listed : SUBSET Jobs, ids : SUBSET Workers, alive : SUBSET Workers,
            protected : SUBSET Jobs, target : Jobs \cup {NoJob}]
Idle    == [at |-> "idle", listed |-> {}, ids |-> {}, alive |-> {}, protected |-> {}, target |-> NoJob]

\* The reaper of r goes on as s.
Now(r, s) == sweep' = [sweep EXCEPT ![r] = s]

\* The workers have booted (first beat written) and the jobs are in the queue.
Init ==
  /\ proc = [w \in Workers |-> "up"] /\ heartbeats = Workers
  /\ owned = [w \in Workers |-> {}] /\ status = [j \in Jobs |-> "queued"]
  /\ containers = {} /\ old = {}
  /\ pc = [j \in Jobs |-> "unclaimed"] /\ owner = [j \in Jobs |-> NoWorker]
  /\ outcome = [j \in Jobs |-> "error"]
  /\ sweep = [r \in Workers |-> Idle]

(***************************************************************************)
(* Worker processes and their heartbeat.                                   *)
(***************************************************************************)

Down == {w \in Workers : proc[w] # "up"}

\* kill -9, OOM: no deferred step runs, the reaper dies with the process.
Crash(w) ==
  /\ proc[w] = "draining" \/ (proc[w] = "up" /\ Cardinality(Down) < MaxDown)
  /\ proc' = [proc EXCEPT ![w] = "dead"]
  /\ Now(w, Idle)
  /\ UNCHANGED <<heartbeats, owned, status, containers, old, jobVars>>

\* SIGTERM cancels the context of the claim loop and of the reaper, whose
\* pending call fails; the jobs and the heartbeat go on under jobsCtx.
Sigterm(w) ==
  /\ proc[w] = "up" /\ Cardinality(Down) < MaxDown
  /\ proc' = [proc EXCEPT ![w] = "draining"]
  /\ Now(w, Idle)
  /\ UNCHANGED <<heartbeats, owned, status, containers, old, jobVars>>

Drained(w) ==
  /\ proc[w] = "draining"
  /\ \A j \in Jobs : owner[j] = w => pc[j] = "finished"
  /\ proc' = [proc EXCEPT ![w] = "dead"]
  /\ UNCHANGED <<heartbeats, owned, status, containers, old, jobVars, sweep>>

Alive(w) == proc[w] \in {"up", "draining"}

\* Seeded fault: the heartbeat runs under the claim loop's context.
BeatingWhileClaiming(w) == proc[w] = "up"

\* startHeartbeat's goroutine stops with jobsCtx, after the drain.
Beating(w) == Alive(w)

\* heartbeatTTL after the last beat.
HeartbeatExpires(w) ==
  /\ ~Beating(w) /\ w \in heartbeats
  /\ heartbeats' = heartbeats \ {w}
  /\ UNCHANGED <<proc, owned, status, containers, old, jobVars, sweep>>

\* Failed SETs are tolerated: the key expires while the worker lives.
BeatsMissed(w) ==
  /\ "missedBeats" \in Faults /\ Beating(w) /\ w \in heartbeats
  /\ heartbeats' = heartbeats \ {w}
  /\ UNCHANGED <<proc, owned, status, containers, old, jobVars, sweep>>

Beat(w) ==
  /\ Beating(w) /\ w \notin heartbeats
  /\ heartbeats' = heartbeats \cup {w}
  /\ UNCHANGED <<proc, owned, status, containers, old, jobVars, sweep>>

(***************************************************************************)
(* Job goroutines, as far as a sweep can tell.                             *)
(***************************************************************************)

Move(j, from, to) == pc[j] = from /\ Alive(owner[j]) /\ pc' = [pc EXCEPT ![j] = to]
WorkerCall == IF "workerRedis" \in Faults THEN BOOLEAN ELSE {TRUE}
ReaperCall == IF "reaperRedis" \in Faults THEN BOOLEAN ELSE {TRUE}

Claim(j, w) ==
  /\ pc[j] = "unclaimed" /\ proc[w] = "up"
  /\ pc' = [pc EXCEPT ![j] = "claimed"] /\ owner' = [owner EXCEPT ![j] = w]
  /\ UNCHANGED <<proc, heartbeats, owned, status, containers, old, outcome, sweep>>

AddOwnedJob(j) ==
  /\ Move(j, "claimed", "owned")
  /\ \E ok \in WorkerCall : owned' = IF ok THEN [owned EXCEPT ![owner[j]] = @ \cup {j}] ELSE owned
  /\ UNCHANGED <<proc, heartbeats, status, containers, old, owner, outcome, sweep>>

CreateSandbox(j) ==
  /\ Move(j, "owned", "parked")
  /\ containers' = containers \cup {j}
  /\ UNCHANGED <<proc, heartbeats, owned, status, old, owner, outcome, sweep>>

CreateFails(j) ==
  /\ Move(j, "owned", "rollback")
  /\ UNCHANGED <<proc, heartbeats, owned, status, containers, old, owner, outcome, sweep>>

\* The container crosses reapMinAge.
Ages(j) ==
  /\ j \in containers \ old
  /\ old' = old \cup {j}
  /\ UNCHANGED <<proc, heartbeats, owned, status, containers, jobVars, sweep>>

BeginRun(j) ==
  /\ Move(j, "parked", "running")
  /\ \E ok \in WorkerCall : status' = IF ok THEN [status EXCEPT ![j] = "running"] ELSE status
  /\ UNCHANGED <<proc, heartbeats, owned, containers, old, owner, outcome, sweep>>

\* No start, a kill, a failed compile: the container stays until Cleanup.
ParkEnds(j) ==
  /\ Move(j, "parked", "disown")
  /\ \E s \in {"error", "killed"} : outcome' = [outcome EXCEPT ![j] = s]
  /\ UNCHANGED <<proc, heartbeats, owned, status, containers, old, owner, sweep>>

\* The session's terminate removed the container.
SessionEnds(j) ==
  /\ Move(j, "running", "disown")
  /\ \E s \in {"done", "error"} : outcome' = [outcome EXCEPT ![j] = s]
  /\ containers' = containers \ {j}
  /\ UNCHANGED <<proc, heartbeats, owned, status, old, owner, sweep>>

RemoveOwnedJob(j) ==
  /\ Move(j, "disown", "report") \/ Move(j, "rollback", "abort")
  /\ \E ok \in WorkerCall : owned' = IF ok THEN [owned EXCEPT ![owner[j]] = @ \ {j}] ELSE owned
  /\ UNCHANGED <<proc, heartbeats, status, containers, old, owner, outcome, sweep>>

WriteFinal(j) ==
  /\ Move(j, "report", "cleanup") \/ Move(j, "abort", "finished")
  /\ \E ok \in WorkerCall : status' = IF ok THEN [status EXCEPT ![j] = outcome[j]] ELSE status
  /\ UNCHANGED <<proc, heartbeats, owned, containers, old, owner, outcome, sweep>>

Cleanup(j) ==
  /\ Move(j, "cleanup", "finished")
  /\ containers' = containers \ {j}
  /\ UNCHANGED <<proc, heartbeats, owned, status, old, owner, outcome, sweep>>

(***************************************************************************)
(* The sweep.                                                              *)
(***************************************************************************)

At(r, a) == r \in Reapers /\ proc[r] = "up" /\ sweep[r].at = a
OnHost(r) == {j \in containers : HostOf[owner[j]] = HostOf[r]}

\* The ticker fires and ContainerList answers; an empty list ends the sweep.
List(r) ==
  /\ At(r, "idle") /\ OnHost(r) # {}
  /\ Now(r, [Idle EXCEPT !.at = "scan", !.listed = OnHost(r)])
  /\ UNCHANGED <<proc, heartbeats, owned, status, containers, old, jobVars>>

\* SCAN worker:*:jobs finds the sets that are not empty.
Scan(r) ==
  /\ At(r, "scan")
  /\ Now(r, [sweep[r] EXCEPT !.at = "beats", !.ids = {w \in Workers : owned[w] # {}}])
  /\ UNCHANGED <<proc, heartbeats, owned, status, containers, old, jobVars>>

\* A SCAN error skips the whole sweep.
ScanFails(r) ==
  /\ FALSE \in ReaperCall
  /\ At(r, "scan")
  /\ Now(r, Idle)
  /\ UNCHANGED <<proc, heartbeats, owned, status, containers, old, jobVars>>

\* Seeded fault: an owned-jobs set alone proves its worker alive.
CheckBeatBySet(r, w) ==
  /\ At(r, "beats") /\ w \in sweep[r].ids
  /\ Now(r, [sweep[r] EXCEPT !.ids = @ \ {w}, !.alive = @ \cup {w}])
  /\ UNCHANGED <<proc, heartbeats, owned, status, containers, old, jobVars>>

\* HeartbeatAlive; a worker whose check failed is not among the live ones.
CheckBeat(r, w) ==
  /\ At(r, "beats") /\ w \in sweep[r].ids
  /\ \E ok \in ReaperCall :
       Now(r, [sweep[r] EXCEPT !.ids = @ \ {w}, !.alive = IF ok /\ w \in heartbeats THEN @ \cup {w} ELSE @])
  /\ UNCHANGED <<proc, heartbeats, owned, status, containers, old, jobVars>>

BeatsChecked(r) ==
  /\ At(r, "beats") /\ sweep[r].ids = {}
  /\ Now(r, [sweep[r] EXCEPT !.at = "jobs"])
  /\ UNCHANGED <<proc, heartbeats, owned, status, containers, old, jobVars>>

\* OwnedJobs; after an error this worker's jobs are not in the live-job set.
ReadOwned(r, w) ==
  /\ At(r, "jobs") /\ w \in sweep[r].alive
  /\ \E ok \in ReaperCall :
       Now(r, [sweep[r] EXCEPT !.alive = @ \ {w}, !.protected = IF ok THEN @ \cup owned[w] ELSE @])
  /\ UNCHANGED <<proc, heartbeats, owned, status, containers, old, jobVars>>

OwnedRead(r) ==
  /\ At(r, "jobs") /\ sweep[r].alive = {}
  /\ Now(r, [sweep[r] EXCEPT !.at = "judge"])
  /\ UNCHANGED <<proc, heartbeats, owned, status, containers, old, jobVars>>

\* The loop over the listing goes on, or the sweep returns.
GoOn(s, rest) == IF rest = {} THEN Idle ELSE [s EXCEPT !.at = "judge", !.listed = rest, !.target = NoJob]

\* Owned by a live worker, within the grace period, or ContainerRemove failed.
SkipContainer(r, j) ==
  /\ At(r, "judge") /\ j \in sweep[r].listed
  /\ j \notin old \ sweep[r].protected \/ "docker" \in Faults
  /\ Now(r, GoOn(sweep[r], sweep[r].listed \ {j}))
  /\ UNCHANGED <<proc, heartbeats, owned, status, containers, old, jobVars>>

\* Seeded fault: a successful removal returns before the bookkeeping.
ReapContainerOnly(r, j) ==
  /\ At(r, "judge") /\ j \in sweep[r].listed /\ j \in old \ sweep[r].protected
  /\ containers' = containers \ {j}
  /\ Now(r, IF j \in containers THEN GoOn(sweep[r], sweep[r].listed \ {j})
            ELSE [sweep[r] EXCEPT !.at = "forget", !.listed = @ \ {j}, !.target = j])
  /\ UNCHANGED <<proc, heartbeats, owned, status, old, jobVars>>

\* ContainerRemove; a container that is gone already counts as removed.
ReapContainer(r, j) ==
  /\ At(r, "judge") /\ j \in sweep[r].listed /\ j \in old \ sweep[r].protected
  /\ containers' = containers \ {j}
  /\ Now(r, [sweep[r] EXCEPT !.at = "forget", !.listed = @ \ {j}, !.target = j])
  /\ UNCHANGED <<proc, heartbeats, owned, status, old, jobVars>>

\* Seeded fault: the membership is looked for in the reaper's own set.
ForgetOwn(r) ==
  /\ At(r, "forget")
  /\ owned' = [owned EXCEPT ![r] = @ \ {sweep[r].target}]
  /\ Now(r, [sweep[r] EXCEPT !.at = "mark"])
  /\ UNCHANGED <<proc, heartbeats, status, containers, old, jobVars>>

\* cleanupOwnedJobMembership: SREM from every set, each on its own.
Forget(r) ==
  /\ At(r, "forget")
  /\ \E gone \in IF FALSE \in ReaperCall THEN SUBSET Workers ELSE {Workers} :
       owned' = [w \in Workers |-> IF w \in gone THEN owned[w] \ {sweep[r].target} ELSE owned[w]]
  /\ Now(r, [sweep[r] EXCEPT !.at = "mark"])
  /\ UNCHANGED <<proc, heartbeats, status, containers, old, jobVars>>

\* Whatever the status says by now, "error" replaces it.
MarkError(r) ==
  /\ At(r, "mark")
  /\ \E ok \in ReaperCall : status' = IF ok THEN [status EXCEPT ![sweep[r].target] = "error"] ELSE status
  /\ Now(r, GoOn(sweep[r], sweep[r].listed))
  /\ UNCHANGED <<proc, heartbeats, owned, containers, old, jobVars>>

(***************************************************************************)

JobStep(j) ==
  \/ \E w \in Workers : Claim(j, w)
  \/ AddOwnedJob(j) \/ CreateSandbox(j) \/ CreateFails(j) \/ BeginRun(j) \/ ParkEnds(j)
  \/ SessionEnds(j) \/ RemoveOwnedJob(j) \/ WriteFinal(j) \/ Cleanup(j)

SweepStep(r) ==
  \/ List(r) \/ Scan(r) \/ ScanFails(r) \/ BeatsChecked(r) \/ OwnedRead(r) \/ Forget(r) \/ MarkError(r)
  \/ \E w \in Workers : CheckBeat(r, w) \/ ReadOwned(r, w)
  \/ \E j \in Jobs : SkipContainer(r, j) \/ ReapContainer(r, j)

Next ==
  \/ \E j \in Jobs : JobStep(j) \/ Ages(j)
  \/ \E w \in Workers : Crash(w) \/ Sigterm(w) \/ Drained(w)
                          \/ HeartbeatExpires(w) \/ BeatsMissed(w) \/ Beat(w)
  \/ \E r \in Reapers : SweepStep(r)

Spec == Init /\ [][Next]_vars

\* Time passes (keys expire, containers age, tickers fire) and a sweep that
\* is not interrupted runs to its end.  Retried at every tick, neither the
\* Scan nor the removal of a given orphan fails for ever.
Fairness ==
  /\ \A j \in Jobs : WF_vars(Ages(j))
  /\ \A w \in Workers : WF_vars(HeartbeatExpires(w))
  /\ \A r \in Reapers : WF_vars(SweepStep(r)) /\ SF_vars(Scan(r)) /\ \A j \in Jobs : SF_vars(ReapContainer(r, j))

FairSpec == Spec /\ Fairness

(***************************************************************************)
(* Properties.                                                             *)
(***************************************************************************)

\* Every variable stays in its domain, a sweep at "forget" or "mark" having
\* an orphan at hand.
TypeOK ==
  /\ proc \in [Workers -> Proc] /\ heartbeats \subseteq Workers
  /\ owned \in [Workers -> SUBSET Jobs] /\ status \in [Jobs -> State]
  /\ containers \subseteq Jobs /\ old \subseteq Jobs
  /\ pc \in [Jobs -> JobPc] /\ owner \in [Jobs -> Workers \cup {NoWorker}]
  /\ \A j \in Jobs : pc[j] # "unclaimed" => owner[j] \in Workers
  /\ outcome \in [Jobs -> Final]
  /\ sweep \in [Workers -> Sweep]
  /\ \A r \in Workers : sweep[r].at \in {"forget", "mark"} => sweep[r].target \in Jobs

\* A job a live worker is using: its goroutine is between Create and the end
\* of the wait or of the session.
InUse(j) == pc[j] \in Using /\ Alive(owner[j])

\* reaper.go: "Live workers' containers are never touched".  Whatever crashes
\* around it, a job that a live or draining worker is using keeps its
\* container and its membership, and no sweep has ended it.
InUseUntouched ==
  \A j \in Jobs : InUse(j) => j \in containers /\ j \in owned[owner[j]] /\ status[j] \notin Final

\* A container on the host of a live reaper.
Orphan(j) == j \in containers /\ proc[owner[j]] = "dead"

\* scaling.mdx: a crashed worker leaks no container.
OrphansReaped == \A j \in Jobs : Orphan(j) ~> j \notin containers

\* reaper.go: the client gets a terminal state instead of waiting for ever.
OrphansReported == \A j \in Jobs : Orphan(j) ~> status[j] \in Final

\* The dead worker's set does not keep the job of a reaped container.
OrphansForgotten == \A j \in Jobs : Orphan(j) ~> \A w \in Workers : j \notin owned[w]

===========================================================================

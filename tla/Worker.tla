------------------------------ MODULE Worker ------------------------------
(***************************************************************************)
(* The worker's run loop and its per-job goroutine                         *)
(* (internal/worker/worker.go: Run, runJob, runJobFromSpec, Drain), with   *)
(* the API handlers and the Redis keys they share.  A job goroutine is a   *)
(* program counter pc[j]; each of its steps that another process can see   *)
(* is one action, in the order of the code.  The session is one action     *)
(* here (its clocks are in Session.tla), the reaper and a crashed worker   *)
(* are in Reaper.tla.                                                      *)
(***************************************************************************)
EXTENDS Naturals, Sequences, FiniteSets

CONSTANTS
  Workers,       \* worker processes sharing jobs:queue
  Jobs,          \* job ids (a fresh uuid per accepted /execute)
  Compiled,      \* the jobs whose manifest has a compile argv
  WithBlobs,     \* the jobs with a content-addressed file reference
  MaxSandboxes,  \* Config.MaxSandboxes of every worker
  CtrlCap,       \* capacity of ctrlCh (32 in the code)
  MaxCtrl,       \* bound: control messages published per job
  Faults,        \* the adverse events a behaviour may contain
  NoWorker

\* docker: a Kill or a removal is refused.  soketi: a Trigger fails.  hang: a
\* call that has no deadline does not return.
FaultKinds == {"redis", "sigterm", "deadline", "expiry", "lateSubscribe", "docker", "soketi", "hang"}

ASSUME JobsAssumption     == IsFiniteSet(Jobs) /\ Compiled \subseteq Jobs /\ WithBlobs \subseteq Jobs
ASSUME CapacityAssumption == MaxSandboxes \in Nat \ {0} /\ CtrlCap \in Nat \ {0} /\ MaxCtrl \in Nat
ASSUME FaultsAssumption   == Faults \subseteq FaultKinds
ASSUME WorkersAssumption  == NoWorker \notin Workers

VARIABLES
  \* Redis
  queue,      \* jobs:queue, oldest first
  specs,      \* jobs whose job:<id>:spec exists
  status,     \* job:<id>:status
  startFlag,  \* jobs whose start:<id> exists
  owned,      \* worker:<id>:jobs
  leases,     \* jobs holding their blob lease
  outputs,    \* jobs whose job:<id>:output exists
  \* Pub/Sub on ctrl:<id>
  sub,        \* the job's subscription
  ctrl,       \* messages on their way to, or buffered in, ctrlCh
  \* API replicas
  starting,   \* /start handlers between the SET and the PUBLISH
  published,  \* control messages published so far
  \* worker processes
  slots,      \* len(w.slots)
  loop,       \* where Run stands
  sigterm,    \* workers whose claim context is cancelled
  cancelled,  \* workers whose jobsCtx is cancelled
  \* job goroutines
  pc, owner, outcome,
  held,       \* compileCtrlWatch.pending
  killSeen,   \* compileCtrlWatch.killed
  sandbox,    \* jobs whose container exists
  removal,    \* what became of cleanupOnce, or of the removal by a failed Create
  hung,       \* the call without a deadline that does not return, if any
  \* soketi
  stage,      \* last stage event
  resulted,   \* jobs whose result event is out
  \* auxiliary
  lost,        \* jobs whose result event soketi refused
  killSent,    \* jobs to whose ctrlCh a kill was delivered
  killRefused  \* jobs whose sb.Kill failed in the stdin pump

redisVars  == <<queue, specs, status, startFlag, owned, leases, outputs>>
apiVars    == <<starting, published>>
workerVars == <<slots, loop, sigterm, cancelled>>
watchVars  == <<held, killSeen>>
boxVars    == <<sandbox, removal, killRefused, hung>>
eventVars  == <<stage, resulted, lost>>
ctrlVars   == <<sub, ctrl, killSent>>
jobVars    == <<pc, owner, outcome, watchVars, boxVars>>
vars == <<redisVars, ctrlVars, apiVars, workerVars, jobVars, eventVars>>

Msg      == {"start", "kill", "stdin_close"}
Final    == {"done", "error", "killed"}
State    == {"absent", "queued", "running"} \cup Final
Stage    == {"none", "queued", "compiling", "running"}
LoopPc   == {"acquire", "claim", "stopped", "exited"}
Setup    == {"claimed", "subscribe", "announce", "resolve", "own", "create"}
Parked   == {"handshake", "parked"}
Session  == {"compiling", "begin", "running"}
Teardown == {"disown", "release", "unlease", "result", "status", "persist", "cleanup"}
Abort    == {"abortDisown", "abortUnlease", "abortResult", "abortStatus", "abortRelease"}
JobPc    == {"unclaimed", "finished"} \cup Setup \cup Parked \cup Session \cup Teardown \cup Abort

\* From the claim to releaseSlot a job holds one of its worker's slots.
Holding  == Setup \cup Parked \cup Session \cup Abort \cup {"disown", "release"}

Init ==
  /\ queue = <<>> /\ specs = {} /\ status = [j \in Jobs |-> "absent"]
  /\ startFlag = {} /\ owned = [w \in Workers |-> {}] /\ leases = {} /\ outputs = {}
  /\ sub = [j \in Jobs |-> "none"] /\ ctrl = [j \in Jobs |-> <<>>] /\ killSent = {}
  /\ starting = {} /\ published = [j \in Jobs |-> 0]
  /\ slots = [w \in Workers |-> MaxSandboxes]
  /\ loop = [w \in Workers |-> "acquire"] /\ sigterm = {} /\ cancelled = {}
  /\ pc = [j \in Jobs |-> "unclaimed"] /\ owner = [j \in Jobs |-> NoWorker]
  /\ outcome = [j \in Jobs |-> "error"]
  /\ held = [j \in Jobs |-> <<>>] /\ killSeen = {}
  /\ sandbox = {} /\ removal = [j \in Jobs |-> "none"] /\ killRefused = {}
  /\ hung = [j \in Jobs |-> "none"]
  /\ stage = [j \in Jobs |-> "none"] /\ resulted = {} /\ lost = {}

(***************************************************************************)
(* API handlers (apps/api/src/routes/execute.ts, control.ts).              *)
(***************************************************************************)

InQueue(j)   == \E i \in DOMAIN queue : queue[i] = j
Submitted(j) == InQueue(j) \/ pc[j] # "unclaimed"

\* The pipeline writes spec and status and pushes the id.  The result of each
\* command is dropped: the answer is 202 whichever of them failed.
Execute(j) ==
  LET Ok == IF "redis" \in Faults THEN BOOLEAN ELSE {TRUE}
  IN  /\ ~Submitted(j)
      /\ \E written, told, pushed \in Ok :
           /\ specs' = IF written THEN specs \cup {j} ELSE specs
           /\ status' = IF told THEN [status EXCEPT ![j] = "queued"] ELSE status
           /\ queue' = IF pushed THEN Append(queue, j) ELSE queue
      /\ UNCHANGED <<startFlag, owned, leases, outputs, ctrlVars, apiVars, workerVars, jobVars, eventVars>>

\* PUBLISH ctrl:<id>: only a subscriber gets it, and only while its channel
\* has room; the API never learns.
Deliver(j, m) ==
  LET arrives == sub[j] = "active" /\ owner[j] \notin cancelled /\ Len(ctrl[j]) < CtrlCap
  IN  /\ published' = [published EXCEPT ![j] = @ + 1]
      /\ ctrl' = IF arrives THEN [ctrl EXCEPT ![j] = Append(@, m)] ELSE ctrl
      /\ killSent' = IF arrives /\ m = "kill" THEN killSent \cup {j} ELSE killSent
      /\ UNCHANGED sub

\* MaxCtrl bounds the messages of a job, those of /start handlers included.
MayPublish(j) == published[j] + (IF j \in starting THEN 1 ELSE 0) < MaxCtrl

\* POST /start, first half: the durable flag.
StartFlag(j) ==
  /\ Submitted(j) /\ j \notin starting /\ MayPublish(j)
  /\ startFlag' = startFlag \cup {j}
  /\ starting' = starting \cup {j}
  /\ UNCHANGED <<queue, specs, status, owned, leases, outputs, ctrlVars, published, workerVars, jobVars, eventVars>>

\* POST /start, second half: the low-latency publish.
StartPublish(j) ==
  /\ j \in starting
  /\ starting' = starting \ {j}
  /\ Deliver(j, "start")
  /\ UNCHANGED <<redisVars, workerVars, jobVars, eventVars>>

\* POST /kill and /stdin/close.
Control(j, m) ==
  /\ m \in {"kill", "stdin_close"}
  /\ Submitted(j) /\ MayPublish(j)
  /\ Deliver(j, m)
  /\ UNCHANGED <<starting, redisVars, workerVars, jobVars, eventVars>>

\* The spec and status keys of a job nobody has claimed reach JOB_TTL.
Expire(j) ==
  /\ "expiry" \in Faults
  /\ pc[j] = "unclaimed" /\ j \in specs
  /\ specs' = specs \ {j}
  /\ status' = [status EXCEPT ![j] = "absent"]
  /\ UNCHANGED <<queue, startFlag, owned, leases, outputs, ctrlVars, apiVars, workerVars, jobVars, eventVars>>

(***************************************************************************)
(* The claim loop and the drain.                                           *)
(***************************************************************************)

Goto(w, from, to) == loop[w] = from /\ loop' = [loop EXCEPT ![w] = to]

\* Seeded fault: the loop claims without waiting for a slot.
AcquireUnbounded(w) ==
  /\ w \notin sigterm
  /\ Goto(w, "acquire", "claim")
  /\ slots' = [slots EXCEPT ![w] = @ - 1]
  /\ UNCHANGED <<redisVars, ctrlVars, apiVars, sigterm, cancelled, jobVars, eventVars>>

\* Seeded fault: the loop claims without taking the slot it saw.
AcquireWithoutTaking(w) ==
  /\ slots[w] > 0 /\ w \notin sigterm
  /\ Goto(w, "acquire", "claim")
  /\ UNCHANGED <<redisVars, ctrlVars, apiVars, slots, sigterm, cancelled, jobVars, eventVars>>

\* A SIGTERM between the loop's check and this receive counts as one after it.
Acquire(w) ==
  /\ slots[w] > 0 /\ w \notin sigterm
  /\ Goto(w, "acquire", "claim")
  /\ slots' = [slots EXCEPT ![w] = @ - 1]
  /\ UNCHANGED <<redisVars, ctrlVars, apiVars, sigterm, cancelled, jobVars, eventVars>>

\* Seeded fault: the id is read and stays in the list.
ClaimWithoutPop(w) ==
  /\ queue # <<>>
  /\ Goto(w, "claim", "acquire")
  /\ owner' = [owner EXCEPT ![Head(queue)] = w]
  /\ pc' = [pc EXCEPT ![Head(queue)] = "claimed"]
  /\ UNCHANGED <<redisVars, ctrlVars, apiVars, slots, sigterm, cancelled, outcome, watchVars, boxVars, eventVars>>

\* BRPOP returned an id: the goroutine starts with the slot.  A BRPOP already
\* sent when SIGTERM arrives still hands its job over.
Claim(w) ==
  /\ queue # <<>>
  /\ Goto(w, "claim", "acquire")
  /\ queue' = Tail(queue)
  /\ owner' = [owner EXCEPT ![Head(queue)] = w]
  /\ pc' = [pc EXCEPT ![Head(queue)] = "claimed"]
  /\ UNCHANGED <<specs, status, startFlag, owned, leases, outputs, ctrlVars, apiVars, slots,
                 sigterm, cancelled, outcome, watchVars, boxVars, eventVars>>

\* BRPOP timed out or failed: the slot goes back.
ClaimFails(w) ==
  /\ queue = <<>> \/ w \in sigterm \/ "redis" \in Faults
  /\ slots[w] < MaxSandboxes
  /\ Goto(w, "claim", "acquire")
  /\ slots' = [slots EXCEPT ![w] = @ + 1]
  /\ UNCHANGED <<redisVars, ctrlVars, apiVars, sigterm, cancelled, jobVars, eventVars>>

\* The platform stops the machine: main's context is cancelled.
Sigterm(w) ==
  /\ "sigterm" \in Faults /\ w \notin sigterm
  /\ sigterm' = sigterm \cup {w}
  /\ UNCHANGED <<redisVars, ctrlVars, apiVars, slots, loop, cancelled, jobVars, eventVars>>

\* Seeded fault: the backlog is to be empty before the loop stops.
LoopStopsWhenIdle(w) ==
  /\ w \in sigterm /\ queue = <<>>
  /\ Goto(w, "acquire", "stopped")
  /\ UNCHANGED <<redisVars, ctrlVars, apiVars, slots, sigterm, cancelled, jobVars, eventVars>>

LoopStops(w) ==
  /\ w \in sigterm
  /\ Goto(w, "acquire", "stopped")
  /\ UNCHANGED <<redisVars, ctrlVars, apiVars, slots, sigterm, cancelled, jobVars, eventVars>>

Running(w) == {j \in Jobs : owner[j] = w /\ pc[j] # "finished"}

\* Drain's timer fired first: jobsCancel.
DrainDeadline(w) ==
  /\ "deadline" \in Faults
  /\ loop[w] = "stopped" /\ w \notin cancelled /\ Running(w) # {}
  /\ cancelled' = cancelled \cup {w}
  /\ UNCHANGED <<redisVars, ctrlVars, apiVars, slots, loop, sigterm, jobVars, eventVars>>

\* wg.Wait returned: jobsCancel and main returns.
DrainDone(w) ==
  /\ Running(w) = {}
  /\ Goto(w, "stopped", "exited")
  /\ cancelled' = cancelled \cup {w}
  /\ UNCHANGED <<redisVars, ctrlVars, apiVars, slots, sigterm, jobVars, eventVars>>

(***************************************************************************)
(* The job goroutine: from the claim to the handshake.                     *)
(***************************************************************************)

Move(j, from, to) == pc[j] = from /\ pc' = [pc EXCEPT ![j] = to]

\* Redis commands run under jobsCtx: all fail once it is cancelled, and any
\* one may fail on a Redis error.  The code logs the error and goes on.
Answers(j) ==
  IF owner[j] \in cancelled THEN {FALSE}
  ELSE IF "redis" \in Faults THEN BOOLEAN ELSE {TRUE}

WriteStatus(j, s) ==
  \E ok \in Answers(j) : status' = IF ok THEN [status EXCEPT ![j] = s] ELSE status

\* Docker's answer to a removal, and to a call under jobsCtx: nobody repeats
\* one that was refused.
Removes  == IF "docker" \in Faults THEN BOOLEAN ELSE {TRUE}
Kills(j) == IF owner[j] \in cancelled THEN {FALSE} ELSE Removes

\* releaseSlot: a send on the semaphore channel, which blocks when it is full.
ReleaseSlot(j) ==
  /\ slots[owner[j]] < MaxSandboxes
  /\ slots' = [slots EXCEPT ![owner[j]] = @ + 1]

ReadSpec(j) ==
  /\ TRUE \in Answers(j) /\ j \in specs
  /\ Move(j, "claimed", "subscribe")
  /\ UNCHANGED <<redisVars, ctrlVars, apiVars, workerVars, owner, outcome, watchVars, boxVars, eventVars>>

\* Seeded fault: the early return keeps the slot.
ReadSpecFailsKeepingSlot(j) ==
  /\ j \notin specs \/ FALSE \in Answers(j)
  /\ Move(j, "claimed", "finished")
  /\ UNCHANGED <<redisVars, ctrlVars, apiVars, workerVars, owner, outcome, watchVars, boxVars, eventVars>>

\* No spec, no status to report: the id is dropped.
ReadSpecFails(j) ==
  /\ j \notin specs \/ FALSE \in Answers(j)
  /\ Move(j, "claimed", "finished")
  /\ ReleaseSlot(j)
  /\ UNCHANGED <<redisVars, ctrlVars, apiVars, loop, sigterm, cancelled, owner, outcome, watchVars, boxVars, eventVars>>

\* go-redis sends SUBSCRIBE without waiting for the reply; after a failed
\* first connection it is only sent when the channel reader reconnects.
Subscribe(j) ==
  /\ Move(j, "subscribe", "announce")
  /\ \E s \in IF "lateSubscribe" \in Faults THEN {"requested", "active"} ELSE {"active"} :
       sub' = [sub EXCEPT ![j] = s]
  /\ UNCHANGED <<redisVars, ctrl, killSent, apiVars, workerVars, owner, outcome, watchVars, boxVars, eventVars>>

SubscribeConfirmed(j) ==
  /\ sub[j] = "requested"
  /\ sub' = [sub EXCEPT ![j] = "active"]
  /\ UNCHANGED <<redisVars, ctrl, killSent, apiVars, workerVars, jobVars, eventVars>>

Announce(j) ==
  /\ Move(j, "announce", "resolve")
  /\ stage' = [stage EXCEPT ![j] = "queued"]
  /\ WriteStatus(j, "queued")
  /\ UNCHANGED <<queue, specs, startFlag, owned, leases, outputs, ctrlVars, apiVars, workerVars,
                 owner, outcome, watchVars, boxVars, resulted, lost>>

\* resolveBlobRefs: lease, pull, verify.
ResolveBlobs(j) ==
  /\ Move(j, "resolve", "own")
  /\ j \in WithBlobs => TRUE \in Answers(j)
  /\ leases' = IF j \in WithBlobs THEN leases \cup {j} ELSE leases
  /\ UNCHANGED <<queue, specs, status, startFlag, owned, outputs, ctrlVars, apiVars, workerVars,
                 owner, outcome, watchVars, boxVars, eventVars>>

\* The store misses the blob, its bytes do not match, or Redis failed; the
\* lease may already be taken.
ResolveBlobsFails(j) ==
  /\ j \in WithBlobs
  /\ Move(j, "resolve", "abortUnlease")
  /\ \E ok \in Answers(j) : leases' = IF ok THEN leases \cup {j} ELSE leases
  /\ UNCHANGED <<queue, specs, status, startFlag, owned, outputs, ctrlVars, apiVars, workerVars,
                 owner, outcome, watchVars, boxVars, eventVars>>

\* Seeded fault: ownership left to a step after the container's creation.
AddOwnedJobLater(j) ==
  /\ Move(j, "own", "create")
  /\ UNCHANGED <<redisVars, ctrlVars, apiVars, workerVars, owner, outcome, watchVars, boxVars, eventVars>>

\* Ownership is recorded before the container exists.
AddOwnedJob(j) ==
  /\ Move(j, "own", "create")
  /\ \E ok \in Answers(j) :
       owned' = IF ok THEN [owned EXCEPT ![owner[j]] = @ \cup {j}] ELSE owned
  /\ UNCHANGED <<queue, specs, status, startFlag, leases, outputs, ctrlVars, apiVars, workerVars,
                 owner, outcome, watchVars, boxVars, eventVars>>

CreateSandbox(j) ==
  /\ owner[j] \notin cancelled
  /\ Move(j, "create", "handshake")
  /\ sandbox' = sandbox \cup {j}
  /\ UNCHANGED <<redisVars, ctrlVars, apiVars, workerVars, owner, outcome, watchVars,
                 removal, killRefused, hung, eventVars>>

\* A failed Create removes the container it may have made, under the job's
\* own context, and drops the error.
CreateFails(j) ==
  /\ Move(j, "create", "abortDisown")
  /\ \E left \in {~ok : ok \in Kills(j)} :
       /\ sandbox' = IF left THEN sandbox \cup {j} ELSE sandbox
       /\ removal' = [removal EXCEPT ![j] = IF left THEN "refused" ELSE "none"]
  /\ UNCHANGED <<redisVars, ctrlVars, apiVars, workerVars, owner, outcome, watchVars,
                 killRefused, hung, eventVars>>

\* Seeded fault: the handshake trusts the live message alone.
CheckStartFlagNever(j) ==
  /\ Move(j, "handshake", "parked")
  /\ UNCHANGED <<redisVars, ctrlVars, apiVars, workerVars, owner, outcome, watchVars, boxVars, eventVars>>

\* WasStartRequested: a flag read skips the parking.
CheckStartFlag(j) ==
  /\ \E ok \in Answers(j) :
       Move(j, "handshake",
            IF ~(ok /\ j \in startFlag) THEN "parked"
            ELSE IF j \in Compiled THEN "compiling" ELSE "begin")
  /\ stage' = IF pc'[j] = "compiling" THEN [stage EXCEPT ![j] = "compiling"] ELSE stage
  /\ UNCHANGED <<redisVars, ctrlVars, apiVars, workerVars, owner, outcome, watchVars, boxVars, resulted, lost>>

\* End of the goroutine's body: teardown(result, s).
End(j, from, s) ==
  /\ Move(j, from, "disown")
  /\ outcome' = [outcome EXCEPT ![j] = s]

\* The warm-up timer, or jobsCtx, ends the wait.
ParkEnds(j) ==
  /\ End(j, "parked", "error")
  /\ UNCHANGED <<redisVars, ctrlVars, apiVars, workerVars, owner, watchVars, boxVars, eventVars>>

Take(j) == ctrl[j] # <<>> /\ ctrl' = [ctrl EXCEPT ![j] = Tail(@)]

ParkedStart(j) ==
  /\ Take(j) /\ Head(ctrl[j]) = "start"
  /\ Move(j, "parked", IF j \in Compiled THEN "compiling" ELSE "begin")
  /\ stage' = IF j \in Compiled THEN [stage EXCEPT ![j] = "compiling"] ELSE stage
  /\ UNCHANGED <<redisVars, sub, killSent, apiVars, workerVars, owner, outcome, watchVars, boxVars, resulted, lost>>

ParkedKill(j) ==
  /\ Take(j) /\ Head(ctrl[j]) = "kill"
  /\ End(j, "parked", "killed")
  /\ UNCHANGED <<redisVars, sub, killSent, apiVars, workerVars, owner, watchVars, boxVars, eventVars>>

ParkedOther(j) ==
  /\ pc[j] = "parked"
  /\ Take(j) /\ Head(ctrl[j]) = "stdin_close"
  /\ UNCHANGED <<redisVars, sub, killSent, apiVars, workerVars, jobVars, eventVars>>

(***************************************************************************)
(* Compile step, run, teardown.                                            *)
(***************************************************************************)

\* compileCtrlWatch: a kill cancels the compile, the rest is held.
WatchTakes(j) ==
  /\ pc[j] = "compiling"
  /\ Take(j)
  /\ IF Head(ctrl[j]) = "kill"
     THEN killSeen' = killSeen \cup {j} /\ UNCHANGED held
     ELSE held' = [held EXCEPT ![j] = Append(@, Head(ctrl[j]))] /\ UNCHANGED killSeen
  /\ UNCHANGED <<redisVars, sub, killSent, apiVars, workerVars, pc, owner, outcome, boxVars, eventVars>>

\* Seeded fault: the held messages replace those that arrived since.
HandBackOver(j) ==
  /\ ctrl' = [ctrl EXCEPT ![j] = held[j]]
  /\ held' = [held EXCEPT ![j] = <<>>]
  /\ UNCHANGED <<sub, killSent, killSeen>>

Fit(s) == IF Len(s) > CtrlCap THEN SubSeq(s, 1, CtrlCap) ELSE s

\* watch.Stop: held messages go behind those that arrived since, as far as
\* they fit.
HandBack(j) ==
  /\ ctrl' = [ctrl EXCEPT ![j] = Fit(@ \o held[j])]
  /\ held' = [held EXCEPT ![j] = <<>>]
  /\ UNCHANGED <<sub, killSent, killSeen>>

CompileSucceeds(j) ==
  /\ j \notin killSeen
  /\ Move(j, "compiling", "begin")
  /\ HandBack(j)
  /\ UNCHANGED <<redisVars, apiVars, workerVars, owner, outcome, boxVars, eventVars>>

\* A kill wins over whatever the compiler returned; a deadline, a non-zero
\* exit and an infrastructure error are all "error".
CompileEnds(j) ==
  /\ End(j, "compiling", IF j \in killSeen THEN "killed" ELSE "error")
  /\ HandBack(j)
  /\ UNCHANGED <<redisVars, apiVars, workerVars, owner, boxVars, eventVars>>

BeginRun(j) ==
  /\ Move(j, "begin", "running")
  /\ stage' = [stage EXCEPT ![j] = "running"]
  /\ WriteStatus(j, "running")
  /\ UNCHANGED <<queue, specs, startFlag, owned, leases, outputs, ctrlVars, apiVars, workerVars,
                 owner, outcome, watchVars, boxVars, resulted, lost>>

\* The run-phase consumer: a kill removes the container (sb.Kill under
\* jobsCtx; an error is logged and the kill is gone), the rest does not change
\* this module's state.
PumpTakes(j) ==
  /\ pc[j] = "running"
  /\ Take(j)
  /\ IF Head(ctrl[j]) = "kill"
     THEN \E ok \in Kills(j) :
            /\ sandbox' = IF ok THEN sandbox \ {j} ELSE sandbox
            /\ killRefused' = IF ok THEN killRefused ELSE killRefused \cup {j}
     ELSE UNCHANGED <<sandbox, killRefused>>
  /\ UNCHANGED <<redisVars, sub, killSent, apiVars, workerVars, pc, owner, outcome, watchVars,
                 removal, hung, eventVars>>

\* RunInteractive returned: terminate has called Kill, under jobsCtx, and used
\* up Cleanup, and dropped the errors of both.  "error" only for a clock; a
\* program that exited, crashed or was killed is "done".
SessionEnds(j) ==
  /\ \E s \in {"done", "error"} : End(j, "running", s)
  /\ \E killed \in Kills(j), removed \in Removes :
       /\ sandbox' = IF killed \/ removed THEN sandbox \ {j} ELSE sandbox
       /\ removal' = [removal EXCEPT ![j] = IF removed THEN "done" ELSE "refused"]
  /\ UNCHANGED <<redisVars, ctrlVars, apiVars, workerVars, owner, watchVars, killRefused, hung, eventVars>>

\* Nobody reads the channels any more.
CloseSubs(j) ==
  /\ sub' = [sub EXCEPT ![j] = "none"]
  /\ ctrl' = [ctrl EXCEPT ![j] = <<>>]
  /\ UNCHANGED killSent

RemoveOwned(j) ==
  \E ok \in Answers(j) :
    owned' = IF ok THEN [owned EXCEPT ![owner[j]] = @ \ {j}] ELSE owned

\* Seeded fault: a failed Create does not roll the ownership back.
DisownAfterRunOnly(j) ==
  /\ \/ Move(j, "disown", "release") /\ RemoveOwned(j)
     \/ Move(j, "abortDisown", "abortUnlease") /\ UNCHANGED owned
  /\ CloseSubs(j)
  /\ UNCHANGED <<queue, specs, status, startFlag, leases, outputs, apiVars, workerVars,
                 owner, outcome, watchVars, boxVars, eventVars>>

Disown(j) ==
  /\ Move(j, "disown", "release") \/ Move(j, "abortDisown", "abortUnlease")
  /\ CloseSubs(j)
  /\ RemoveOwned(j)
  /\ UNCHANGED <<queue, specs, status, startFlag, leases, outputs, apiVars, workerVars,
                 owner, outcome, watchVars, boxVars, eventVars>>

\* In the teardown before the rest of it, on an abort as the last step.
Release(j) ==
  /\ Move(j, "release", "unlease") \/ Move(j, "abortRelease", "finished")
  /\ ReleaseSlot(j)
  /\ UNCHANGED <<redisVars, ctrlVars, apiVars, loop, sigterm, cancelled,
                 owner, outcome, watchVars, boxVars, eventVars>>

ReleaseLeases(j) ==
  /\ \/ Move(j, "unlease", "result") /\ UNCHANGED ctrlVars
     \/ Move(j, "abortUnlease", "abortResult") /\ CloseSubs(j)
  /\ \E ok \in Answers(j) : leases' = IF ok THEN leases \ {j} ELSE leases
  /\ UNCHANGED <<queue, specs, status, startFlag, owned, outputs, apiVars, workerVars,
                 owner, outcome, watchVars, boxVars, eventVars>>

\* Seeded fault: publishError writes the status without the event.
PublishResultAfterRunOnly(j) ==
  /\ \/ Move(j, "result", "status") /\ resulted' = resulted \cup {j}
     \/ Move(j, "abortResult", "abortStatus") /\ UNCHANGED resulted
  /\ UNCHANGED lost
  /\ UNCHANGED <<redisVars, ctrlVars, apiVars, workerVars, owner, outcome, watchVars, boxVars, stage>>

\* One Trigger, after a session and in publishError; a failure is logged or
\* dropped and the final status is written all the same.
PublishResult(j) ==
  /\ Move(j, "result", "status") \/ Move(j, "abortResult", "abortStatus")
  /\ \/ resulted' = resulted \cup {j} /\ UNCHANGED lost
     \/ "soketi" \in Faults /\ lost' = lost \cup {j} /\ UNCHANGED resulted
  /\ UNCHANGED <<redisVars, ctrlVars, apiVars, workerVars, owner, outcome, watchVars, boxVars, stage>>

WriteFinal(j) ==
  /\ Move(j, "status", "persist") \/ Move(j, "abortStatus", "abortRelease")
  /\ WriteStatus(j, outcome[j])
  /\ UNCHANGED <<queue, specs, startFlag, owned, leases, outputs, ctrlVars, apiVars, workerVars,
                 owner, outcome, watchVars, boxVars, eventVars>>

\* collectOutput: artifacts, then the RunResult.
PersistOutput(j) ==
  /\ Move(j, "persist", "cleanup")
  /\ \E ok \in Answers(j) : outputs' = IF ok THEN outputs \cup {j} ELSE outputs
  /\ UNCHANGED <<queue, specs, status, startFlag, owned, leases, ctrlVars, apiVars, workerVars,
                 owner, outcome, watchVars, boxVars, eventVars>>

\* Cleanup tries once (cleanupOnce), so after a session it does nothing.  It
\* has its own context, so it works after jobsCancel too; an error is logged.
CleanupSandbox(j) ==
  /\ Move(j, "cleanup", "finished")
  /\ IF removal[j] # "none" THEN UNCHANGED <<sandbox, removal>>
     ELSE \E removed \in Removes :
            /\ sandbox' = IF removed THEN sandbox \ {j} ELSE sandbox
            /\ removal' = [removal EXCEPT ![j] = IF removed THEN "done" ELSE "refused"]
  /\ UNCHANGED <<redisVars, ctrlVars, apiVars, workerVars, owner, outcome, watchVars,
                 killRefused, hung, eventVars>>

(***************************************************************************)
(* Calls without a deadline.  S3 is called under jobsCtx, whose            *)
(* cancellation ends the call; the zygote agent's answer to Create is      *)
(* awaited without a context, and ContainerRemove is called under a        *)
(* Background one, in terminate (before RunInteractive returns) and in the *)
(* teardown.                                                               *)
(***************************************************************************)

UntilCancel == {"resolve", "persist"}
Unbounded   == {"create", "running", "cleanup"}

Hung(j) == hung[j] = pc[j] /\ (pc[j] \in UntilCancel => owner[j] \notin cancelled)

Hang(j) ==
  /\ "hang" \in Faults
  /\ pc[j] \in UntilCancel \cup Unbounded /\ ~Hung(j)
  /\ hung' = [hung EXCEPT ![j] = pc[j]]
  /\ UNCHANGED <<redisVars, ctrlVars, apiVars, workerVars, pc, owner, outcome, watchVars,
                 sandbox, removal, killRefused, eventVars>>

(***************************************************************************)

Client(j) == Execute(j) \/ StartFlag(j) \/ \E m \in Msg : Control(j, m)

SetupStep(j) ==
  \/ ReadSpec(j) \/ ReadSpecFails(j) \/ Subscribe(j) \/ Announce(j)
  \/ ResolveBlobs(j) \/ ResolveBlobsFails(j) \/ AddOwnedJob(j)
  \/ CreateSandbox(j) \/ CreateFails(j) \/ CheckStartFlag(j)

ControlStep(j) ==
  ParkedStart(j) \/ ParkedKill(j) \/ ParkedOther(j) \/ WatchTakes(j) \/ PumpTakes(j)

\* The steps that end by themselves: a timer, a deadline or a clock bounds
\* each wait (WarmupMs, Limits.WallTimeMs, both at least one millisecond).
RunStep(j) == ParkEnds(j) \/ CompileSucceeds(j) \/ CompileEnds(j) \/ BeginRun(j) \/ SessionEnds(j)

TeardownStep(j) ==
  \/ Disown(j) \/ Release(j) \/ ReleaseLeases(j) \/ PublishResult(j)
  \/ WriteFinal(j) \/ PersistOutput(j) \/ CleanupSandbox(j)

\* A goroutine in a call that does not return takes no step.
JobStep(j) == ~Hung(j) /\ (SetupStep(j) \/ RunStep(j) \/ TeardownStep(j))

LoopStep(w) == Acquire(w) \/ Claim(w) \/ ClaimFails(w) \/ LoopStops(w)

Next ==
  \/ \E j \in Jobs : Client(j) \/ StartPublish(j) \/ Expire(j) \/ SubscribeConfirmed(j)
                       \/ JobStep(j) \/ ControlStep(j) \/ Hang(j)
  \/ \E w \in Workers : LoopStep(w) \/ Sigterm(w) \/ DrainDeadline(w) \/ DrainDone(w)

Spec == Init /\ [][Next]_vars

\* The Go scheduler runs every goroutine that is not in a hung call and the
\* loop, and Drain's timer fires; clients, signals and faults owe nothing.
\* Claim is fair apart from ClaimFails: a pushed id is popped.
Fairness ==
  /\ \A j \in Jobs : WF_vars(JobStep(j)) /\ WF_vars(StartPublish(j))
  /\ \A w \in Workers : WF_vars(LoopStep(w)) /\ WF_vars(Claim(w))
                        /\ WF_vars(DrainDeadline(w)) /\ WF_vars(DrainDone(w))

FairSpec == Spec /\ Fairness

(***************************************************************************)
(* Properties.                                                             *)
(***************************************************************************)

\* Every variable stays in its domain: one slot counter per worker within its
\* capacity, one program counter and one status per job.
TypeOK ==
  /\ queue \in Seq(Jobs) /\ specs \subseteq Jobs /\ status \in [Jobs -> State]
  /\ startFlag \subseteq Jobs /\ owned \in [Workers -> SUBSET Jobs]
  /\ leases \subseteq Jobs /\ outputs \subseteq Jobs
  /\ sub \in [Jobs -> {"none", "requested", "active"}]
  /\ ctrl \in [Jobs -> Seq(Msg)] /\ killSent \subseteq Jobs
  /\ starting \subseteq Jobs /\ published \in [Jobs -> Nat]
  /\ slots \in [Workers -> 0..MaxSandboxes] /\ loop \in [Workers -> LoopPc]
  /\ sigterm \subseteq Workers /\ cancelled \subseteq Workers
  /\ pc \in [Jobs -> JobPc] /\ owner \in [Jobs -> Workers \cup {NoWorker}]
  /\ outcome \in [Jobs -> Final]
  /\ held \in [Jobs -> Seq(Msg)] /\ killSeen \subseteq Jobs
  /\ sandbox \subseteq Jobs /\ removal \in [Jobs -> {"none", "done", "refused"}]
  /\ killRefused \subseteq Jobs /\ hung \in [Jobs -> {"none"} \cup UntilCancel \cup Unbounded]
  /\ stage \in [Jobs -> Stage] /\ resulted \subseteq Jobs /\ lost \subseteq Jobs

HeldBy(w) == {j \in Jobs : owner[j] = w /\ pc[j] \in Holding}

\* The capacity semaphore neither leaks nor duplicates a slot on any path of
\* runJobFromSpec, early returns and cancellations included: free slots, the
\* loop's own and those of the jobs always add up to MaxSandboxes.
SlotsBalance ==
  \A w \in Workers :
    slots[w] + Cardinality(HeldBy(w)) + (IF loop[w] = "claim" THEN 1 ELSE 0) = MaxSandboxes

\* An id is in the queue at most once, and never while a goroutine has it: no
\* job runs twice, on one worker or on two.
ClaimedOnce ==
  /\ \A i \in DOMAIN queue : pc[queue[i]] = "unclaimed"
  /\ \A i, k \in DOMAIN queue : queue[i] = queue[k] => i = k

Has(s, m) == \E i \in DOMAIN s : s[i] = m

\* The durable flag and the live publish together lose no start: once a
\* /start handler is through, a job that is parked has the message coming.
StartDelivered ==
  \A j \in startFlag \ starting :
    pc[j] = "parked" /\ owner[j] \notin cancelled => Has(ctrl[j], "start")

\* A kill that reached the job's channel is pending, was seen by the compile
\* watch, or was carried out by the stdin pump, through the hand-over of the
\* channel from the park loop to the compile watch to the pump.  Carried out
\* means that the container is gone or that Docker refused the one attempt.
KillNeverForgotten ==
  \A j \in killSent :
    pc[j] \in Parked \cup Session /\ owner[j] \notin cancelled =>
      \/ Has(ctrl[j], "kill")
      \/ pc[j] = "compiling" /\ j \in killSeen
      \/ pc[j] = "running" /\ (j \notin sandbox \/ j \in killRefused)

\* The container of a job that waits, compiles or runs is in its worker's
\* owned-jobs set, from its first moment until the teardown, so no sweep can
\* take it for an orphan.
SandboxIsOwned ==
  \A j \in sandbox : pc[j] \in Parked \cup Session => j \in owned[owner[j]]

\* However a goroutine ends, no subscription survives it, and no container
\* but one whose removal was tried and refused; and unless the drain deadline
\* cut it short, it has left the owned-jobs set, given back its blob lease and
\* written a final status (or its keys had expired before the claim).
GivenBackUnlessCancelled ==
  \A j \in Jobs : pc[j] = "finished" =>
    /\ j \in sandbox => removal[j] = "refused"
    /\ sub[j] = "none"
    /\ owner[j] \notin cancelled =>
         /\ j \notin owned[owner[j]] /\ j \notin leases
         /\ status[j] \in Final \cup {"absent"}

\* The teardown writes the terminal status, so the status of a job whose
\* goroutine has ended is final (or its keys had expired before the claim).
EndedMeansFinal ==
  \A j \in Jobs : pc[j] = "finished" => status[j] \in Final \cup {"absent"}

\* The client's view of the jobs is the one JobLifecycle promises.
Lifecycle ==
  INSTANCE JobLifecycle WITH Jobs <- Jobs, Lossy <- "soketi" \in Faults,
                             status <- status, resulted <- resulted, lost <- lost
ImplementsLifecycle == Lifecycle!Spec

\* A claimed job's goroutine ends whatever fails, unless it stays for good in
\* one call that has no deadline: nothing else makes it wait forever.
ClaimedJobEnds == \A j \in Jobs : (pc[j] = "claimed") ~> (pc[j] = "finished" \/ []Hung(j))

\* A worker that gets SIGTERM drains and exits, unless one of its goroutines
\* stays for good in such a call: Drain's last wait has no limit.
DrainCompletes ==
  \A w \in Workers :
    (w \in sigterm) ~> \/ loop[w] = "exited"
                       \/ \E j \in Jobs : [](owner[j] = w /\ Hung(j))

===========================================================================

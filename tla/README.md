# code-runner: a TLA+ development

code-runner executes untrusted programs in sandboxes: a Hono API enqueues jobs in
Redis, Go workers claim them, start a container per job, stream its output over
soketi and report one result. This directory holds TLA+ models of that program,
translated from its source, TLC runs that check them on small instances, and
TLAPS proofs of what matters most for every instance. Paths below are relative
to the repository.

## The system

| component | source | state it keeps | operations |
| --- | --- | --- | --- |
| API submission | `apps/api/src/routes/execute.ts`, `admission.ts` | none of its own; `jobs:queue`, `job:<id>:spec`, `job:<id>:status` in Redis | validate, admit by queue depth, write spec and status, push the id |
| API control | `routes/control.ts`, `routes/jobs.ts`, `ratelimit.ts` | `start:<id>`, `stdin:pending:<id>` | start, stdin, stdin/close, kill, status, result |
| API blobs | `routes/blobs.ts` | `blob:meta:<hash>`, `blobs:index` | check, finalize |
| worker | `internal/worker/worker.go`, `apps/worker/main.go` | the slot semaphore, the claim context, `jobsCtx`, one goroutine per job | claim, run a job, drain |
| compile watch, stdin pump | `internal/worker/compile_watch.go`, `stdin_pump.go` | held messages, kill seen, EOF sent | consume the job's channels in turn |
| session | `internal/session` | `sync.Once`, output budget, truncated flag, activity channel | wall, idle and CPU clocks, two output pumps, terminate |
| sandbox backends | `internal/runner` | a container per job | create, compile, wait, kill, clean up |
| zygote pool | `internal/runner/zygote_pool.go`, `zygote.go`, `zygote_relay.go`, `tiered.go` | the map of parents, their in-flight counts, `pm.mu`, the idle reaper | get or create a parent, reserve, drop, reap, close |
| zygote agent | `languages/python-3.12/zygote_agent.py` | live children, cgroups, frames | fork, relay, reap |
| job store | `internal/jobstore`, `internal/keys` | `worker:<id>:heartbeat`, `worker:<id>:jobs`, the keys above | one Redis command per call |
| reaper | `internal/reaper` | nothing between sweeps | list containers, read who is alive, remove orphans |
| blob index and GC | `internal/blobindex`, `internal/worker/blobs.go` | leases, index, candidates, sweep lock | lease, pull, release, sweep |
| transport | `internal/stdintransport` | one Redis subscription per channel | publish, subscribe |
| publisher | `internal/publisher` | a sequence number per job | stage, chunks, result |
| React hook | `packages/code-runner-react` | what the page shows of a job | apply events, reconcile with a pulled status |

The components meet in Redis (lists, sets, flags with a TTL), in Pub/Sub channels
that forget what nobody is subscribed to, in Go channels of fixed capacity that drop
when full, and in the Docker daemon. What is hard is the timing between them: a
`/start` that arrives before the worker listens, a kill that arrives while the
channel changes hands, a SIGTERM in the middle of a claim, a sweep that reads two
sources at two moments, a clock that fires while the program exits.

### What is hard, and what makes each part correct

- **Worker.** Thirteen ways out of one job goroutine, each of which owes a slot, a
  membership in `worker:<id>:jobs`, blob leases, a result event, a final status and
  a container. The control channel passes through three consumers (compile watch,
  park loop, stdin pump). A SIGTERM stops the claim loop first and, after the drain
  deadline, cancels the context that every teardown runs under; Docker is asked once to
  remove a container, and three calls have no deadline at all. Correct means: each
  id is run once, everything is given back once, no start and no kill that arrived
  is forgotten, and the status only moves forward.
- **Reaper.** A sweep reads the containers, the worker ids, the heartbeats and the
  owned sets one after the other while jobs start and end. Correct means: no job in
  use is touched, and whatever a dead worker leaves is removed and reported.
- **Blob index and GC.** A sweep checks meta and leases and removes the object some
  commands later; a lock with a TTL keeps two replicas apart. Correct means: a blob
  that was leased when its sweep looked stays, what is stored is indexed, leases are
  returned, unused bytes go.
- **Session.** Wait and three clocks race for one teardown while two pumps share
  one budget and are never joined. Correct means: one outcome, an exact truncation
  flag, no output beyond the budget, no container and no goroutine left behind unless Docker refuses or stays silent.
- **Stdin path.** Two counters in Redis that concurrent requests of several API replicas
  move, two subscriptions, a channel of 256 chunks, a pump that selects at random, and a
  write that blocks as long as the program does not read. Correct means: what was measured fits
  the byte cap and the counter is what was charged, chunks arrive in order and before EOF, a kill is not held up
  by anything but a blocked write or one that failed.
- **Zygote pool.** A parent is shared by jobs and by an idle reaper, may be dropped by any
  job whose probe fails, and is launched under the lock all jobs wait for. Correct means:
  counts are exact, the reaper takes no parent in use, no container is without somebody
  who removes it, every job gets an answer.
- **Publisher and React hook.** Two pumps and the goroutine number their events from one
  counter and trigger outside its lock; a page that changes its job or loses its connection
  merges an event stream with pulled statuses. Correct means: a page shows its own job,
  misses nothing after the start handshake, keeps text in order, and ends at "done".

## Modules

| module | models | how state and actions map to the code |
| --- | --- | --- |
| `JobLifecycle` | abstract: what a client may see of one job | `status` is `job:<id>:status`, `resulted` the published result event; `lost`, possible only if `Lossy`, a result event soketi refused |
| `Worker` | claim loop, drain and job goroutine, with the API handlers and Redis keys they share | `pc[j]` is the point the goroutine of `j` has reached in `runJobFromSpec`; one action per Redis, Docker or channel operation of it; `loop[w]` is `Run` and `Drain`; `ctrl[j]` is `ctrlCh`, `held[j]` what the compile watch keeps; `StartFlag` and `StartPublish` are the two halves of `POST /start`; `removal[j]` is what became of `cleanupOnce`, `hung[j]` the call without a deadline the goroutine is in |
| `Reaper` | one sweep at a time per worker, heartbeats, crashes | `sweep[r]` holds the local variables of `Sweep` and the line it is at; job steps are those of `Worker` that a sweep can see; `Crash` ends a process at any step, its sweep included |
| `BlobGC` | leases and resolution of a job, `/v1/blobs/check` and `/finalize`, the SDK's upload, the sweep | each Redis or S3 command of a sweep is an action with the local state in `sweep[s]`; `Touch` is the Lua script; `meta`, `index`, `candidates`, `lease` are the keys |
| `BlobGCHeld` | a history variable over `BlobGC`: who leased a blob ever since a sweep looked at it | used by `PinnedFromStart` only |
| `Session` | pumps, budget, clocks, teardown, the Docker sandbox's connection, the job goroutine's last steps | `term` is the point reached in `terminate`, `clock` the four goroutines that call it, `hung` the calls to Docker that do not return, `pump[s]` the point of `Pump.Run` and what it forwards, `wire` what the attach connection holds |
| `ZygotePool` | the pool of warm parents with `Create` and `Cleanup` of the jobs routed to it, the fallback to the Docker tier, the idle reaper, `close` and the exit of the process | `pc[j]` is the point of `ZygoteRunner.Create` the job is at, `lock` is `pm.mu` while a parent is launched (all other critical sections are one action), `parents` and `inflight` are the map and the counts, `reaping` and `closing` the slices of parents taken out and not yet removed, `left` what the end of the process left in the first |
| `InputStream` | abstract: what a program may be given as input | `sent` the accepted chunks, `input`, `closed` |
| `StdinPath` | `POST /stdin` with its two guards, `/stdin/close`, `/kill`, the two subscriptions and channels of the worker, `stdinPump`, the pipe | `req[c]` is the guard a request is at, or the error it ended with, one action per Redis command and one for its failure; `stdinWire` and `ctrlWire` are what Redis has sent; `pump` is the place in the park loop and in `stdinPump.run`; `writing` the chunk in `write` |
| `JobHook` | the events of a job (`Publisher`, worker.go), soketi, the page's connection, `useCodeRunnerJob` and its pulls of the status | `step[j]` is how far the job has come, `stored[j]` the state in its status key, `seq` and `sending` the counter and what a pump triggers with; `net` is the connection; `channel` is the job of the effect, `posts` and `pulls` the requests under way, `shown` and `status` what the page shows |
| `MCWorker`, `MCReaper`, `MCBlobGC`, `MCBlobGCHeld`, `MCSession`, `MCZygotePool`, `MCStdinPath`, `MCJobHook` | instances for TLC: symmetry, hosts, refs, sizes, bounds | |
| `WorkerProofs`, `ReaperProofs`, `SessionProofs`, `BlobGCProofs`, `ZygotePoolProofs`, `StdinPathProofs`, `JobHookProofs` | theorems of the module they are named after | |
| `SequenceFacts` | lemmas about the elements of a queue | |

`Worker` and `Reaper` describe the same job at two grains: `Worker` has every command of
the goroutine and no other process that could remove its container; `Reaper` has only
the steps that change ownership, container and status, and adds crashes and sweeps.
`Session` opens the step that is `SessionEnds` in both, `BlobGC` the steps `ResolveBlobs` and
`ResolveBlobsFails` of `Worker`. `ZygotePool` opens `Create` and `Cleanup` for the tier of warm parents.
`StdinPath` follows the bytes that `Worker` leaves out along the control channel they share, and shares its
pump with `Session` at the pipe. `JobHook` is the far end of what `Worker` publishes: its job side has the
steps at which an event or a status becomes visible. Operators marked "Seeded fault" are variants of the action below them with a plausible mistake in it; no specification
uses them, and every property is known to fail under one of them.

### Abstractions and assumptions

- *Worker.* A client sends at most `MaxCtrl` messages; `CtrlCap` is 2 where that is no less than
  `MaxCtrl`, so a full channel occurs only in `Worker_faults` (capacity 1, three messages), where
  it is the question. The early returns after `Subscribe` (worker.go:579-597) are dead with the Redis
  transport, which reports no error, and are left out. A touch that fails after its lease
  is a failed command like others here; `BlobGC` has the detail. A Kill or a removal may be refused (`docker`), or is,
  under a cancelled context; a Trigger may fail (`soketi`); Create, the end of a session and Cleanup may never return
  (`hang`), calls to S3 not before the context is cancelled. A container that is left with `removal[j] = "refused"` is nobody's
  in this module: in the program it is an orphan without an owner, which the sweeps of `Reaper` list and remove. In the model a kill that the pump took and Docker
  refused leaves the session running; what ends it then is a clock or the program (`Session`).
- *Reaper.* All workers of the instances share a Docker host (`OneHost`); `HostOf` is a
  constant and the theorem holds for all. `MaxDown` bounds crashes and SIGTERMs together; the drain deadline
  is in `Worker`. SCAN is one step, for a key that exists throughout a scan is
  returned by it.
- *BlobGC.* A sweep is shorter than the grace period, unless `slowSweep`; the upload window (15 min)
  is shorter than the grace (30 min); a job is shorter than the idle TTL (24 h), unless `idle` lets
  the meta expire at any time. At least one replica stays up. The digest check is part of
  a pull that fails. A job whose worker dies (`Lost`) keeps its leases for ever, which no
  document denies: `UnusedCollected` speaks of jobs that ended or gave up. It leaves out two kinds of bytes
  that are in no index: those a client PUT and never finalized (`LeftBytes`), and those whose finalize met a scrub (`wiped`, see the
  other divergences below). A blob that a refused Remove left behind is in neither and has to go in a later sweep.
- *Session.* Output is counted in units of the budget and chunks are whole. Input and output
  are passed on in less than `IdleMs` (`Settled`): without it every idle timer is
  racy. The two requests of `Kill` are one step of which none, the first or both take effect; the removal in `Cleanup` is a step of its own, under
  its own context. No call to Docker has a deadline: with the event `hang` the hook, `Kill`, the removal, `ContainerWait` and the usage
  reading may never return; a cancelled job context ends all of them but the removal. The channel of stdin chunks belongs to `StdinPath`.
  Docker drops the output nobody is attached to.
- *ZygotePool.* A job launches at most one parent, so `Parents` needs one per job. The ticker of the idle reaper is
  left out: it may fire whenever a parent is idle. `idle` stands for `lastUsed` at least
  `ZygotePoolIdleMs` ago and is reset where the code sets `lastUsed`. A dial succeeds while the agent lives, hangs
  or not; `hang` is an agent that accepts and says nothing. `stray` collects the containers whose removal failed. The
  frames after STARTED belong to the relay. The process ends by `close`; a crash of it, which would leave all its parents, is not modelled.
- *StdinPath.* Chunks are told apart and have sizes in bytes; `InFlight` bounds the requests handled at the same
  time. A window of the rate limit ends at any moment (`NextWindow`), the pending counter at any moment at which
  no request is between its INCRBY and its answer (`PendingExpires`; the TTL is 300 s). With `redis` every command of the API may fail, before or
  after Redis has done it; what a client sends again after a 500 is another chunk, for the first may have gone out. With `pipe` a write may fail while the program runs. `sb.Kill` works here:
  its failure is in `Worker`. The control channel does not overflow here: that case is `Worker_faults`.
- *JobHook.* Output is one event per trigger; how text is cut is data. soketi passes what it accepts on in order
  to who is subscribed and keeps nothing for who is not. `MaxTurns` bounds changes of the job and
  lost connections together. `Over` are jobs that had ended when the page first looked. A job counts as opened before its start (`Fresh`)
  when neither a start nor a confirmation of an earlier opening is on its way. A page that comes back to a job within the round trip of its first
  subscribe is therefore outside `NothingMissed`: whether its early start is harmless depends on pusher-js, which keeps a pending subscription it is told to cancel.

## Runs

Each run asks one question of one component; the `Seeded fault` variants show that each property can fail.

| run | instance | shows |
| --- | --- | --- |
| `Worker_safety` | 2 workers of one slot, 2 jobs (one compiled, one with a blob), 1 control message each; SIGTERM, drain deadline, key expiry | Slots balance on every path, each id is claimed once, no start is lost between the flag and the publish, no sandbox is unowned before its teardown, every goroutine that was not cancelled gives everything back, none leaves a container but where the removal by a failed Create ran under a cancelled context, and the client sees the `JobLifecycle`. (`TypeOK`, `SlotsBalance`, `ClaimedOnce`, `StartDelivered`, `SandboxIsOwned`, `GivenBackUnlessCancelled`) |
| `Worker_faults` | 1 worker, 1 job (compiled, with a blob), a one-message channel and 3 messages; every fault; fair | While any Redis command, Trigger, Kill or removal may fail, SUBSCRIBE may be late, a call without a deadline may never return, and SIGTERM and the drain deadline come at any step: a kill that arrived survives every hand-over of a full channel until Docker has been asked once, the client sees the `JobLifecycle`, the goroutine ends and the process exits unless a goroutine stays for good in one of those calls. (`KillNeverForgotten`, `ImplementsLifecycle`, `ClaimedJobEnds`, `DrainCompletes`) |
| `Reaper_recovery` | 2 workers that both sweep, 1 job, 1 crash or SIGTERM; fair | Nobody touches a job in use, a draining worker keeps its sandboxes, and what a dead worker left gets a final status and leaves every owned-jobs set. (`InUseUntouched`, `OrphansReported`, `OrphansForgotten`) |
| `Reaper_faults` | as recovery, with failing Redis commands, failing removals and missed beats; fair | Orphaned containers are removed in the end. (`OrphansReaped`) |
| `BlobGC_collect` | 1 blob, an uploader and a reuser, 2 replicas; idle expiry, S3 refusals, one replica and the jobs may stop; fair | One replica sweeps at a time, a job that ended holds no lease, and unused bytes are reclaimed in the end, also after a refused Remove, unless no index lists them. (`OneSweep`, `LeasesReleased`, `UnusedCollected`) |
| `BlobGC_pinned` | 1 blob, 1 job that uploads it and uses it in two files, 2 replicas; idle expiry, overlapping sweeps, failing Redis commands | A blob leased from the start of a sweep is not removed by it while the lease lasts. (`PinnedFromStart`) |
| `Session_safety` | 2 streams, budget 2, 3 units of output in chunks of at most 2; stdin, EOF, kill, cancelled context | The budget is never exceeded, the flag is exact, the first of four callers decides the outcome, the idle clock spares an active program, and the container is gone when the job reports. (`ForwardedWithinBudget`, `TruncatedWhenCut`, `ContainerGone`, `FirstCallerDecides`, `IdleOnlyWhenQuiet`) |
| `Session_docker` | 1 stream, budget 1, 1 unit; EOF, kill, cancelled context, a Docker that refuses or never answers; fair | The wall clock still ends the session and the job is reported, and the pumps, the clocks and the Wait goroutine return, unless a call of the teardown stays for good. (`SessionEnds`, `GoroutinesEnd`) |
| `ZygotePool` | 2 jobs of one language, 2 parents; probe timeouts, crashes, hanging and refusing agents, the drain deadline; fair | The in-flight count of a parent is exact on every path, no pool container is without somebody who removes it, the reaper condemns no parent a job is counted in, every `Create` returns, and idle parents go. (`InflightExact`, `EveryParentOwned`, `ReapSparesCounted`, `CreateReturns`, `IdleReclaimed`) |
| `StdinPath` | 2 chunks of 2 and 1 bytes, a cap of 2 bytes and of 1 frame per window, channels and pipe of one chunk; EOF and kill; failing Redis commands, a broken pipe; fair | The byte counter is what was charged and what was measured fits the cap, EOF overtakes nothing the worker had queued, nothing accepted is forgotten, the input is an in-order part of what was accepted, and a kill that is in the worker's channel takes effect unless a write is blocked or has failed. (`CapIsKept`, `AcceptedIsAccountedFor`, `EofAfterQueued`, `ImplementsInputStream`, `KillTaken`) |
| `JobHook` | a compiled job with 2 streams and 2 output events and a job already over, 2 turns (the page changes its job or loses its connection); failing triggers, pulls, runs and status writes; fair | The page shows its own job only, misses no output of a job it opened before the start, be it its first or its second, text grows at its end, a pull never undoes an event, and the page ends at "done" except in the cases the property names. (`ShowsItsJob`, `NothingMissed`, `TextGrowsAtItsEnd`, `FallsBackForEventsOnly`, `SettlesDone`) |

The bounds are the smallest at which the cases meet. Two jobs put a claim beside a teardown and two workers
put one id in reach of two goroutines. Three messages overflow a channel of one: a message is held during the
compile, another fills the channel, and the kill has to survive the hand-back. Two reapers and one crash leave a
successor for every interrupted step. Two replicas let one sweep meet the lock, or the half-done scrub, of the other.
A budget of 2 and chunks of 2 let a chunk end before, on and beyond the budget while the other pump takes one
too; `Session_docker` needs no second pump, for the pumps only meet in the budget. Two jobs on one key are a
job that launches and one that waits for the lock, or one that is counted in while the other probes and drops the same
parent; a parent that was dropped is replaced by a second. Two chunks under a cap of the larger one make the counter exceed the cap
and return, one chunk in `stdinCh` fills it, one in the pipe blocks the next write. Two turns are enough for a page to leave
and to return, or to lose its connection once on each job. The safety properties of the two largest instances were also checked once
beyond these bounds: `ZygotePool` with 3 jobs, 2 keys and every fault (6.5 million states up to symmetry of the parents), `JobHook` with 3 turns
(11 million). `CHECK_DEADLOCK FALSE`:
every one of these systems ends (all jobs over, a process gone, a session closed) or is at rest until a client comes.
Symmetry (workers in `Worker_safety`, streams in `Session_safety`, replicas in `BlobGC_pinned`) is used in runs
without liveness properties only. The type invariants of the modules other than `Worker` are in no run:
TLAPS proves them.

The following run ends in a counterexample on purpose. It checks what a comment says of the code
against what the code does; the finding in `PROJECT.json` quotes both.

| run | property | what happens |
| --- | --- | --- |
| `BlobGC_leased_removed` | `LeasedNotRemoved` | A job that leases the blob after the SCARD of a sweep loses the bytes to its Remove. |

### Other divergences met while modelling

The models also reproduce the following. They have no run of their own; each counterexample was seen with the
formula and the instance in the last column (for the session: two streams, budget 2, three units of output; for the pool, the
stdin path and the page: the instance of their run). Paths of
code and comments are those of the file with that name under `src/`.

| code | claim | what happens | formula and instance |
| --- | --- | --- | --- |
| `worker.go:728` | worker.go:688 "called on every terminal path after Create. It … publishes the result event, and writes the terminal status" | after the drain deadline the terminal status write fails under the cancelled context: the status stays queued or running | `EndedMeansFinal`; 1 worker, 2 jobs, `Faults = {"sigterm", "deadline"}` |
| `worker.go:710` | architecture.mdx:63 "one node holds up to `WORKER_MAX_SANDBOXES` concurrent live sandboxes" | the slot is given back before the container is removed, so two containers exist on a one-slot worker | `Cardinality({j \in sandbox : owner[j] = w}) <= MaxSandboxes`; 1 worker, 2 jobs, no fault |
| `worker.go:704, 715` | capacity.go:50 "exactly once on every terminal path (… ctx cancel …)"; blobs.mdx:179 "removes it on every terminal path" | after the drain deadline both SREMs fail under the cancelled context: the id stays owned, the blob pinned | `GivenBackUnlessCancelled` without `owner[j] \notin cancelled`; as in the first row |
| `worker.go:720` | lifecycle.mdx:105 "The worker then emits exactly one terminal **`result`** event" | a Trigger that fails is only logged and not tried again; the final status is written without a result event | `status[j] \in Final => j \in resulted`; as `Worker_faults` with one message, `Faults = {"soketi"}` |
| `worker.go:1040` | rest.mdx:135 "SIGKILL the sandbox" (200) | a kill whose `sb.Kill` fails is logged and gone: the program runs on until a clock or the next kill | `KillNeverForgotten` without `j \in killRefused`; as `Worker_faults` with two messages, `Faults = {"docker"}` |
| `docker.go:673` | docker.go:670-672 "so no host-disk residue survives the job" | `cleanupOnce` asks Docker once; the error is dropped (lifecycle.go:136) or logged (worker.go:815) and the container stays until a sweep of the reaper takes it for an orphan | `pc[j] = "finished" => j \notin sandbox`; as `Worker_faults` with one message, `Faults = {"docker"}` |
| `docker.go:410` | runner.go:131-132 "so no slot leaks on any exit path" | `Create` that fails because its context was cancelled removes the container under that context, in vain, and returns no sandbox to clean up | as the row above, `Faults = {"sigterm", "deadline"}` |
| `worker.go:467` | worker.go:452-453 "then force-cancels any stragglers and stops the heartbeat" | the second wait of `Drain` has no limit, and neither the zygote agent's answer nor the removal under a Background context (docker.go:673) ends with the cancellation | `DrainCompletes` without its second disjunct; as `Worker_faults` with one message, `Faults = {"sigterm", "deadline", "hang"}` |
| `redis.go:88` | worker.go:832 "This is race-free combined with the live ctrlCh below" | SUBSCRIBE is not confirmed before the flag is read; a start in between is lost | `StartDelivered` with `Faults = {"lateSubscribe"}` |
| `reaper.go:191` | reaper.go:30-32 "a container is reaped ONLY if its jobId is in NO live worker's owned-jobs set" | one failed EXISTS or SMEMBERS in a sweep leaves the jobs of a live worker out of the live-job set, and a sandbox older than the grace period is removed under its session | `InUseUntouched` with `Faults = {"reaperRedis"}`, `MaxDown = 0` |
| `reaper.go:266` | scaling.mdx:185-188 "force-removes any container whose worker is gone … marking the job `error`" | the teardown disowns before it cleans up; a sweep in between writes "error" over the "done" or "killed" of a live worker | `[][status[j] \in {"done", "killed"} /\ status'[j] = "error" => proc[owner[j]] = "dead"]_vars`; 1 worker that sweeps, 1 job |
| `reaper.go:166` | docs/scaling.md:150 "marks owned jobs as failed" | a worker that dies owning a job without a container leaves a job no sweep looks at | `(proc[w] = "dead" /\ j \in owned[w]) ~> status[j] \in Final`; as `Reaper_recovery` |
| `reaper.go:247` | reaper.go:263 "so the client gets a terminal state instead of hanging forever" | a reaper that dies between ContainerRemove and WriteStatus leaves nothing for the next sweep to find | `OrphansReported` with 3 workers and `MaxDown = 2` |
| `gc.go:90` | gc.go:25 "Exactly one worker replica runs a sweep at a time" | nothing renews the lock and the DEL removes whoever's lock it is: a sweep that outlives it is joined by a second | `OneSweep` with `Faults = {"slowSweep"}` |
| `gc.go:136` | gc.go:23-24 "a blob about to be re-used is not deleted out from under it" | an upload that finalizes after the EXISTS of a sweep loses its bytes to that sweep | `outcome[j] # "missed"` for a job that uploads; 1 blob stored, 1 job, 1 replica, no fault |
| `blobindex.go:129` | schemas.ts:49 "Blobs already present in the store" | leasing a ref the store does not have creates `blob:meta`; check then calls it present and the SDK skips the PUT | `[][pc[j] = "checkTouch" /\ pc'[j] \in {"client", "lease"} => Ref(j) \in objects]_vars`; nothing stored, a reuser and an uploader |
| `gc.go:141` | blobindex.go:10 "SET of all known hashes (GC enumeration source)" | a finalize between Remove and the end of the scrub is wiped from the index: bytes nobody enumerates | `h \in objects => h \in index` unless a job is about to finalize `h`; 1 uploader, no fault |
| `blobs.go:149` | blobs.go:72-73 "Every leased hash is recorded in `leased`" | a lease whose touch fails is in no list and stays for ever | `LeasesReleased` with `Faults = {"redis"}` |
| `docker.go:433` | docker.go:424-425 "By delaying the connection close, we ensure stdcopy.StdCopy has time to forward the process's last output bytes" | half a second after stdin is closed the attach connection is closed in both directions while the program may still run: the rest of its output is lost | `ForwardsAfterEof`; EOF only |
| `pump.go:103` | interactive.go:50 "Sinks are not called after teardown." | a pump that holds a chunk forwards it after RunInteractive has returned | `[][worker # "session" => published' = published]_vars`; no event |
| `worker.go:746` | worker.go:512 "The persisted RunResult's stdout/stderr therefore equal the soketi stream." | the result is assembled while a pump holds a chunk: the client receives it, the stored result lacks it | `worker = "persisted"` and both pumps ended imply `persisted = published`; no event |
| `lifecycle.go:143` | concepts/lifecycle.mdx:122 "`truncated` is `true` if output exceeded the `outputKb` budget" | a program that exits right after overflowing the budget is reported with `truncated` false | `result.reason = "wait" /\ produced > Budget => result.truncated`; no event |
| `lifecycle.go:136` | pump.go:78 "The reader is always read to completion" | the program exits by itself and Cleanup closes the pipes before the pumps have read what it wrote | both pumps ended and `proc = "exited"` imply `budget = Budget - produced`; no event |
| `lifecycle.go:129` | interactive.go:25 "AFTER the process has terminated but BEFORE the sandbox is killed and removed" | a clock fires while the program runs, or a kill has removed the container: the hook runs beside a live program or finds nothing | `term = "hook" => proc # "running" /\ box`; kill |
| `pump.go:119` | three-clocks.mdx:27 "an actively-working program is never killed for being "idle"" | past its budget a program no longer resets the idle timer | `IdleOnlyWhenQuiet` without `budget < 0`; no event |
| `zygote_pool.go:124` | zygote_pool.go:9 "with no jobs" | a job that has its parent from the map is counted in only when it dials, after the lock was released: the idle reaper removes the parent in between (the job then falls back) | `ReapedWithoutJobs` with `Faults = {}` |
| `zygote_relay.go:246` | zygote.go:89-90 "any reserved pool resource are released so no worker slot leaks" | the wait for STARTED has neither a deadline nor the context: an agent that accepts and never answers keeps `Create`, the worker's slot and `Drain` | `CreateReturns` without its last disjunct, `Faults = {"hang"}`; in `Worker` see docker.go:673 |
| `zygote_pool.go:271` | zygote_pool.go:271 "close stops the reaper and tears down all warm parents" | close removes what is in the map; a parent the idle reaper has just taken out is left to a goroutine that ends with the process | `left = {}`, `Faults = {}` |
| `zygote_pool.go:213` | zygote_pool.go:11-12 "the dead parent is removed and respawned on the next request" | a removal under a cancelled job context fails and nobody retries it, for pool containers lack the label the sandbox reaper lists by | `stray = {}`, `Faults = {"probe", "deadline"}` |
| `ratelimit.ts:106` | ratelimit.ts:9-10 "the worker DECRBYs as it drains" | no code of the worker touches the counter: once the cap is reached every chunk is refused until the counter expires | `\A c \in Chunks : req[c] = "refused" ~> req[c] = "accepted"`, even with strong fairness of `Post` and `CapCheck` |
| `ratelimit.ts:108` | ratelimit.ts:79 "Returns 429 if the cap is exceeded" | the pipeline's errors are in its results, which are not looked at: without a total a chunk passes whatever is pending | `Bytes({c \in Charged : req[c] \in {"publish", "accepted", "failed"}}) <= ByteCap`, `Faults = {"redis"}` |
| `ratelimit.ts:113` | ratelimit.ts:112 "Undo the increment so the cap is not permanently inflated on rejected frames" | a DECRBY that fails ends the request with a 500, and the charge stays until the counter expires | `pending = Bytes({c \in Charged : req[c] # "charged"})`, `Faults = {"redis"}` |
| `stdin_pump.go:99` | rest.mdx:135 "SIGKILL the sandbox" (200) | a write that fails ends the pump; should the program still run, nobody reads a later kill | `KillTaken` without `pump = "broken"`, `Faults = {"pipe"}` |
| `worker.go:585` | stdin_pump.go:16-17 "If the close won, the program got EOF before its input and the chunk was lost"; the cure, draining first, covers what has reached the worker only | `/stdin/close` travels on the other subscription and can overtake a chunk accepted before it: the chunk is dropped after EOF | `[][~eof /\ eof' /\ lost = {} => ToSet(published) = ToSet(input)]_vars` |
| `worker.go:573` | rest.mdx:105 "Write a chunk to the running process's stdin" (200) | a chunk answered with 200 is dropped when `stdinCh` is full or the worker has not subscribed yet | `lost = {}` |
| `useCodeRunnerJob.ts:217` | useCodeRunnerJob.ts:37 ""done" — terminal result received" | output that a pump publishes after the result sets the page back to "running", where it stays | `DoneStaysDone`; `SettlesDone` without `trailing[j] # {}` |
| `useCodeRunnerJob.ts:198` | useCodeRunnerJob.ts:189-191 "reconcile against the persisted status for a late join" | a page that joins between the result event and the final status write, or any time later if that write fails (worker.go:733), pulls "running" and never learns of the end | `SettlesDone` without `j \in excused`, `Faults = {}` or `{"status"}` |
| `docker.go:603` | concepts/lifecycle.mdx:119 "`exitCode` is `null` when the process was killed by a signal" | after a kill Docker reports 137 and the result carries it as an exit code | `result.exit # "137"`; kill |

## Fairness

- `Worker`: weak fairness of each goroutine that is not in a hung call and of the claim loop, for the Go scheduler runs what can run. That
  a call without a deadline returns is not assumed (`Hang` may meet Create, the end of a session, Cleanup and the calls to S3); Redis is called with the
  timeouts of its client. The timer of `Drain` fires, so its deadline is fair; weak fairness of the second half of `/start`, for
  an HTTP handler that has done its SET goes on to its PUBLISH. A claim is fair although Redis may fail
  once. Clients, signals and faults owe nothing.
- `Reaper`: keys expire, containers age, tickers fire and sweeps proceed (weak fairness). `Scan` and the removal
  of a given orphan are strongly fair: errors of Redis and of the Docker daemon are transient, and every tick tries again.
- `BlobGC`: keys expire, some replica takes a free lock, a sweep goes on. `Remove` is strongly
  fair: S3 refuses now and then, not for ever.
- `Session`: the wall clock fires, pumps, teardown and job goroutine go on as long as they are in no hung call; `Wait` returns when the program has
  ended or the context is cancelled, unless it hangs. No fairness for the program, the client, the idle and CPU
  clocks, the flush delay or the daemon, which may refuse or never answer any call.
- `ZygotePool`: the steps of a `Create` are strongly fair, and so is the idle reaper, for Go's mutex starves nobody while others take
  and release it; sessions end, cleanups and removals go on, a closed process exits. No job, shutdown or fault has to happen.
- `StdinPath`: the park loop and the pump go on. The kill case of the pump's select is strongly fair, because Go picks among the
  ready cases at random. A killed program ends. Clients, the API, Redis and the delivery goroutines owe nothing, and a program reads nothing that it does not want to.
- `JobHook`: soketi and the browser deliver, pulls are answered or fail, a lost connection comes back, a POST that was sent is handled, and the
  worker parks a job it has claimed and writes the final status after the result. Programs, users and the network owe nothing.

## What is proved

All theorems hold for every value of the constants that the named assumptions admit.

| theorem | states | argument |
| --- | --- | --- |
| `WorkerProofs!TypeCorrect` | `TypeOK` | one lemma per action |
| `WorkerProofs!ClaimsAreUnique` | `ClaimedOnce` | an id that is in the queue has no goroutine, and BRPOP takes what it returns out of it |
| `WorkerProofs!SlotsAlwaysBalance` | `SlotsBalance` | inductive invariant `SlotsInv` (types, unique claims, a goroutine that holds a slot has an owner, the balance): the free slots of a worker and the jobs that hold one add up to `MaxSandboxes`. `SlotsBalance` alone is not inductive: two goroutines for one id would share a slot |
| `WorkerProofs!KillsAreNeverForgotten` | `KillNeverForgotten`, all faults | job by job: `KillPlaced(j)`: none was sent before the subscription, the channel never exceeds its capacity, and while the job waits or runs a kill that was sent is in the channel, seen by the compile watch, has removed the container, or was refused by Docker in its one attempt; the publish and the hand-back, which may find the channel full, are the steps with work in them; with `Resources(j)` |
| `WorkerProofs!StartsAreDelivered` | `StartDelivered`, assuming `StartIsHeard` (no `redis`, no `lateSubscribe`, `MaxCtrl <= CtrlCap`) | `StartPlaced(j)`: before the start the subscription is in force and the channel holds no more than was published, so the publish finds room; the flag is read after the SUBSCRIBE. TLC refutes the property when any one of the three parts is dropped |
| `WorkerProofs!SandboxesAreOwned` | `SandboxIsOwned`, assuming `RedisAnswers` | `Owned(j)`: the entry is there from `AddOwnedJob` to `Disown`, and a container exists only between the two, in the teardown, or after a refused removal. A failed SADD is only logged, hence the assumption |
| `WorkerProofs!EverythingGivenBack` | `GivenBackUnlessCancelled`, assuming `RedisAnswers` | `Returned(j)`: past the release of the lease there is none, past the status write the status is final, on each of the early returns; no container but one whose removal was tried and refused, from `Resources(j)` |
| `WorkerProofs!NothingSurvivesItsJob` | for all faults: a finished goroutine has no subscription, and a container only if its removal was tried and refused (`removal[j] = "refused"`); that cannot happen while Docker answers (no `docker`) and the job's context is not cancelled | `Resources(j)`: both exist only between the step that makes them and the step that closes them; a container beyond it has its one attempt behind it |
| `WorkerProofs!WorkerImplementsLifecycle` | `ImplementsLifecycle`, all faults | `InOrder(j)`: no final status before the one attempt to publish the result, which succeeded or is `lost` (only with `soketi`), no "running" before the run, "killed" only for a job that never ran. With it each step is one of `JobLifecycle` for one job, or a stutter |
| `ReaperProofs!TypeCorrect` | `TypeOK` | one lemma per action |
| `ReaperProofs!InUseJobsUntouched` | `InUseUntouched`, assuming `RedisAnswers` (no failed read in a sweep or a job, no missed beat) | inductive invariant `ShieldInv`: as long as a job is in use, every sweep that has its container in its listing has also read, or will still read, what protects it (the id of its owner, its heartbeat, the owned set), because ownership is written before the container exists. Without the assumption the statement is false (see the divergences) |
| `BlobGCProofs!TypeCorrect` | `TypeOK` | one lemma per actor; every step of a sweep that speaks of a blob has one |
| `BlobGCProofs!OneSweepAtATime` | `OneSweep`, assuming `SweepsAreShort` (no `slowSweep`) | `LockInv`: whoever sweeps holds the lock. Without the assumption it is false (see the divergences) |
| `BlobGCProofs!NoLeaseLeft` | `LeasesReleased`, assuming `RedisAnswers` | `LeaseKnown`: a lease of a job is in the list its goroutine will release, is the one it is taking, or belongs to a job that was lost |
| `BlobGCProofs!OldLeasesPin` | `PinnedFromStart`, for `HeldSpec` and all faults | `SeenUnleased`: a blob that a sweep has found unleased with SCARD was not leased ever since that sweep read the index |
| `SessionProofs!TypeCorrect` | `TypeOK` | one lemma per group of actions, with `Outcome` (a result presupposes a caller) |
| `SessionProofs!TruncationExact` | `TruncatedWhenCut` | strengthened by `MarkedAfterCut`: a pump is about to raise the flag only when the budget is below zero |
| `SessionProofs!ContainerRemoved` | `ContainerGone`, assuming `DockerAnswers` (Docker refuses no request; it may be slow for ever, and the context may end) | `Removed`: past `Remove`, which has its own context, there is no container; a job reports only what `terminate` has sent after it |
| `SessionProofs!OneTeardown` | `FirstCallerDecides` | `Outcome`: a result exists only past the step that sends it, so it is sent once |
| `SessionProofs!BudgetHolds` | `ForwardedWithinBudget`, for finite `Streams` (the code has two) | `Accounted`: what the budget let through is collected or in a pump's hands before the collector, what is collected is published or in a pump's hands after it. The hands are counted byte by byte (the cardinality of pairs of a stream and a position), so that a step of one pump moves its own share only |
| `SessionProofs!IdleExpiresWhenQuiet` | `IdleOnlyWhenQuiet` | `SeenByIdle`: activity the idle clock has not seen is on the wire, in a pump, in one of its two channels, or was cut by the budget; the clock expires only with all of these empty |
| `ZygotePoolProofs!TypeCorrect`, `InflightIsExact`, `ParentsOwned` | `TypeOK`, `InflightExact`, `EveryParentOwned` | inductive invariant `PoolInv`: types with a parent for every job that is at one, the two properties, `LaunchingAlone` (who launches holds the lock and the key is not mapped, so no mapped parent is overwritten), `EndOfPool` (an open pool closes nothing, a living process has left nothing, and a closed one has neither a map nor a launch). The counts by cardinality: a job enters or leaves the set of holders in the step that adds or subtracts one |
| `ZygotePoolProofs!ReaperSpares` | `ReapSparesCounted` | from `InflightExact`: a count of zero is an empty set of holders |
| `StdinPathProofs!NothingForgotten` | `AcceptedIsAccountedFor` | inductive invariant `PathInv`: a chunk is published once, by its own request, and the input, the chunk in write, `stdinCh` and the wire are a line in the order of publication |
| `StdinPathProofs!EofWaits` | `EofAfterQueued` | EOF comes from the end of the drain only, where `stdinCh` is empty and nothing is in write |
| `StdinPathProofs!RefinesInputStream` | `ImplementsInputStream` (`InputStream` with `sent <- published`, `closed <- eof`) | by `PathInv` what is written next stands behind what was written last in the order of publication, so each step is one of `InputStream` or a stutter |
| `StdinPathProofs!CapHolds`, `TypeCorrect` | `CapIsKept`, `TypeOK` | for all faults. `CapInv`: the counter is the bytes of the charged chunks, those of failed requests included, and a chunk between its INCRBY and its answer is not a forgiven one, so that the take-back takes what was charged. `Bytes` counts the bytes of a set of chunks (`BytesFacts`: none for no chunk, its size more for a chunk more, no fewer for a larger set); a measured chunk is published only when the total it has made fits the cap |
| `JobHookProofs!TypeCorrect`, `ShowsOwnJobOnly` | `TypeOK`, `ShowsItsJob` | inductive invariant `HookInv`: every message on its way and every status pulled tells the truth about its job, and only pulls of the present effect are active |
| `JobHookProofs!HandshakeMissesNothing` | `NothingMissed`, for every job that was opened before its start, after whatever others, and over connections lost before the start | `HandshakeInv`: while that holds, a start or a confirmation of the present job means that the page is connected and in its channel; a job that was not started has published no output |
| `JobHookProofs!TextInOrder` | `TextGrowsAtItsEnd` | the numbers of a stream ascend from what is shown through the queue to what its pump triggers with |
| `JobHookProofs!FallsBackOnlyWithReason` | `FallsBackForEventsOnly` | `SettledInv`: a page that is connected is in the channel of its job or about to ask for it, so when the job has ended every event of it on its way has the result or a new confirmation behind it, unless it was published late, the result was lost or the page joined after it with no final status stored |

The proofs about `Worker` past the slots go job by job. `StepOf(j)` is a step of the goroutine, the client or the
fault of job `j`, and `Untouched(j)` says that a step leaves all that belongs to `j` alone, but for its worker being
cancelled; every step is the one or the other for every job (`StepOfOneJob`). An invariant that speaks of one job is therefore
proved for its own steps only. Each of these invariants was checked with TLC on the instances of `Worker_safety` and `Worker_faults` before it
was proved, `SettledInv` on that of `JobHook`.

Only model-checked: the liveness properties (`ClaimedJobEnds`, `DrainCompletes`, `OrphansReaped`, `OrphansReported`,
`OrphansForgotten`, `UnusedCollected`, `SessionEnds`, `GoroutinesEnd`, `CreateReturns`, `IdleReclaimed`, `KillTaken`,
`SettlesDone`), for fairness and ENABLED are outside this prover. Every safety property of a run, invariant, action property or refinement,
is proved. The expected violation and the divergences above are counterexamples of TLC.

## Not modelled

Admission by queue depth (one read before one push). The frames of a zygote connection and the agent's
fork loop: planned below. The pull of `/output` by the example page: `job-view.tsx:51-63` asks once
when it shows "done", while the worker stores the output after the result event, the status and the artifact uploads
(worker.go:720-808), so the answer is typically a 404; this was read, not modelled. The reference count of shared connections
in `provider.tsx`. The artifact store, telemetry, logging, configuration, manifests and generated contract types hold no
state a property is about. Container options, seccomp and file copies are input to Docker. `Run` and `RunWithTruncated` of
the session are `RunInteractive` without sinks and have no caller in the worker.

Most JavaScript of the repository is outside the program: `.github/skills/impeccable` (36,033 of the 42,731 lines
of JavaScript and TypeScript) is a vendored editor skill that nothing in `apps`, `packages` or `internal` runs. The core
the models are about, `internal/`, is Go.

## Plan

Done, in this order: `JobLifecycle`, `Worker`, `WorkerProofs`, `Reaper`, `ReaperProofs`, `BlobGC`, `Session`, `SessionProofs`,
`ZygotePool`, `InputStream`, `StdinPath`, `JobHook`, the proofs of the last three and of `BlobGC`, and the proofs of all
safety properties the runs check.

1. `ZygoteRelay` with the agent: frames in order, exactly one exit frame, credits.
2. `Admission`: queue depth over several replicas.
3. Weaker assumptions where a theorem has one: `SandboxesAreOwned` job by job for the commands that did not fail,
   `EverythingGivenBack` likewise.

------------------------------- MODULE BlobGC -------------------------------
(***************************************************************************)
(* Content-addressed blobs: the lock-guarded garbage collection            *)
(* (internal/blobindex/gc.go) beside those who use a blob, the SDK's       *)
(* upload through /v1/blobs/check and /v1/blobs/finalize                   *)
(* (apps/api/src/routes/blobs.ts) and the worker resolving the refs of a   *)
(* job (internal/worker/blobs.go).  Bytes are in S3, liveness in Redis.    *)
(***************************************************************************)
EXTENDS Naturals, FiniteSets, Sequences

CONSTANTS
  Hashes,    \* blob refs, "sha256:<hex>"
  Stored,    \* those uploaded and finalized before the behaviour begins
  Jobs,      \* a request to /v1/execute, with what the client did for it
  Refs,      \* the refs among the files of a job, in order
  Reusers,   \* the jobs that submit a ref kept from an earlier upload
  Sweepers,  \* worker replicas that run the GC
  Faults,    \* the adverse events a behaviour may contain
  NoHash

FaultKinds == {"redis", "store", "client", "crash", "slowSweep", "idle"}

ASSUME FaultsAssumption == Faults \subseteq FaultKinds
ASSUME BlobsAssumption  == NoHash \notin Hashes /\ Stored \subseteq Hashes /\ Reusers \subseteq Jobs
ASSUME RefsAssumption   == /\ Refs \in [Jobs -> Seq(Hashes)]
                           /\ \A j \in Jobs : Refs[j] # <<>>

VARIABLES
  objects,     \* hashes whose bytes S3 has
  meta,        \* hashes whose blob:meta:<hash> has not idled out
  index,       \* blobs:index
  lease,       \* blob:lease:<hash>, the job ids
  candidates,  \* blobs:gc:candidates
  lock,        \* blobs:gc:lock exists
  sweep,       \* the sweep of each replica
  pc, pos,     \* what a job does, and with which of its refs
  leased,      \* resolveBlobRefs' list, later what is left to release
  outcome,
  wiped        \* auxiliary: blobs finalized between a sweep's Remove and its SREM

bytes     == <<objects, wiped>>
redisVars == <<meta, index, lease, candidates, lock>>
jobVars   == <<pc, pos, leased, outcome>>
vars      == <<bytes, redisVars, sweep, jobVars>>

Age      == {"none", "fresh", "aged"}
SweepAt  == {"idle", "list", "next", "live", "lease", "score", "add", "recovered", "remove",
             "scrubIndex", "scrubCandidate", "scrubLease", "scrubMeta", "unlock", "stopped"}
\* due: the candidates scored more than the grace window before nowMs.
Sweep    == [at : SweepAt, todo : SUBSET Hashes, due : SUBSET Hashes, hash : Hashes \cup {NoHash}]
Idle     == [at |-> "idle", todo |-> {}, due |-> {}, hash |-> NoHash]
OfClient == {"client", "checkTouch", "put", "finalize"}
OfWorker == {"lease", "leaseTouch", "pull", "touch", "running", "release"}
JobPc    == OfClient \cup OfWorker \cup {"finished", "gaveUp", "leftBytes", "lost"}
Outcome  == {"none", "ran", "missed", "error"}

Init ==
  /\ objects = Stored /\ meta = Stored /\ index = Stored
  /\ lease = [h \in Hashes |-> {}] /\ candidates = [h \in Hashes |-> "none"] /\ lock = FALSE
  /\ sweep = [s \in Sweepers |-> Idle]
  /\ pc = [j \in Jobs |-> "client"] /\ pos = [j \in Jobs |-> 1]
  /\ leased = [j \in Jobs |-> {}] /\ outcome = [j \in Jobs |-> "none"]
  /\ wiped = {}

Ok(fault) == IF fault \in Faults THEN BOOLEAN ELSE {TRUE}

\* The Lua script: index and liveness in one step, the TTL never shortened.
Touch(h) == meta' = meta \cup {h} /\ index' = index \cup {h}

(***************************************************************************)
(* The SDK and the two API routes.                                         *)
(***************************************************************************)

Ref(j) == Refs[j][pos[j]]

\* On to the next ref, or to `then' after the last one.
Onward(j, again, then) ==
  IF pos[j] < Len(Refs[j])
  THEN pc' = [pc EXCEPT ![j] = again] /\ pos' = [pos EXCEPT ![j] = @ + 1]
  ELSE pc' = [pc EXCEPT ![j] = then]  /\ pos' = [pos EXCEPT ![j] = 1]

Goto(j, there) == pc' = [pc EXCEPT ![j] = there]

\* POST /v1/blobs/check answers from blob:meta alone; the reply to a
\* missing hash carries the presigned URL.
CheckExists(j) ==
  /\ pc[j] = "client" /\ j \notin Reusers
  /\ Goto(j, IF Ref(j) \in meta THEN "checkTouch" ELSE "put")
  /\ UNCHANGED <<bytes, redisVars, sweep, pos, leased, outcome>>

CheckTouch(j) ==
  /\ pc[j] = "checkTouch"
  /\ Touch(Ref(j))
  /\ Onward(j, "client", "lease")
  /\ UNCHANGED <<bytes, lease, candidates, lock, sweep, leased, outcome>>

Put(j) ==
  /\ pc[j] = "put"
  /\ objects' = objects \cup {Ref(j)}
  /\ Goto(j, "finalize")
  /\ UNCHANGED <<wiped, redisVars, sweep, pos, leased, outcome>>

Finalize(j) ==
  /\ pc[j] = "finalize"
  /\ Touch(Ref(j))
  /\ wiped' = IF \E s \in Sweepers : sweep[s].at = "scrubIndex" /\ sweep[s].hash = Ref(j)
              THEN wiped \cup {Ref(j)} ELSE wiped
  /\ Onward(j, "client", "lease")
  /\ UNCHANGED <<objects, lease, candidates, lock, sweep, leased, outcome>>

\* A raw {name, ref} passes through the SDK and the API unchecked.
Reuse(j) ==
  /\ pc[j] = "client" /\ j \in Reusers
  /\ Onward(j, "client", "lease")
  /\ UNCHANGED <<bytes, redisVars, sweep, leased, outcome>>

\* A failed PUT or API call throws out of upload; or the client is gone.  One
\* that is gone before finalize leaves bytes behind.
GiveUp(j) ==
  /\ "client" \in Faults /\ pc[j] \in OfClient
  /\ Goto(j, IF pc[j] = "finalize" THEN "leftBytes" ELSE "gaveUp")
  /\ UNCHANGED <<bytes, redisVars, sweep, pos, leased, outcome>>

(***************************************************************************)
(* The worker: resolveBlobRefs, the run, releaseLeases.                    *)
(***************************************************************************)

Fail(j, why) == Goto(j, "release") /\ outcome' = [outcome EXCEPT ![j] = why] /\ UNCHANGED pos

\* The worker refuses a file with content beside its ref, an ill-formed ref or
\* an unsafe path before it leases; the SADD may fail.
LeaseAdd(j) ==
  /\ pc[j] = "lease"
  /\ \/ /\ lease' = [lease EXCEPT ![Ref(j)] = @ \cup {j}]
        /\ Goto(j, "leaseTouch") /\ UNCHANGED <<pos, outcome>>
     \/ Fail(j, "error") /\ UNCHANGED lease
  /\ UNCHANGED <<bytes, meta, index, candidates, lock, sweep, leased>>

LeaseTouch(j) ==
  /\ pc[j] = "leaseTouch"
  /\ \/ /\ Touch(Ref(j))
        /\ leased' = [leased EXCEPT ![j] = @ \cup {Ref(j)}]
        /\ Goto(j, "pull") /\ UNCHANGED <<pos, outcome>>
     \/ "redis" \in Faults /\ Fail(j, "error") /\ UNCHANGED <<meta, index, leased>>
  /\ UNCHANGED <<bytes, lease, candidates, lock, sweep>>

\* Seeded fault: the failed job returns without releaseLeases.
PullUnreleased(j) ==
  /\ pc[j] = "pull"
  /\ \/ Ref(j) \in objects /\ Goto(j, "touch") /\ UNCHANGED <<pos, outcome>>
     \/ Ref(j) \notin objects /\ Goto(j, "finished") /\ UNCHANGED <<pos, outcome>>
  /\ UNCHANGED <<bytes, redisVars, sweep, leased>>

PullAndVerify(j) ==
  /\ pc[j] = "pull"
  /\ \/ Ref(j) \in objects /\ Goto(j, "touch") /\ UNCHANGED <<pos, outcome>>
     \/ Ref(j) \notin objects /\ Fail(j, "missed")
     \/ "store" \in Faults /\ Fail(j, "error")
  /\ UNCHANGED <<bytes, redisVars, sweep, leased>>

\* A failed touch is ignored: the lease already pins the blob.
TouchSize(j) ==
  /\ pc[j] = "touch"
  /\ \E ok \in Ok("redis") : IF ok THEN Touch(Ref(j)) ELSE UNCHANGED <<meta, index>>
  /\ Onward(j, "lease", "running")
  /\ UNCHANGED <<bytes, lease, candidates, lock, sweep, leased, outcome>>

RunEnds(j) ==
  /\ pc[j] = "running"
  /\ Goto(j, "release") /\ outcome' = [outcome EXCEPT ![j] = "ran"]
  /\ UNCHANGED <<bytes, redisVars, sweep, pos, leased>>

Release(j, h) ==
  /\ pc[j] = "release" /\ h \in leased[j]
  /\ \E ok \in Ok("redis") : lease' = IF ok THEN [lease EXCEPT ![h] = @ \ {j}] ELSE lease
  /\ leased' = [leased EXCEPT ![j] = @ \ {h}]
  /\ UNCHANGED <<bytes, meta, index, candidates, lock, sweep, pc, pos, outcome>>

Released(j) ==
  /\ pc[j] = "release" /\ leased[j] = {}
  /\ Goto(j, "finished")
  /\ UNCHANGED <<bytes, redisVars, sweep, pos, leased, outcome>>

\* The worker process dies with the job.
Lost(j) ==
  /\ "crash" \in Faults /\ pc[j] \in OfWorker
  /\ Goto(j, "lost")
  /\ UNCHANGED <<bytes, redisVars, sweep, pos, leased, outcome>>

(***************************************************************************)
(* Time.  A sweep takes less than the grace window (30 min), so what was   *)
(* scored again since a sweep began does not age before it ends.  Without  *)
(* the fault "idle", an upload (its URL holds for 15 min) also takes less  *)
(* than the grace window, and a job less than the idle TTL (24 h).         *)
(***************************************************************************)

Running(s) == sweep[s].at \notin {"idle", "stopped"}

\* Some job has touched h, or is about to, and has not ended.
Outstanding(h) ==
  \E j \in Jobs : /\ \E i \in DOMAIN Refs[j] : Refs[j][i] = h
                  /\ pc[j] \in (OfClient \cup OfWorker) /\ ~(pc[j] = "client" /\ pos[j] = 1)

InUpload(h) == \E j \in Jobs : pc[j] \in {"checkTouch", "put", "finalize"} /\ Ref(j) = h

MetaExpires(h) ==
  /\ h \in meta /\ ("idle" \in Faults \/ ~Outstanding(h))
  /\ meta' = meta \ {h}
  /\ UNCHANGED <<bytes, index, lease, candidates, lock, sweep, jobVars>>

Ages(h) ==
  /\ candidates[h] = "fresh" /\ \A s \in Sweepers : h \notin sweep[s].due
  /\ "idle" \in Faults \/ ~InUpload(h)
  /\ candidates' = [candidates EXCEPT ![h] = "aged"]
  /\ UNCHANGED <<bytes, meta, index, lease, lock, sweep, jobVars>>

\* The lock outlives a sweep unless the sweep takes longer than an interval
\* and a minute; one left by a stopped replica ends by itself.
LockExpires ==
  /\ lock /\ ("slowSweep" \in Faults \/ \A s \in Sweepers : ~Running(s))
  /\ lock' = FALSE
  /\ UNCHANGED <<bytes, meta, index, lease, candidates, sweep, jobVars>>

(***************************************************************************)
(* Sweep.                                                                  *)
(***************************************************************************)

At(s, there)   == sweep' = [sweep EXCEPT ![s].at = there]
NextHash(s)    == sweep' = [sweep EXCEPT ![s].at = "next", ![s].hash = NoHash]
From(s, there) == sweep[s].at = there
Hash(s)        == sweep[s].hash

\* Seeded fault: SET without NX.
AcquirePlain(s) ==
  /\ From(s, "idle")
  /\ lock' = TRUE
  /\ \E ok \in Ok("redis") : At(s, IF ok THEN "list" ELSE "idle")
  /\ UNCHANGED <<bytes, meta, index, lease, candidates, jobVars>>

\* SET NX; with the lock held elsewhere the sweep is skipped.
Acquire(s) ==
  /\ From(s, "idle") /\ ~lock
  /\ lock' = TRUE
  /\ \E ok \in Ok("redis") : At(s, IF ok THEN "list" ELSE "idle")
  /\ UNCHANGED <<bytes, meta, index, lease, candidates, jobVars>>

List(s) ==
  /\ From(s, "list")
  /\ \/ sweep' = [sweep EXCEPT ![s].at = "next", ![s].todo = index,
                               ![s].due = {h \in Hashes : candidates[h] = "aged"}]
     \/ "redis" \in Faults /\ At(s, "unlock")
  /\ UNCHANGED <<bytes, redisVars, jobVars>>

CheckMeta(s, h) ==
  /\ From(s, "next") /\ h \in sweep[s].todo
  /\ \E ok \in Ok("redis") :
       sweep' = [sweep EXCEPT ![s].at = IF ~ok THEN "next" ELSE IF h \in meta THEN "live" ELSE "lease",
                              ![s].hash = IF ok THEN h ELSE NoHash, ![s].todo = @ \ {h}]
  /\ UNCHANGED <<bytes, redisVars, jobVars>>

\* Seeded fault: the expired TTL is enough.
CheckLeaseNot(s) ==
  /\ From(s, "live") \/ From(s, "lease")
  /\ At(s, IF From(s, "live") THEN "recovered" ELSE "score")
  /\ UNCHANGED <<bytes, redisVars, jobVars>>

\* SCARD, made whether the meta exists or not; if it fails nothing follows.
CheckLease(s) ==
  /\ From(s, "live") \/ From(s, "lease")
  /\ \/ At(s, IF From(s, "live") \/ lease[Hash(s)] # {} THEN "recovered" ELSE "score")
     \/ "redis" \in Faults /\ NextHash(s)
  /\ UNCHANGED <<bytes, redisVars, jobVars>>

\* The errors of ZREM, ZADD and the scrub are ignored.
DropCandidate(s) ==
  /\ From(s, "recovered")
  /\ \E ok \in Ok("redis") :
       candidates' = IF ok THEN [candidates EXCEPT ![Hash(s)] = "none"] ELSE candidates
  /\ NextHash(s)
  /\ UNCHANGED <<bytes, meta, index, lease, lock, jobVars>>

PastGrace(s) == candidates[Hash(s)] = "aged" /\ Hash(s) \in sweep[s].due

Score(s) ==
  /\ From(s, "score")
  /\ \/ candidates[Hash(s)] = "none" /\ At(s, "add")
     \/ PastGrace(s) /\ At(s, "remove")
     \/ candidates[Hash(s)] # "none" /\ ~PastGrace(s) /\ NextHash(s)
     \/ "redis" \in Faults /\ NextHash(s)
  /\ UNCHANGED <<bytes, redisVars, jobVars>>

AddCandidate(s) ==
  /\ From(s, "add")
  /\ \E ok \in Ok("redis") :
       candidates' = IF ok THEN [candidates EXCEPT ![Hash(s)] = "fresh"] ELSE candidates
  /\ NextHash(s)
  /\ UNCHANGED <<bytes, meta, index, lease, lock, jobVars>>

Remove(s) ==
  /\ From(s, "remove")
  /\ objects' = objects \ {Hash(s)}
  /\ At(s, "scrubIndex")
  /\ UNCHANGED <<wiped, redisVars, jobVars>>

\* Seeded fault: a refused removal is scrubbed like one that worked.
RemoveFailsScrubbing(s) ==
  /\ "store" \in Faults /\ From(s, "remove")
  /\ At(s, "scrubIndex")
  /\ UNCHANGED <<bytes, redisVars, jobVars>>

\* Still a candidate: the next sweep tries again.
RemoveFails(s) ==
  /\ "store" \in Faults /\ From(s, "remove")
  /\ NextHash(s)
  /\ UNCHANGED <<bytes, redisVars, jobVars>>

ScrubIndex(s) ==
  /\ From(s, "scrubIndex")
  /\ \E ok \in Ok("redis") : index' = IF ok THEN index \ {Hash(s)} ELSE index
  /\ At(s, "scrubCandidate")
  /\ UNCHANGED <<bytes, meta, lease, candidates, lock, jobVars>>

ScrubCandidate(s) ==
  /\ From(s, "scrubCandidate")
  /\ \E ok \in Ok("redis") :
       candidates' = IF ok THEN [candidates EXCEPT ![Hash(s)] = "none"] ELSE candidates
  /\ At(s, "scrubLease")
  /\ UNCHANGED <<bytes, meta, index, lease, lock, jobVars>>

ScrubLease(s) ==
  /\ From(s, "scrubLease")
  /\ \E ok \in Ok("redis") : lease' = IF ok THEN [lease EXCEPT ![Hash(s)] = {}] ELSE lease
  /\ At(s, "scrubMeta")
  /\ UNCHANGED <<bytes, meta, index, candidates, lock, jobVars>>

ScrubMeta(s) ==
  /\ From(s, "scrubMeta")
  /\ \E ok \in Ok("redis") : meta' = IF ok THEN meta \ {Hash(s)} ELSE meta
  /\ NextHash(s)
  /\ UNCHANGED <<bytes, index, lease, candidates, lock, jobVars>>

NoneLeft(s) ==
  /\ From(s, "next") /\ sweep[s].todo = {}
  /\ At(s, "unlock")
  /\ UNCHANGED <<bytes, redisVars, jobVars>>

\* The deferred DEL: whoever's lock it is by now.
Unlock(s) ==
  /\ From(s, "unlock")
  /\ \E ok \in Ok("redis") : lock' = IF ok THEN FALSE ELSE lock
  /\ sweep' = [sweep EXCEPT ![s] = Idle]
  /\ UNCHANGED <<bytes, meta, index, lease, candidates, jobVars>>

\* The process ends, or its context: every later call fails, the deferred
\* DEL with it.  One replica stays.
Stop(s) ==
  /\ "crash" \in Faults /\ ~From(s, "stopped")
  /\ \E r \in Sweepers \ {s} : ~From(r, "stopped")
  /\ sweep' = [sweep EXCEPT ![s] = [Idle EXCEPT !.at = "stopped"]]
  /\ UNCHANGED <<bytes, redisVars, jobVars>>

(***************************************************************************)
(* Specification.                                                          *)
(***************************************************************************)

ClientStep(j) == CheckExists(j) \/ CheckTouch(j) \/ Put(j) \/ Finalize(j) \/ Reuse(j) \/ GiveUp(j)
WorkerStep(j) == \/ LeaseAdd(j) \/ LeaseTouch(j) \/ PullAndVerify(j) \/ TouchSize(j) \/ RunEnds(j)
                 \/ (\E h \in Hashes : Release(j, h)) \/ Released(j) \/ Lost(j)
Time          == (\E h \in Hashes : MetaExpires(h) \/ Ages(h)) \/ LockExpires
Collects(s)   == \/ List(s) \/ (\E h \in Hashes : CheckMeta(s, h)) \/ CheckLease(s)
                 \/ DropCandidate(s) \/ Score(s) \/ AddCandidate(s)
                 \/ Remove(s) \/ RemoveFails(s) \/ ScrubIndex(s) \/ ScrubCandidate(s)
                 \/ ScrubLease(s) \/ ScrubMeta(s) \/ NoneLeft(s) \/ Unlock(s)
Sweeping(s)   == Acquire(s) \/ Collects(s) \/ Stop(s)

Next == (\E j \in Jobs : ClientStep(j) \/ WorkerStep(j)) \/ Time \/ (\E s \in Sweepers : Sweeping(s))

Spec == Init /\ [][Next]_vars

\* Timers fire, a replica's ticker finds the lock free, a sweep goes on, and
\* S3 does not refuse every Remove.  Clients and jobs owe nothing.
FairSpec ==
  /\ Spec
  /\ \A h \in Hashes : WF_vars(MetaExpires(h)) /\ WF_vars(Ages(h))
  /\ WF_vars(LockExpires)
  /\ WF_vars(\E s \in Sweepers : Acquire(s))
  /\ \A s \in Sweepers : WF_vars(Collects(s)) /\ SF_vars(Remove(s))

(***************************************************************************)
(* Properties.                                                             *)
(***************************************************************************)

\* Types of every variable (gc.go, blobindex.go, blobs.go, routes/blobs.ts).
TypeOK ==
  /\ objects \in SUBSET Hashes /\ meta \in SUBSET Hashes /\ index \in SUBSET Hashes
  /\ lease \in [Hashes -> SUBSET Jobs] /\ candidates \in [Hashes -> Age] /\ lock \in BOOLEAN
  /\ sweep \in [Sweepers -> Sweep]
  /\ \A s \in Sweepers : sweep[s].at \notin {"idle", "list", "next", "unlock", "stopped"} => Hash(s) \in Hashes
  /\ pc \in [Jobs -> JobPc] /\ leased \in [Jobs -> SUBSET Hashes] /\ outcome \in [Jobs -> Outcome]
  /\ wiped \in SUBSET Hashes
  /\ pos \in [Jobs -> Nat] /\ \A j \in Jobs : pos[j] \in DOMAIN Refs[j]

\* "Exactly one worker replica runs a sweep at a time" (gc.go:25): one
\* replica holds the lock from SET NX to the deferred DEL.
OneSweep == \A r, s \in Sweepers : Running(r) /\ Running(s) => r = s

\* A job that ended left no lease behind (blobs.go:72, worker.go:715): a
\* forgotten one pins its blob for ever.
LeasesReleased == \A j \in Jobs : pc[j] = "finished" => \A h \in Hashes : j \notin lease[h]

\* GC deletes no blob whose lease set is not empty (blobindex.go:12).
LeasedNotRemoved == [][\A h \in objects \ objects' : lease[h] = {}]_vars

Uses(j, h)   == \E i \in DOMAIN Refs[j] : Refs[j][i] = h
Unused(h)    == \A j \in Jobs : Uses(j, h) => pc[j] \in {"client", "gaveUp", "leftBytes", "finished"}
\* The two ways in which bytes leave the index and stay in S3: a client that
\* PUT and never finalized, and a finalize that a scrub wiped out again.
LeftBytes(h) == \E j \in Jobs : pc[j] = "leftBytes" /\ Ref(j) = h
Unlisted(h)  == h \notin index /\ (LeftBytes(h) \/ h \in wiped)

\* Bytes nobody has a use for any more are reclaimed in the end (gc.go:23),
\* but those that GC cannot see for one of these two reasons: a refused
\* Remove, a replica gone in the middle of a sweep or a lost candidacy
\* only puts it off.
UnusedCollected == \A h \in Hashes : <>[]Unused(h) => <>[](h \notin objects \/ Unlisted(h))
=============================================================================

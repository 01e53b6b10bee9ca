------------------------------- MODULE Session -------------------------------
(***************************************************************************)
(* One interactive session (internal/session): two output pumps under one  *)
(* byte budget, the wall, idle and CPU clocks, the Wait goroutine and the  *)
(* single teardown they race for, over a Docker sandbox                    *)
(* (internal/runner/docker.go) and under the job goroutine that publishes  *)
(* and persists the outcome (internal/worker/worker.go; collectOutput is   *)
(* set).  Output is counted in units of the budget.                        *)
(***************************************************************************)
EXTENDS Integers, Sequences, FiniteSets

CONSTANTS
  Streams,      \* stdout and stderr
  Budget,       \* OutputKb * 1024
  MaxOut,       \* bound: what the program writes in all
  MaxChunk,     \* bound: the largest write
  PipeCap,      \* what the attach connection buffers, in writes
  ActivityCap,  \* activityCh and stdinActivity hold that many signals
  Events        \* what else a behaviour may contain

EventKinds == {"stdin", "closeStdin", "kill", "cancel", "docker", "hang"}

ASSUME StreamsAssumption == IsFiniteSet(Streams)
ASSUME EventsAssumption == Events \subseteq EventKinds
ASSUME SizesAssumption  == /\ Budget \in Nat /\ MaxOut \in Nat /\ MaxChunk \in Nat \ {0}
                           /\ PipeCap \in Nat \ {0} /\ ActivityCap \in Nat \ {0}

VARIABLES
  proc, box,       \* the program; whether its container exists
  produced, wire,  \* bytes written; those in the attach connection, in order
  attached, open,  \* the connection; the read ends of the two pipes
  stdinOpen,
  pump,            \* per stream, the pump and what it forwards of its chunk
  budget, truncated,
  activity, stdinActivity, timer,
  quiet,           \* no input or output since the idle timer was last reset
  clock,           \* the four goroutines that may call terminate
  term, reason, exit, result,
  cancelled,       \* the job's context (a drain past its deadline)
  hung,            \* the calls to Docker that do not return
  worker,          \* the job goroutine from RunInteractive on
  collected, published, persisted

sandboxVars == <<proc, box, attached, open, stdinOpen>>
outputVars  == <<produced, wire, pump, budget, truncated, collected, published>>
idleVars    == <<activity, stdinActivity, timer, quiet>>
endVars     == <<term, reason, exit, result>>
ctxVars     == <<cancelled, hung>>
vars        == <<sandboxVars, outputVars, idleVars, clock, endVars, ctxVars, worker, persisted>>

Clocks  == {"wait", "wall", "idle", "cpu"}
Chunk   == [stream : Streams, size : 1..MaxChunk]
PumpAt  == {"read", "mark", "collect", "publish", "signal", "ended"}
Term    == {"none", "hook", "kill", "cleanup", "remove", "result", "close", "closed"}
Call    == {"hook", "kill", "remove", "wait", "cpu"}
Exit    == {"none", "code", "137"}
Result  == [reason : Clocks, exit : Exit, truncated : BOOLEAN]
Pending == [reason |-> "none"]
Job     == {"session", "returned", "published", "persisted"}

Init ==
  /\ proc = "running" /\ box = TRUE /\ attached = TRUE /\ open = TRUE /\ stdinOpen = TRUE
  /\ produced = 0 /\ wire = <<>> /\ pump = [s \in Streams |-> [at |-> "read", fwd |-> 0]]
  /\ budget = Budget /\ truncated = FALSE /\ collected = 0 /\ published = 0 /\ persisted = 0
  /\ activity = 0 /\ stdinActivity = 0 /\ timer = "armed" /\ quiet = TRUE
  /\ clock = [c \in Clocks |-> "on"]
  /\ term = "none" /\ reason = "none" /\ exit = "none" /\ result = Pending
  /\ cancelled = FALSE /\ hung = {} /\ worker = "session"

\* A non-blocking send on a buffered channel.
Offer(n) == IF n < ActivityCap THEN n + 1 ELSE n

(***************************************************************************)
(* The program in its container, and what reaches it.                      *)
(***************************************************************************)

\* It blocks on a full connection; without one the output is dropped.
Write(s, n) ==
  /\ proc = "running" /\ produced + n <= MaxOut
  /\ IF attached THEN Len(wire) < PipeCap /\ wire' = Append(wire, [stream |-> s, size |-> n])
                 ELSE UNCHANGED wire
  /\ produced' = produced + n /\ quiet' = FALSE
  /\ UNCHANGED <<sandboxVars, pump, budget, truncated, collected, published, activity, stdinActivity,
                 timer, clock, endVars, ctxVars, worker, persisted>>

Exits ==
  /\ proc = "running"
  /\ proc' = "exited"
  /\ UNCHANGED <<box, attached, open, stdinOpen, outputVars, idleVars, clock, endVars, ctxVars, worker, persisted>>

\* stdinPump.write: the chunk, then its activity signal.
StdinChunk ==
  /\ "stdin" \in Events /\ stdinOpen /\ worker = "session"
  /\ quiet' = FALSE /\ stdinActivity' = Offer(stdinActivity)
  /\ UNCHANGED <<sandboxVars, outputVars, activity, timer, clock, endVars, ctxVars, worker, persisted>>

CloseStdin ==
  /\ "closeStdin" \in Events /\ stdinOpen /\ worker = "session"
  /\ stdinOpen' = FALSE
  /\ UNCHANGED <<proc, box, attached, open, outputVars, idleVars, clock, endVars, ctxVars, worker, persisted>>

\* The goroutine that copies stdin closes the whole connection
\* stdinEOFFlushDelay after EOF; only what stdcopy has read by then is kept.
FlushDelayEnds ==
  /\ ~stdinOpen /\ attached
  /\ attached' = FALSE /\ \E k \in 0..Len(wire) : wire' = SubSeq(wire, 1, k)
  /\ UNCHANGED <<proc, box, open, stdinOpen, produced, pump, budget, truncated, collected, published, idleVars,
                 clock, endVars, ctxVars, worker, persisted>>

Stopped == IF proc = "running" THEN "killed" ELSE proc

\* Requests to kill and to remove the container.  When Docker refuses one, or
\* the job's context ends in between, none, the first or both of them take
\* effect.
Destroy == proc' = Stopped /\ box' = FALSE
DestroyFails ==
  /\ "docker" \in Events \/ cancelled
  /\ proc' \in {proc, Stopped} /\ box' = box

\* A kill message: the stdin pump calls sb.Kill.
UserKill ==
  /\ "kill" \in Events /\ worker = "session" /\ box /\ ~cancelled
  /\ Destroy \/ DestroyFails
  /\ UNCHANGED <<attached, open, stdinOpen, outputVars, idleVars, clock, endVars, ctxVars, worker, persisted>>

Cancel ==
  /\ "cancel" \in Events /\ ~cancelled
  /\ cancelled' = TRUE /\ hung' = hung \cap {"remove"}
  /\ UNCHANGED <<sandboxVars, outputVars, idleVars, clock, endVars, worker, persisted>>

\* No call to Docker has a deadline.  Cancel ends those under the job's
\* context: ReadArtifacts in the hook, Kill, ContainerWait and the usage reading
\* of the CPU clock; nothing ends the removal in Cleanup.
InCall(c) == IF c \in Clocks THEN clock[c] = "on" ELSE term = c

Hang(c) ==
  /\ "hang" \in Events /\ InCall(c) /\ c \notin hung
  /\ cancelled => c = "remove"
  /\ hung' = hung \cup {c}
  /\ UNCHANGED <<sandboxVars, outputVars, idleVars, clock, endVars, cancelled, worker, persisted>>

(***************************************************************************)
(* Pump.Run and the sinks of the job goroutine.                            *)
(***************************************************************************)

At(s, there) == pump[s].at = there
Go(s, there) == pump' = [pump EXCEPT ![s].at = there]

\* Seeded fault: a chunk that starts within the budget is forwarded whole.
ChargeUncut(s) ==
  /\ At(s, "read") /\ open /\ wire # <<>> /\ Head(wire).stream = s
  /\ LET n == Head(wire).size
     IN  /\ budget' = budget - n
         /\ pump' = [pump EXCEPT ![s] = IF budget > 0 THEN [at |-> "collect", fwd |-> n]
                                                     ELSE [at |-> "mark", fwd |-> 0]]
  /\ wire' = Tail(wire)
  /\ UNCHANGED <<sandboxVars, produced, truncated, collected, published, idleVars, clock, endVars, ctxVars, worker, persisted>>

\* Seeded fault: the chunk that crosses the budget does not raise the flag.
MarkOnlyWhenEmpty(s) ==
  /\ At(s, "mark")
  /\ truncated' = (truncated \/ pump[s].fwd = 0)
  /\ Go(s, IF pump[s].fwd > 0 THEN "collect" ELSE "read")
  /\ UNCHANGED <<sandboxVars, produced, wire, budget, collected, published, idleVars, clock, endVars, ctxVars, worker, persisted>>

\* stdcopy hands the oldest write to the pump of its stream, which takes its
\* size off the shared budget in one atomic step.
Charge(s) ==
  /\ At(s, "read") /\ open /\ wire # <<>> /\ Head(wire).stream = s
  /\ LET n   == Head(wire).size
         fwd == IF budget <= 0 THEN 0 ELSE IF n > budget THEN budget ELSE n
     IN  /\ budget' = budget - n
         /\ pump' = [pump EXCEPT ![s] = [at |-> IF fwd < n THEN "mark" ELSE "collect", fwd |-> fwd]]
  /\ wire' = Tail(wire)
  /\ UNCHANGED <<sandboxVars, produced, truncated, collected, published, idleVars, clock, endVars, ctxVars, worker, persisted>>

Mark(s) ==
  /\ At(s, "mark")
  /\ truncated' = TRUE
  /\ Go(s, IF pump[s].fwd > 0 THEN "collect" ELSE "read")
  /\ UNCHANGED <<sandboxVars, produced, wire, budget, collected, published, idleVars, clock, endVars, ctxVars, worker, persisted>>

Collect(s) ==
  /\ At(s, "collect")
  /\ collected' = collected + pump[s].fwd
  /\ Go(s, "publish")
  /\ UNCHANGED <<sandboxVars, produced, wire, budget, truncated, published, idleVars, clock, endVars, ctxVars, worker, persisted>>

Publish(s) ==
  /\ At(s, "publish")
  /\ published' = published + pump[s].fwd
  /\ Go(s, "signal")
  /\ UNCHANGED <<sandboxVars, produced, wire, budget, truncated, collected, idleVars, clock, endVars, ctxVars, worker, persisted>>

SignalActivity(s) ==
  /\ At(s, "signal")
  /\ activity' = Offer(activity)
  /\ pump' = [pump EXCEPT ![s] = [at |-> "read", fwd |-> 0]]
  /\ UNCHANGED <<sandboxVars, produced, wire, budget, truncated, collected, published, stdinActivity, timer, quiet,
                 clock, endVars, ctxVars, worker, persisted>>

\* EOF once the connection has ended and is drained, or a closed pipe.
PumpEnds(s) ==
  /\ At(s, "read")
  /\ ~open \/ (wire = <<>> /\ (~attached \/ proc # "running"))
  /\ Go(s, "ended")
  /\ UNCHANGED <<sandboxVars, produced, wire, budget, truncated, collected, published, idleVars, clock, endVars,
                 ctxVars, worker, persisted>>

(***************************************************************************)
(* The goroutines that call terminate.  sync.Once lets the first one in;   *)
(* the others wait until it is done.                                       *)
(***************************************************************************)

\* Seeded fault: every caller sets the result, not the first one only.
FireAgain(c, code) ==
  /\ clock[c] = "on"
  /\ clock' = [clock EXCEPT ![c] = "calling"]
  /\ term' = IF term = "none" THEN "hook" ELSE term
  /\ reason' = c /\ exit' = code
  /\ UNCHANGED <<sandboxVars, outputVars, idleVars, result, ctxVars, worker, persisted>>

Fire(c, code) ==
  /\ clock[c] = "on"
  /\ clock' = [clock EXCEPT ![c] = "calling"]
  /\ IF term = "none" THEN term' = "hook" /\ reason' = c /\ exit' = code
                      ELSE UNCHANGED <<term, reason, exit>>
  /\ UNCHANGED <<sandboxVars, outputVars, idleVars, result, ctxVars, worker, persisted>>

\* Docker reports 128 + 9 for a program killed with SIGKILL; a failed wait
\* or a cancelled context gives no code.
WaitReturns ==
  /\ "wait" \notin hung
  /\ \/ proc = "exited" /\ Fire("wait", "code")
     \/ proc = "killed" /\ Fire("wait", "137")
     \/ cancelled /\ Fire("wait", "none")

WaitFails == "docker" \in Events /\ "wait" \notin hung /\ Fire("wait", "none")

WallFires == Fire("wall", "none")

\* The usage can be read while the container exists.
CpuFires == box /\ "cpu" \notin hung /\ Fire("cpu", "none")

\* Input and output are passed on in less than IdleMs.
Settled ==
  /\ wire = <<>> /\ activity = 0 /\ stdinActivity = 0
  /\ \A s \in Streams : pump[s].at \in {"read", "ended"}

IdleElapses ==
  /\ clock["idle"] = "on" /\ timer = "armed" /\ Settled
  /\ timer' = "expired"
  /\ UNCHANGED <<sandboxVars, outputVars, activity, stdinActivity, quiet, clock, endVars, ctxVars, worker, persisted>>

IdleFires == timer = "expired" /\ Fire("idle", "none")

IdleResets ==
  /\ clock["idle"] = "on" /\ activity > 0
  /\ activity' = activity - 1 /\ timer' = "armed" /\ quiet' = TRUE
  /\ UNCHANGED <<sandboxVars, outputVars, stdinActivity, clock, endVars, ctxVars, worker, persisted>>

\* Seeded fault: the forwarder takes the signal and does not pass it on.
ForwardStdinNowhere ==
  /\ stdinActivity > 0 /\ term # "closed"
  /\ stdinActivity' = stdinActivity - 1
  /\ UNCHANGED <<sandboxVars, outputVars, activity, timer, quiet, clock, endVars, ctxVars, worker, persisted>>

ForwardStdinActivity ==
  /\ stdinActivity > 0 /\ term # "closed"
  /\ stdinActivity' = stdinActivity - 1 /\ activity' = Offer(activity)
  /\ UNCHANGED <<sandboxVars, outputVars, timer, quiet, clock, endVars, ctxVars, worker, persisted>>

\* Seeded fault: done is never closed.
GoneCallersOnly(c) ==
  /\ term = "closed" /\ clock[c] = "calling"
  /\ clock' = [clock EXCEPT ![c] = "gone"]
  /\ UNCHANGED <<sandboxVars, outputVars, idleVars, endVars, ctxVars, worker, persisted>>

\* terminate returns to the losers of the race, and done stops the clocks.
Gone(c) ==
  /\ term = "closed"
  /\ clock[c] = "calling" \/ (clock[c] = "on" /\ c # "wait" /\ c \notin hung)
  /\ clock' = [clock EXCEPT ![c] = "gone"]
  /\ UNCHANGED <<sandboxVars, outputVars, idleVars, endVars, ctxVars, worker, persisted>>

(***************************************************************************)
(* terminate, then the job goroutine.                                      *)
(***************************************************************************)

Then(from, to) == term = from /\ term' = to

\* Seeded fault: the hook first waits until the program has ended.
HookWaits ==
  /\ proc # "running" /\ Then("hook", "kill")
  /\ UNCHANGED <<sandboxVars, outputVars, idleVars, clock, reason, exit, result, ctxVars, worker, persisted>>

\* BeforeCleanup reads the artifacts.
Hook ==
  /\ Then("hook", "kill") /\ "hook" \notin hung
  /\ UNCHANGED <<sandboxVars, outputVars, idleVars, clock, reason, exit, result, ctxVars, worker, persisted>>

\* Kill runs under the job's context and its errors are ignored.
Kill ==
  /\ Then("kill", "cleanup") /\ "kill" \notin hung
  /\ Destroy \/ DestroyFails
  /\ UNCHANGED <<attached, open, stdinOpen, outputVars, idleVars, clock, reason, exit, result, ctxVars, worker, persisted>>

\* Cleanup closes stdin, the connection and both pipes first.
Cleanup ==
  /\ Then("cleanup", "remove")
  /\ stdinOpen' = FALSE /\ attached' = FALSE /\ open' = FALSE /\ wire' = <<>>
  /\ UNCHANGED <<proc, box, produced, pump, budget, truncated, collected, published, idleVars, clock, reason, exit,
                 result, ctxVars, worker, persisted>>

\* Seeded fault: Cleanup removes the container under the job's context.
RemoveInContext ==
  /\ Then("remove", "result") /\ "remove" \notin hung
  /\ IF cancelled THEN UNCHANGED <<proc, box>> ELSE Destroy
  /\ UNCHANGED <<attached, open, stdinOpen, outputVars, idleVars, clock, reason, exit, result, ctxVars, worker, persisted>>

\* Then it removes the container, under a context of its own.
Remove ==
  /\ Then("remove", "result") /\ "remove" \notin hung
  /\ Destroy \/ ("docker" \in Events /\ DestroyFails)
  /\ UNCHANGED <<attached, open, stdinOpen, outputVars, idleVars, clock, reason, exit, result, ctxVars, worker, persisted>>

SendResult ==
  /\ Then("result", "close")
  /\ result' = [reason |-> reason, exit |-> exit, truncated |-> truncated]
  /\ UNCHANGED <<sandboxVars, outputVars, idleVars, clock, reason, exit, ctxVars, worker, persisted>>

CloseDone ==
  /\ Then("close", "closed")
  /\ UNCHANGED <<sandboxVars, outputVars, idleVars, clock, reason, exit, result, ctxVars, worker, persisted>>

WorkerGoes(from, to) == worker = from /\ worker' = to

RunInteractiveReturns ==
  /\ WorkerGoes("session", "returned") /\ result # Pending
  /\ UNCHANGED <<sandboxVars, outputVars, idleVars, clock, endVars, ctxVars, persisted>>

PublishResult ==
  /\ WorkerGoes("returned", "published")
  /\ UNCHANGED <<sandboxVars, outputVars, idleVars, clock, endVars, ctxVars, persisted>>

\* assembleRunResult takes what the sinks have collected by now.
Persist ==
  /\ WorkerGoes("published", "persisted")
  /\ persisted' = collected
  /\ UNCHANGED <<sandboxVars, outputVars, idleVars, clock, endVars, ctxVars>>

(***************************************************************************)
(* Specification.                                                          *)
(***************************************************************************)

PumpStep(s) == Charge(s) \/ Mark(s) \/ Collect(s) \/ Publish(s) \/ SignalActivity(s) \/ PumpEnds(s)
Program     == (\E s \in Streams, n \in 1..MaxChunk : Write(s, n)) \/ Exits
Outside     == StdinChunk \/ CloseStdin \/ UserKill \/ Cancel \/ FlushDelayEnds
IdleStep    == IdleElapses \/ IdleFires \/ IdleResets \/ ForwardStdinActivity
Terminating == Hook \/ Kill \/ Cleanup \/ Remove \/ SendResult \/ CloseDone
WorkerStep  == RunInteractiveReturns \/ PublishResult \/ Persist

Next ==
  \/ Program \/ Outside
  \/ \E s \in Streams : PumpStep(s)
  \/ WaitReturns \/ WaitFails \/ WallFires \/ CpuFires \/ IdleStep
  \/ \E c \in Clocks : Gone(c)
  \/ \E c \in Call : Hang(c)
  \/ Terminating \/ WorkerStep

Spec == Init /\ [][Next]_vars

\* Timers fire and goroutines that are in no hung call go on; the program, the
\* client and Docker owe nothing.
FairSpec ==
  /\ Spec
  /\ WF_vars(WallFires) /\ WF_vars(WaitReturns)
  /\ \A c \in Clocks : WF_vars(Gone(c))
  /\ \A s \in Streams : WF_vars(PumpStep(s))
  /\ WF_vars(Terminating) /\ WF_vars(WorkerStep)

(***************************************************************************)
(* Properties.                                                             *)
(***************************************************************************)

\* Types of every variable (internal/session).
TypeOK ==
  /\ proc \in {"running", "exited", "killed"}
  /\ {box, attached, open, stdinOpen, truncated, quiet, cancelled} \subseteq BOOLEAN /\ hung \subseteq Call
  /\ produced \in 0..MaxOut /\ wire \in Seq(Chunk) /\ Len(wire) <= PipeCap
  /\ pump \in [Streams -> [at : PumpAt, fwd : 0..MaxChunk]]
  /\ budget \in Int /\ {collected, published, persisted} \subseteq Nat
  /\ activity \in 0..ActivityCap /\ stdinActivity \in 0..ActivityCap /\ timer \in {"armed", "expired"}
  /\ clock \in [Clocks -> {"on", "calling", "gone"}]
  /\ term \in Term /\ reason \in Clocks \cup {"none"} /\ exit \in Exit /\ result \in Result \cup {Pending}
  /\ worker \in Job

\* At most the budget is forwarded, by both pumps together (pump.go:79), to
\* the client and to the persisted result.
ForwardedWithinBudget == collected <= Budget /\ published <= collected /\ persisted <= collected

\* The flag says that output was cut, no more and no less (pump.go:80): it is
\* up, or about to be, once the two pumps together have read more than the
\* budget.
TruncatedWhenCut ==
  /\ truncated => budget < 0
  /\ budget < 0 => truncated \/ \E s \in Streams : At(s, "mark")

\* Whoever ends the session, and with whatever context, the container is gone
\* when the job reports it (doc.go:23, docker.go:673).
ContainerGone == worker # "session" => ~box /\ proc # "running"

\* The teardown runs once: who called first is the reason in the result.
\* (lifecycle.go:116)
FirstCallerDecides ==
  [][/\ term # "none" => reason' = reason /\ exit' = exit
     /\ result # Pending => result' = result
     /\ term # "none" => term' # "none" /\ (term' = "hook" => term = "hook")]_vars

\* While the attach connection is up, the idle clock does not run out on a
\* program that reads, or writes within its budget (clocks.go:37,
\* worker.go:1026).
IdleOnlyWhenQuiet ==
  [][timer = "armed" /\ timer' = "expired" /\ term = "none" /\ attached => quiet \/ budget < 0]_vars

\* terminate is in a call that does not return: the hook, Kill or the removal.
Stuck == \E c \in {"hook", "kill", "remove"} : term = c /\ c \in hung

\* However the program and the client behave and whatever Docker refuses, the
\* wall clock ends the session and the job reports it.  Nothing but a call of
\* terminate that stays for good keeps it from that: a Wait or a usage reading
\* that hangs does not.
SessionEnds == <>(worker = "persisted") \/ <>[]Stuck

\* No goroutine outlives a session that ends (lifecycle.go:120), but for a Wait
\* on a container that Docker would not remove, and for a Wait or a usage
\* reading that never returns.
GoroutinesEnd ==
  \/ <>[]Stuck
  \/ <>[](/\ \A s \in Streams : At(s, "ended")
          /\ \A c \in {"wall", "idle"} : clock[c] = "gone"
          /\ clock["cpu"] = "gone" \/ "cpu" \in hung
          /\ clock["wait"] = "gone" \/ proc = "running" \/ "wait" \in hung)

\* The output that follows EOF is forwarded (docker.go:424).
ForwardsAfterEof == proc = "running" /\ term = "none" => \A s \in Streams : ~At(s, "ended")
=============================================================================

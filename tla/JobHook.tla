------------------------------ MODULE JobHook ------------------------------
(***************************************************************************)
(* What a page shows of a job: the events a worker publishes               *)
(* (internal/publisher, worker.go), the page's one connection to soketi,   *)
(* the hook useCodeRunnerJob and the status it pulls.                      *)
(***************************************************************************)
EXTENDS Naturals, SequencesExt

CONSTANTS
  Jobs,      \* the jobs a page may be opened on
  Compiled,  \* those in a compiled language
  Over,      \* those that have ended before
  Streams,   \* the output streams of a job, one publishing goroutine each
  MaxSeq,    \* bound: output events of each job
  MaxTurns,  \* bound: how often the page changes its job or loses its connection
  NoJob,
  Faults     \* of {"trigger", "pull", "fail", "status"}

ASSUME HookAssumption ==
  /\ Over \subseteq Jobs /\ Compiled \subseteq Jobs /\ NoJob \notin Jobs
  /\ MaxSeq \in [Jobs -> Nat] /\ MaxTurns \in Nat

VARIABLES
  \* the worker's side
  step,       \* how far the goroutine of a job has come
  stored,     \* the state in job:<id>:status
  ran,        \* jobs whose compiler or program was started
  seq,        \* Publisher.seq
  sending,    \* per job and stream: the number a pump triggers with, 0 for none
  triggered,  \* auxiliary: <<stream, number>> of what soketi got
  trailing,   \* auxiliary: those it got after the result
  start,      \* start:<id>
  \* soketi and the connection
  up, member, \* is there a connection, and the channel it is subscribed to
  net,        \* messages on their way to the page
  \* the page
  channel,    \* the job the effect runs for
  asked,      \* its subscribe has not reached soketi
  posts,      \* POST /start requests of onSubscribed
  pulls,      \* status pulls on their way
  shown,      \* stdoutBuf, stderrBuf, compileBuf
  status,
  \* auxiliary
  turns,
  whole,      \* the page opened its job before anybody had started it, and the
              \* connection has held ever since it may have been started
  excused     \* jobs whose final status the page may never learn

workerVars == <<step, stored, ran, seq, sending, triggered, trailing>>
connVars   == <<up, member>>
pageVars   == <<channel, asked, posts, pulls, shown, status>>
auxVars    == <<turns, whole, excused>>
vars == <<workerVars, start, connVars, net, pageVars, auxVars>>

Steps   == {"queued", "parked", "compiling", "started", "running", "resulted", "final"}
Begun   == {"compiling", "started", "running", "resulted", "final"}
Ended   == {"resulted", "final"}
States  == {"queued", "running", "terminal"}
Display == {"idle", "queued", "running", "done"}
Rank(s) == CASE s = "idle" -> 0 [] s = "queued" -> 1 [] s = "running" -> 2 [] s = "done" -> 3

\* wireStateToStatus; compiling writes no state.
Pulled(j) == IF stored[j] = "terminal" THEN "done" ELSE stored[j]

Message(j, kind, what) == [job |-> j, kind |-> kind, what |-> what]
Confirmed(j)    == Message(j, "confirmed", 0)
Stage(j, phase) == Message(j, "stage", phase)
Output(j, s, n) == Message(j, "output", <<s, n>>)
Result(j)       == Message(j, "result", 0)

Init ==
  /\ step = [j \in Jobs |-> IF j \in Over THEN "final" ELSE "queued"] /\ ran = {}
  /\ stored = [j \in Jobs |-> IF j \in Over THEN "terminal" ELSE "queued"]
  /\ seq = [j \in Jobs |-> 0] /\ sending = [j \in Jobs |-> [s \in Streams |-> 0]]
  /\ triggered = [j \in Jobs |-> {}] /\ trailing = [j \in Jobs |-> {}] /\ start = {}
  /\ up = TRUE /\ member = NoJob /\ net = << >>
  /\ channel = NoJob /\ asked = FALSE /\ posts = {} /\ pulls = {}
  /\ shown = {} /\ status = "idle"
  /\ turns = 0 /\ whole = FALSE /\ excused = {}

---------------------------------------------------------------------------
(* the worker and its publisher *)

\* soketi passes an event on to who is subscribed at that moment.
Publish(m) == net' = IF up /\ member = m.job THEN Append(net, m) ELSE net

\* A stage event whose trigger fails is logged and lost.
Announce(j, phase) == Publish(Stage(j, phase)) \/ ("trigger" \in Faults /\ net' = net)

\* The stage event comes before the status that goes with it.
Park(j) ==
  /\ step[j] = "queued" /\ step' = [step EXCEPT ![j] = "parked"]
  /\ Announce(j, "queued")
  /\ UNCHANGED <<stored, ran, seq, sending, triggered, trailing, start, connVars, pageVars, auxVars>>

Compile(j) ==
  /\ j \in Compiled /\ step[j] = "parked" /\ j \in start
  /\ step' = [step EXCEPT ![j] = "compiling"]
  /\ ran' = ran \cup {j}
  /\ Announce(j, "compiling")
  /\ UNCHANGED <<stored, seq, sending, triggered, trailing, start, connVars, pageVars, auxVars>>

StartRun(j) ==
  /\ step[j] = (IF j \in Compiled THEN "compiling" ELSE "parked") /\ j \in start
  /\ step' = [step EXCEPT ![j] = "started"]
  /\ ran' = ran \cup {j}
  /\ Announce(j, "running")
  /\ UNCHANGED <<stored, seq, sending, triggered, trailing, start, connVars, pageVars, auxVars>>

\* A write that fails is logged and leaves the key as it is.
Write(j, state) ==
  \/ stored' = [stored EXCEPT ![j] = state]
  \/ "status" \in Faults /\ stored' = stored

WriteRunning(j) ==
  /\ step[j] = "started" /\ step' = [step EXCEPT ![j] = "running"]
  /\ Write(j, "running")
  /\ UNCHANGED <<ran, seq, sending, triggered, trailing, start, connVars, net, pageVars, auxVars>>

\* A pump triggers one event at a time.  Pumps are not joined: one that holds
\* output may go on when the result is out.
NextSeq(j, s) ==
  /\ j \in ran /\ sending[j][s] = 0 /\ seq[j] < MaxSeq[j]
  /\ seq' = [seq EXCEPT ![j] = @ + 1]
  /\ sending' = [sending EXCEPT ![j][s] = seq'[j]]
  /\ UNCHANGED <<step, stored, ran, triggered, trailing, start, connVars, net, pageVars, auxVars>>

Trigger(j, s) ==
  /\ sending[j][s] # 0
  /\ sending' = [sending EXCEPT ![j][s] = 0]
  /\ triggered' = [triggered EXCEPT ![j] = @ \cup {<<s, sending[j][s]>>}]
  /\ trailing' = [trailing EXCEPT ![j] = IF step[j] \in Ended THEN @ \cup {<<s, sending[j][s]>>} ELSE @]
  /\ Publish(Output(j, s, sending[j][s]))
  /\ UNCHANGED <<step, stored, ran, seq, start, connVars, pageVars, auxVars>>

\* A trigger that fails leaves a gap in the numbers.
TriggerFails(j, s) ==
  /\ "trigger" \in Faults
  /\ sending[j][s] # 0
  /\ sending' = [sending EXCEPT ![j][s] = 0]
  /\ UNCHANGED <<step, stored, ran, seq, triggered, trailing, start, connVars, net, pageVars, auxVars>>

\* A job ends from "running", or earlier when it is killed, meets a clock or
\* does not compile.
MayEnd(j) ==
  \/ step[j] = "running"
  \/ "fail" \in Faults /\ step[j] \in {"parked", "compiling"}

\* Seeded fault: the publisher forgets the count of a job with its result.
PublishResultForgetsSeq(j) ==
  /\ MayEnd(j) /\ step' = [step EXCEPT ![j] = "resulted"]
  /\ seq' = [seq EXCEPT ![j] = 0]
  /\ Publish(Result(j))
  /\ UNCHANGED <<stored, ran, sending, triggered, trailing, start, connVars, pageVars, auxVars>>

PublishResult(j) ==
  /\ MayEnd(j) /\ step' = [step EXCEPT ![j] = "resulted"]
  /\ Publish(Result(j))
  /\ UNCHANGED <<stored, ran, seq, sending, triggered, trailing, start, connVars, pageVars, auxVars>>

PublishResultFails(j) ==
  /\ "trigger" \in Faults
  /\ MayEnd(j) /\ step' = [step EXCEPT ![j] = "resulted"]
  /\ excused' = excused \cup {j}
  /\ UNCHANGED <<stored, ran, seq, sending, triggered, trailing, start, connVars, net, pageVars, turns, whole>>

WriteFinal(j) ==
  /\ step[j] = "resulted" /\ step' = [step EXCEPT ![j] = "final"]
  /\ Write(j, "terminal")
  /\ UNCHANGED <<ran, seq, sending, triggered, trailing, start, connVars, net, pageVars, auxVars>>

---------------------------------------------------------------------------
(* the requests of the page *)

PostStart(j) ==
  /\ j \in posts
  /\ posts' = posts \ {j} /\ start' = start \cup {j}
  /\ UNCHANGED <<workerVars, connVars, net, channel, asked, pulls, shown, status, auxVars>>

ReadStatus(p) ==
  /\ p.state = "asked"
  /\ pulls' = (pulls \ {p}) \cup {[p EXCEPT !.state = Pulled(p.job)]}
  /\ UNCHANGED <<workerVars, start, connVars, net, channel, asked, posts, shown, status, auxVars>>

\* An error of the API, or a status whose key has expired.
ReadStatusFails(p) ==
  /\ "pull" \in Faults
  /\ p.state = "asked"
  /\ pulls' = pulls \ {p}
  /\ excused' = excused \cup {p.job}
  /\ UNCHANGED <<workerVars, start, connVars, net, channel, asked, posts, shown, status, turns, whole>>

---------------------------------------------------------------------------
(* the hook *)

\* Nobody has started the job, or is about to.
Fresh(j) == j \notin posts \cup start /\ Confirmed(j) \notin ToSet(net)

\* Seeded fault: the cleanup leaves the pulls of the effect active.
ShowLeavingPulls(j) ==
  /\ turns < MaxTurns /\ j # channel
  /\ channel' = j /\ asked' = (j # NoJob)
  /\ shown' = {}
  /\ status' = IF j = NoJob THEN "idle" ELSE "queued"
  /\ turns' = turns + 1 /\ whole' = Fresh(j)
  /\ UNCHANGED <<workerVars, start, connVars, net, posts, pulls, excused>>

\* Seeded fault: start goes out with the subscribe, not after its confirmation.
ShowAndStart(j) ==
  /\ turns < MaxTurns /\ j # channel
  /\ channel' = j /\ asked' = (j # NoJob)
  /\ posts' = posts \cup ({j} \ {NoJob})
  /\ pulls' = {[p EXCEPT !.active = FALSE] : p \in pulls}
  /\ shown' = {}
  /\ status' = IF j = NoJob THEN "idle" ELSE "queued"
  /\ turns' = turns + 1 /\ whole' = Fresh(j)
  /\ UNCHANGED <<workerVars, start, connVars, net, excused>>

\* The effect for another job, or none: cleanup of the one before, reset,
\* subscribe.
Show(j) ==
  /\ turns < MaxTurns /\ j # channel
  /\ channel' = j /\ asked' = (j # NoJob)
  /\ pulls' = {[p EXCEPT !.active = FALSE] : p \in pulls}
  /\ shown' = {}
  /\ status' = IF j = NoJob THEN "idle" ELSE "queued"
  /\ turns' = turns + 1 /\ whole' = Fresh(j)
  /\ UNCHANGED <<workerVars, start, connVars, net, posts, excused>>

\* soketi handles the unsubscribe and subscribe of the page in their order.
\* A page that joins when the result is out and no final status is stored, or
\* will ever be, gets neither.
Subscribe ==
  /\ up /\ asked /\ asked' = FALSE
  /\ member' = channel
  /\ net' = Append(net, Confirmed(channel))
  /\ excused' = IF step[channel] \in Ended /\ stored[channel] # "terminal" THEN excused \cup {channel} ELSE excused
  /\ UNCHANGED <<workerVars, start, up, channel, posts, pulls, shown, status, turns, whole>>

\* pusher-js drops what arrives for a channel the page has left.
Arrives(j, kind) == net # << >> /\ Head(net).job = j /\ Head(net).kind = kind /\ net' = Tail(net)

DropForeign ==
  /\ net # << >> /\ Head(net).job # channel /\ net' = Tail(net)
  /\ UNCHANGED <<workerVars, start, connVars, pageVars, auxVars>>

\* Seeded fault: the guard against a second start skips the pull too.
OnSubscribedOnce ==
  /\ Arrives(channel, "confirmed")
  /\ posts' = posts \cup {channel}
  /\ pulls' = IF channel \in posts \cup start THEN pulls
              ELSE pulls \cup {[job |-> channel, active |-> TRUE, state |-> "asked"]}
  /\ UNCHANGED <<workerVars, start, connVars, channel, asked, shown, status, auxVars>>

\* (A new subscription fires both again; starting twice is harmless.)
OnSubscribed ==
  /\ Arrives(channel, "confirmed")
  /\ posts' = posts \cup {channel}
  /\ pulls' = pulls \cup {[job |-> channel, active |-> TRUE, state |-> "asked"]}
  /\ UNCHANGED <<workerVars, start, connVars, channel, asked, shown, status, auxVars>>

OnStage ==
  /\ Arrives(channel, "stage")
  /\ status' = IF Head(net).what = "queued" THEN "queued" ELSE "running"
  /\ UNCHANGED <<workerVars, start, connVars, channel, asked, posts, pulls, shown, auxVars>>

OnOutput ==
  /\ Arrives(channel, "output")
  /\ shown' = shown \cup {Head(net).what}
  /\ status' = "running"
  /\ UNCHANGED <<workerVars, start, connVars, channel, asked, posts, pulls, auxVars>>

OnResult ==
  /\ Arrives(channel, "result")
  /\ status' = "done"
  /\ UNCHANGED <<workerVars, start, connVars, channel, asked, posts, pulls, shown, auxVars>>

\* Seeded fault: what was pulled is adopted whatever is shown.
OnPulledAlways(p) ==
  /\ p.state # "asked"
  /\ pulls' = pulls \ {p}
  /\ status' = IF p.active THEN p.state ELSE status
  /\ UNCHANGED <<workerVars, start, connVars, net, channel, asked, posts, shown, auxVars>>

OnPulled(p) ==
  /\ p.state # "asked"
  /\ pulls' = pulls \ {p}
  /\ status' = IF p.active /\ Rank(p.state) > Rank(status) THEN p.state ELSE status
  /\ UNCHANGED <<workerVars, start, connVars, net, channel, asked, posts, shown, auxVars>>

---------------------------------------------------------------------------
(* the connection *)

Lose ==
  /\ up /\ turns < MaxTurns /\ turns' = turns + 1
  /\ up' = FALSE /\ member' = NoJob /\ net' = << >>
  /\ whole' = (whole /\ channel \notin posts \cup start)
  /\ UNCHANGED <<workerVars, start, pageVars, excused>>

\* pusher-js subscribes again to the channel it has.
Reconnect ==
  /\ ~up /\ up' = TRUE
  /\ asked' = (channel # NoJob)
  /\ UNCHANGED <<workerVars, start, member, net, channel, posts, pulls, shown, status, auxVars>>

---------------------------------------------------------------------------

Pump(j, s) == NextSeq(j, s) \/ Trigger(j, s) \/ TriggerFails(j, s)
Job(j) == \/ Park(j) \/ Compile(j) \/ StartRun(j) \/ WriteRunning(j)
          \/ PublishResult(j) \/ PublishResultFails(j) \/ WriteFinal(j)
Pull(p) == ReadStatus(p) \/ ReadStatusFails(p) \/ OnPulled(p)
Deliver == DropForeign \/ OnSubscribed \/ OnStage \/ OnOutput \/ OnResult

Next ==
  \/ \E j \in Jobs : Job(j) \/ PostStart(j)
  \/ \E j \in Jobs, s \in Streams : Pump(j, s)
  \/ \E j \in Jobs \cup {NoJob} : Show(j)
  \/ \E p \in pulls : Pull(p)
  \/ Subscribe \/ Deliver \/ Lose \/ Reconnect

Spec == Init /\ [][Next]_vars

\* soketi, the browser and the API go on.  Programs, users and the network
\* that loses connections owe nothing.
Fairness ==
  /\ WF_vars(Subscribe) /\ WF_vars(Deliver) /\ WF_vars(Reconnect)
  /\ WF_vars(\E p \in pulls : Pull(p))
  /\ \A j \in Jobs : WF_vars(PostStart(j)) /\ WF_vars(Park(j)) /\ WF_vars(WriteFinal(j))

FairSpec == Spec /\ Fairness

---------------------------------------------------------------------------

TypeOK ==
  /\ step \in [Jobs -> Steps] /\ stored \in [Jobs -> States] /\ ran \subseteq Jobs /\ seq \in [Jobs -> Nat]
  /\ sending \in [Jobs -> [Streams -> Nat]] /\ start \subseteq Jobs
  /\ triggered \in [Jobs -> SUBSET (Streams \X Nat)] /\ trailing \in [Jobs -> SUBSET (Streams \X Nat)]
  /\ up \in BOOLEAN /\ member \in Jobs \cup {NoJob} /\ channel \in Jobs \cup {NoJob}
  /\ asked \in BOOLEAN /\ posts \subseteq Jobs /\ status \in Display
  /\ \A i \in DOMAIN net : net[i].job \in Jobs
  /\ \A p \in pulls : p.job \in Jobs /\ p.active \in BOOLEAN /\ p.state \in Display \cup {"asked"}
  /\ shown \subseteq Streams \X Nat
  /\ turns \in Nat /\ whole \in BOOLEAN /\ excused \subseteq Jobs

\* useCodeRunnerJob.ts: whatever the page was opened on before, it shows
\* output and progress of its own job only: its text was published for that
\* job, "running" means that the job has begun, "done" that it has ended.
ShowsItsJob ==
  IF channel = NoJob THEN shown = {} /\ status = "idle"
  ELSE /\ shown \subseteq triggered[channel]
       /\ status = "running" => step[channel] \in Begun
       /\ status = "done" => step[channel] \in Ended

\* The start handshake: a page that opens a job before it is started, as its
\* first or after any other, and keeps its connection from the start on has all
\* output of the job, or has it coming.
NothingMissed ==
  whole /\ channel # NoJob =>
    \A o \in triggered[channel] : o \in shown \/ \E i \in DOMAIN net : net[i] = Message(channel, "output", o)

\* reassemble: the text of a stream grows at its end only, with gaps and
\* lost connections too, for a pump triggers in the order of its numbers.
TextGrowsAtItsEnd ==
  [][channel' = channel =>
       \A new \in shown' \ shown, old \in shown : new[1] = old[1] => new[2] > old[2]]_vars

\* A page that showed "done" falls back only for an event of its job, one that
\* a pull has overtaken and that has the result behind it (unless its trigger
\* failed) or the confirmation of a new subscription, with its pull; or one
\* that was published after the result.
FallsBackForEventsOnly ==
  [][status = "done" /\ status' # "done" /\ channel' = channel =>
       /\ net # << >> /\ net' = Tail(net)
       /\ \/ Result(channel) \in ToSet(net') \/ channel \in excused
          \/ asked \/ Confirmed(channel) \in ToSet(net')
          \/ Head(net).kind = "output" /\ Head(net).what \in trailing[channel]]_vars

\* A page on a job that is over shows "done" in the end, however late it came
\* and however often it was cut off, unless the user leaves it, output trails
\* the result, the pull or the trigger of the result fails, or the page joined
\* after the result with no final status stored.
SettlesDone ==
  \A j \in Jobs : channel = j /\ step[j] = "final"
                    ~> status = "done" \/ channel # j \/ j \in excused \/ trailing[j] # {}

\* "done" is the terminal state of the page.
DoneStaysDone == [][status = "done" /\ channel' = channel => status' = "done"]_vars

===========================================================================

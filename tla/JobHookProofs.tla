--------------------------- MODULE JobHookProofs ---------------------------
(***************************************************************************)
(* For any jobs, streams and numbers of turns: what a page shows is its    *)
(* own job's, nothing of a job is missed that was opened before its start  *)
(* while the connection holds, the text of a stream grows at its end only, and a     *)
(* page that showed "done" falls back only for a named reason.             *)
(***************************************************************************)
EXTENDS JobHook, SequenceFacts

What    == {0} \cup {"queued", "compiling", "running"} \cup (Streams \X Nat)
Msg     == [job : Jobs, kind : {"confirmed", "stage", "output", "result"}, what : What]
PullSet == [job : Jobs, active : BOOLEAN, state : Display \cup {"asked"}]

Typed == TypeOK /\ net \in Seq(Msg) /\ pulls \subseteq PullSet /\ (asked => channel # NoJob)

\* Output comes from jobs that were started, in the order of its numbers.
WorkerInv ==
  /\ \A j \in ran : step[j] \in Begun /\ j \in start
  /\ \A j \in Jobs : /\ stored[j] = "running" => step[j] \in Begun
                     /\ stored[j] = "terminal" => step[j] \in Ended
  /\ \A j \in Jobs : triggered[j] # {} => j \in ran
  /\ \A j \in Jobs, s \in Streams :
       /\ sending[j][s] <= seq[j] /\ (sending[j][s] # 0 => j \in ran)
       /\ \A o \in triggered[j] : /\ o[2] <= seq[j]
                                  /\ o[1] = s /\ sending[j][s] # 0 => o[2] < sending[j][s]

\* A message on its way tells the truth.
Truthful(m) ==
  /\ m.kind = "output" => m.what \in triggered[m.job]
  /\ m.kind = "stage" /\ m.what # "queued" => step[m.job] \in Begun
  /\ m.kind = "result" => step[m.job] \in Ended
  /\ m.kind = "confirmed" => m = Confirmed(m.job)

\* So does a status on its way, and only the present effect adopts it.
PullTruthful(p) ==
  /\ p.state = "running" => step[p.job] \in Begun
  /\ p.state = "done" => step[p.job] \in Ended
  /\ p.active => p.job = channel

TruthInv == ShowsItsJob /\ (\A m \in ToSet(net) : Truthful(m)) /\ (\A p \in pulls : PullTruthful(p))

\* A job that was opened before its start finds the page in its channel: the
\* confirmation that starts it was sent to this opening.
HandshakeInv ==
  whole => /\ channel \in posts \cup start => up /\ member = channel
           /\ Confirmed(channel) \in ToSet(net) => up /\ member = channel

\* What is on its way is in order, and behind what is shown.
Behind(m, n) ==
  m.kind = "output" /\ n.kind = "output" /\ m.job = n.job /\ m.what[1] = n.what[1] => m.what[2] < n.what[2]
Ascends(s)   == \A i, k \in DOMAIN s : i < k => Behind(s[i], s[k])
OrderInv ==
  /\ Ascends(net)
  /\ \A o \in shown : \A m \in ToSet(net) : Behind(Output(channel, o[1], o[2]), m)

HookInv == Typed /\ WorkerInv /\ TruthInv /\ HandshakeInv /\ NothingMissed /\ OrderInv

---------------------------------------------------------------------------
\* A queue in order stays so when a message with a higher number joins it.
LEMMA AscendsAppend ==
  ASSUME NEW s \in Seq(Msg), NEW m \in Msg, Ascends(s), \A n \in ToSet(s) : Behind(n, m)
  PROVE  Ascends(Append(s, m))
<1>1. /\ Len(Append(s, m)) = Len(s) + 1
      /\ \A i \in 1 .. Len(s) : Append(s, m)[i] = s[i]
      /\ Append(s, m)[Len(s) + 1] = m
  BY AppendProperties
<1>2. Len(s) \in Nat /\ DOMAIN s = 1 .. Len(s) /\ DOMAIN Append(s, m) = 1 .. Len(s) + 1
  BY <1>1, LenProperties, AppendProperties
<1> SUFFICES ASSUME NEW i \in 1 .. Len(s) + 1, NEW k \in 1 .. Len(s) + 1, i < k
             PROVE  Behind(Append(s, m)[i], Append(s, m)[k])
  BY <1>2 DEF Ascends
<1>3. i \in 1 .. Len(s) /\ Append(s, m)[i] = s[i]
  BY <1>1, <1>2
<1>4. CASE k = Len(s) + 1
  BY <1>1, <1>2, <1>3, <1>4 DEF ToSet
<1>5. CASE k # Len(s) + 1
  BY <1>1, <1>2, <1>3, <1>5 DEF Ascends
<1> QED
  BY <1>4, <1>5

\* It stays so when its head leaves.
LEMMA AscendsTail ==
  ASSUME NEW s \in Seq(Msg), s # << >>, Ascends(s)
  PROVE  Ascends(Tail(s)) /\ \A n \in ToSet(Tail(s)) : Behind(Head(s), n)
<1>1. Len(Tail(s)) = Len(s) - 1 /\ \A i \in 1 .. Len(Tail(s)) : Tail(s)[i] = s[i + 1]
  BY HeadTailProperties
<1>2. Len(s) \in Nat \ {0} /\ DOMAIN s = 1 .. Len(s) /\ DOMAIN Tail(s) = 1 .. Len(s) - 1 /\ Head(s) = s[1]
  BY <1>1, LenProperties, EmptySeq, HeadTailProperties
<1>3. Ascends(Tail(s))
  BY <1>1, <1>2 DEF Ascends
<1>4. \A n \in ToSet(Tail(s)) : Behind(Head(s), n)
  BY <1>1, <1>2 DEF Ascends, ToSet
<1> QED
  BY <1>3, <1>4

\* A page that shows nothing satisfies the invariant.
LEMMA InitInv == Init => HookInv
<1> SUFFICES ASSUME Init PROVE HookInv
  OBVIOUS
<1> USE HookAssumption DEF Init
<1>1. Typed
  <2>1. TypeOK
    <3>1. step \in [Jobs -> Steps] /\ stored \in [Jobs -> States] /\ seq \in [Jobs -> Nat] /\ sending \in [Jobs -> [Streams -> Nat]]
      BY DEF Steps, States
    <3>2. /\ triggered \in [Jobs -> SUBSET (Streams \X Nat)]
          /\ trailing \in [Jobs -> SUBSET (Streams \X Nat)]
      OBVIOUS
    <3>3. \A i \in DOMAIN net : net[i].job \in Jobs
      BY LenProperties, EmptySeq
    <3> QED
      BY <3>1, <3>2, <3>3 DEF TypeOK, Display
  <2> QED
    BY <2>1, EmptySeq DEF Typed
<1>2. WorkerInv
  BY DEF WorkerInv, Ended
<1>3. TruthInv /\ NothingMissed /\ HandshakeInv
  BY ToSetEmpty DEF TruthInv, ShowsItsJob, NothingMissed, HandshakeInv
<1>4. OrderInv
  BY ToSetEmpty DEF OrderInv, Ascends
<1> QED
  BY <1>1, <1>2, <1>3, <1>4 DEF HookInv

---------------------------------------------------------------------------
(* Types, and what a step of the worker does to the queue. *)

\* soketi passes an event on, or nobody is there to get it.
LEMMA Published ==
  ASSUME net \in Seq(Msg), NEW m \in Msg, Publish(m)
  PROVE  /\ net' \in Seq(Msg)
         /\ \/ net' = Append(net, m) /\ ToSet(net') = ToSet(net) \cup {m} /\ up /\ member = m.job
            \/ net' = net /\ ~(up /\ member = m.job)
<1>1. CASE up /\ member = m.job
  BY <1>1, ToSetAppend DEF Publish
<1>2. CASE ~(up /\ member = m.job)
  BY <1>2 DEF Publish
<1> QED
  BY <1>1, <1>2

\* The messages of the program are messages.
LEMMA MessageTyped ==
  ASSUME NEW j \in Jobs
  PROVE  /\ Confirmed(j) \in Msg /\ Result(j) \in Msg
         /\ \A phase \in {"queued", "compiling", "running"} : Stage(j, phase) \in Msg
         /\ \A st \in Streams, n \in Nat : Output(j, st, n) \in Msg
BY DEF Confirmed, Result, Stage, Output, Message, Msg, What

\* A stage event is passed on or lost.
LEMMA Announced ==
  ASSUME net \in Seq(Msg), NEW j \in Jobs, NEW phase \in {"queued", "compiling", "running"}, Announce(j, phase)
  PROVE  /\ net' \in Seq(Msg)
         /\ Stage(j, phase) \in Msg /\ Stage(j, phase).kind = "stage" /\ Stage(j, phase).job = j
         /\ Stage(j, phase).what = phase
         /\ \/ net' = net
            \/ /\ net' = Append(net, Stage(j, phase)) /\ ToSet(net') = ToSet(net) \cup {Stage(j, phase)}
               /\ up /\ member = j
<1>1. /\ Stage(j, phase) \in Msg /\ Stage(j, phase).kind = "stage" /\ Stage(j, phase).job = j
      /\ Stage(j, phase).what = phase
  BY MessageTyped DEF Stage, Message
<1>2. CASE Publish(Stage(j, phase))
  BY <1>1, <1>2, Published
<1>3. CASE net' = net
  BY <1>1, <1>3
<1> QED
  BY <1>2, <1>3 DEF Announce

\* What the goroutine of a job changes.
LEMMA JobMoves ==
  ASSUME Typed, NEW j \in Jobs, Job(j)
  PROVE  /\ step' \in [Jobs -> Steps] /\ ran' \subseteq Jobs /\ excused' \subseteq Jobs
         /\ \A i \in Jobs : (step[i] \in Begun => step'[i] \in Begun) /\ (step[i] \in Ended => step'[i] \in Ended)
         /\ ran \subseteq ran' /\ \A i \in ran' : i \in ran \/ (step'[i] \in Begun /\ i \in start)
         /\ net' \in Seq(Msg)
         /\ \/ net' = net
            \/ \E m \in Msg : /\ m.kind \in {"stage", "result"} /\ Truthful(m)'
                              /\ net' = Append(net, m) /\ ToSet(net') = ToSet(net) \cup {m}
                              /\ up /\ member = m.job
         /\ UNCHANGED <<seq, sending, triggered, trailing, start, connVars, pageVars, turns, whole>>
<1> USE DEF Typed, TypeOK, Steps, Begun, Ended, auxVars
<1>0. step[j] \in Steps
  OBVIOUS
<1>1. CASE Park(j)
  <2>1. Announce(j, "queued")
    BY <1>1 DEF Park
  <2>2. Truthful(Stage(j, "queued"))'
    BY DEF Truthful, Stage, Message
  <2> QED
    BY <1>1, <2>1, <2>2, Announced DEF Park
<1>2. CASE Compile(j)
  <2>1. Announce(j, "compiling")
    BY <1>2 DEF Compile
  <2>2. Truthful(Stage(j, "compiling"))'
    BY <1>2 DEF Truthful, Stage, Message, Compile
  <2> QED
    BY <1>2, <2>1, <2>2, Announced DEF Compile
<1>3. CASE StartRun(j)
  <2>1. Announce(j, "running")
    BY <1>3 DEF StartRun
  <2>2. Truthful(Stage(j, "running"))'
    BY <1>3 DEF Truthful, Stage, Message, StartRun
  <2> QED
    BY <1>3, <2>1, <2>2, Announced DEF StartRun
<1>4. CASE PublishResult(j)
  <2>1. Publish(Result(j)) /\ Result(j) \in Msg
    BY <1>4, MessageTyped DEF PublishResult
  <2>2. Truthful(Result(j))'
    BY <1>4 DEF Truthful, Result, Message, PublishResult
  <2> QED
    BY <1>4, <2>1, <2>2, Published DEF PublishResult, MayEnd, Result, Message
<1>5. CASE WriteRunning(j) \/ PublishResultFails(j) \/ WriteFinal(j)
  BY <1>5 DEF WriteRunning, PublishResultFails, WriteFinal, MayEnd
<1> QED
  BY <1>1, <1>2, <1>3, <1>4, <1>5 DEF Job

\* A state is stored when the goroutine has come as far, if it is stored at all.
LEMMA StoredMoves ==
  ASSUME Typed, NEW j \in Jobs, Job(j)
  PROVE  /\ stored' \in [Jobs -> States]
         /\ \A i \in Jobs : \/ stored'[i] = stored[i]
                            \/ stored'[i] = "running" /\ step'[i] \in Begun
                            \/ stored'[i] = "terminal" /\ step'[i] \in Ended
<1>0. step \in [Jobs -> Steps] /\ stored \in [Jobs -> States]
  BY DEF Typed, TypeOK
<1>1. CASE WriteRunning(j)
  BY <1>0, <1>1 DEF WriteRunning, Write, States, Begun
<1>2. CASE WriteFinal(j)
  BY <1>0, <1>2 DEF WriteFinal, Write, States, Ended
<1>3. CASE UNCHANGED stored
  BY <1>0, <1>3
<1> QED
  BY <1>1, <1>2, <1>3 DEF Job, Park, Compile, StartRun, PublishResult, PublishResultFails

\* What a pump changes: it takes a number, passes its output on, or loses it.
LEMMA PumpMoves ==
  ASSUME Typed, WorkerInv, NEW j \in Jobs, NEW st \in Streams, Pump(j, st)
  PROVE  /\ UNCHANGED <<step, stored, ran, start, connVars, pageVars, auxVars>>
         /\ seq' \in [Jobs -> Nat] /\ sending' \in [Jobs -> [Streams -> Nat]]
         /\ triggered' \in [Jobs -> SUBSET (Streams \X Nat)] /\ trailing' \in [Jobs -> SUBSET (Streams \X Nat)]
         /\ net' \in Seq(Msg) /\ WorkerInv'
         /\ \/ net' = net /\ triggered' = triggered
            \/ \E n \in Nat \ {0} :
                 /\ n = sending[j][st]
                 /\ triggered' = [triggered EXCEPT ![j] = @ \cup {<<st, n>>}]
                 /\ IF up /\ member = j
                    THEN /\ net' = Append(net, Output(j, st, n))
                         /\ ToSet(net') = ToSet(net) \cup {Output(j, st, n)}
                    ELSE net' = net
<1> USE DEF Typed, TypeOK, auxVars
<1>1. CASE NextSeq(j, st)
  <2>1. /\ j \in ran /\ sending[j][st] = 0
        /\ seq' = [seq EXCEPT ![j] = @ + 1]
        /\ sending' = [sending EXCEPT ![j][st] = seq[j] + 1]
        /\ UNCHANGED <<step, stored, ran, triggered, trailing, start, connVars, net, pageVars, auxVars>>
    BY <1>1 DEF NextSeq
  <2>2. ASSUME NEW i \in Jobs, NEW t \in Streams
        PROVE  /\ sending'[i][t] <= seq'[i] /\ (sending'[i][t] # 0 => i \in ran)
               /\ \A o \in triggered[i] : /\ o[2] <= seq'[i]
                                         /\ o[1] = t /\ sending'[i][t] # 0 => o[2] < sending'[i][t]
    <3>1. /\ seq[i] \in Nat /\ sending[i][t] \in Nat /\ \A o \in triggered[i] : o[2] \in Nat /\ o[2] <= seq[i]
          /\ sending[i][t] <= seq[i]
      BY DEF WorkerInv
    <3>2. CASE i = j
      <4>1. seq'[i] = seq[i] + 1 /\ sending'[i][t] = (IF t = st THEN seq[i] + 1 ELSE sending[i][t])
        BY <2>1, <3>2
      <4> QED
        BY <2>1, <3>1, <3>2, <4>1 DEF WorkerInv
    <3>3. CASE i # j
      BY <2>1, <3>3 DEF WorkerInv
    <3> QED
      BY <3>2, <3>3
  <2>3. WorkerInv'
    BY <2>1, <2>2 DEF WorkerInv
  <2> QED
    BY <2>1, <2>3
<1>2. CASE TriggerFails(j, st)
  <2>1. /\ sending' = [sending EXCEPT ![j][st] = 0]
        /\ UNCHANGED <<step, stored, ran, seq, triggered, trailing, start, connVars, net, pageVars, auxVars>>
    BY <1>2 DEF TriggerFails
  <2>2. WorkerInv'
    BY <2>1 DEF WorkerInv
  <2> QED
    BY <2>1, <2>2
<1>3. CASE Trigger(j, st)
  <2> DEFINE n == sending[j][st]
  <2>1. /\ n \in Nat \ {0}
        /\ sending' = [sending EXCEPT ![j][st] = 0]
        /\ triggered' = [triggered EXCEPT ![j] = @ \cup {<<st, n>>}]
        /\ trailing' \in [Jobs -> SUBSET (Streams \X Nat)]
        /\ Publish(Output(j, st, n))
        /\ UNCHANGED <<step, stored, ran, seq, start, connVars, pageVars, auxVars>>
    BY <1>3 DEF Trigger
  <2>2. /\ net' \in Seq(Msg)
        /\ IF up /\ member = j
           THEN net' = Append(net, Output(j, st, n)) /\ ToSet(net') = ToSet(net) \cup {Output(j, st, n)}
           ELSE net' = net
    <3>1. Output(j, st, n) \in Msg /\ Output(j, st, n).job = j
      BY <2>1, MessageTyped DEF Output, Message
    <3> QED
      BY <2>1, <3>1, Published
  <2>3. WorkerInv'
    BY <2>1 DEF WorkerInv
  <2>4. triggered' \in [Jobs -> SUBSET (Streams \X Nat)] /\ sending' \in [Jobs -> [Streams -> Nat]]
    BY <2>1
  <2> QED
    BY <2>1, <2>2, <2>3, <2>4
<1> QED
  BY <1>1, <1>2, <1>3 DEF Pump

\* What the queue loses at its head, and what the page makes of it.
LEMMA QueueMoves ==
  ASSUME Typed, Deliver
  PROVE  /\ net # << >> /\ net' = Tail(net) /\ net' \in Seq(Msg)
         /\ Head(net) \in Msg /\ ToSet(net) = {Head(net)} \cup ToSet(net')
         /\ channel = NoJob => DropForeign
<1>1. net # << >> /\ net' = Tail(net)
  BY DEF Deliver, DropForeign, OnSubscribed, OnStage, OnOutput, OnResult, Arrives
<1>2. Head(net) \in Msg /\ net' \in Seq(Msg) /\ ToSet(net) = {Head(net)} \cup ToSet(net')
  BY <1>1, ToSetTail DEF Typed
<1>3. Head(net).job # NoJob
  BY <1>2, HookAssumption DEF Msg
<1> QED
  BY <1>1, <1>2, <1>3 DEF Deliver, DropForeign, OnSubscribed, OnStage, OnOutput, OnResult, Arrives

---------------------------------------------------------------------------
(* Every step keeps the types. *)

Page ==
  \/ \E j \in Jobs : PostStart(j)
  \/ \E j \in Jobs \cup {NoJob} : Show(j)
  \/ \E p \in pulls : Pull(p)
  \/ Subscribe \/ Deliver \/ Lose \/ Reconnect

\* A step is one of a job, of a pump or of the page.
LEMMA NextIs ==
  Next <=> \/ \E j \in Jobs : Job(j)
           \/ \E j \in Jobs, st \in Streams : Pump(j, st)
           \/ Page
BY DEF Next, Page

\* The page's side leaves the worker's side alone.
LEMMA PageLeavesWorker ==
  ASSUME Page
  PROVE  UNCHANGED workerVars
BY DEF Page, PostStart, Show, Pull, ReadStatus, ReadStatusFails, OnPulled, Subscribe, Deliver, DropForeign,
       OnSubscribed, OnStage, OnOutput, OnResult, Lose, Reconnect

\* Every message on its way belongs to a job.
LEMMA QueueTyped ==
  \A s \in Seq(Msg) : \A i \in DOMAIN s : s[i].job \in Jobs
<1> SUFFICES ASSUME NEW s \in Seq(Msg), NEW i \in DOMAIN s PROVE s[i].job \in Jobs
  OBVIOUS
<1>1. s[i] \in Msg
  BY LenProperties, ElementOfSeq
<1> QED
  BY <1>1 DEF Msg

\* The cleanup of an effect makes its pulls inactive.
LEMMA PullsDropped ==
  ASSUME pulls \subseteq PullSet
  PROVE  {[p EXCEPT !.active = FALSE] : p \in pulls} \subseteq PullSet
<1> SUFFICES ASSUME NEW p \in pulls PROVE [p EXCEPT !.active = FALSE] \in PullSet
  OBVIOUS
<1>1. p \in PullSet
  OBVIOUS
<1> QED
  BY <1>1 DEF PullSet

\* What a pull carries.
LEMMA PullsTyped ==
  ASSUME pulls \subseteq PullSet
  PROVE  \A p \in pulls : p.job \in Jobs /\ p.active \in BOOLEAN /\ p.state \in Display \cup {"asked"}
BY DEF PullSet

\* The steps of the page keep the types.
LEMMA PageTyped ==
  ASSUME Typed, TruthInv, Page
  PROVE  Typed'
<1> USE HookAssumption DEF Typed, TypeOK, connVars, auxVars, Display
<1>0. UNCHANGED workerVars
  BY PageLeavesWorker
<1>N. net' \in Seq(Msg) => \A i \in DOMAIN net' : net'[i].job \in Jobs
  BY QueueTyped
<1>1. ASSUME NEW j \in Jobs, PostStart(j) PROVE Typed'
  BY <1>0, <1>1 DEF PostStart, workerVars
<1>2. ASSUME NEW j \in Jobs \cup {NoJob}, Show(j) PROVE Typed'
  <2>1. pulls' \subseteq PullSet
    BY <1>2, PullsDropped DEF Show
  <2>2. \A p \in pulls' : p.job \in Jobs /\ p.active \in BOOLEAN /\ p.state \in Display \cup {"asked"}
    BY <2>1 DEF PullSet
  <2>3. /\ channel' = j /\ asked' = (j # NoJob) /\ shown' = {} /\ turns' = turns + 1 /\ whole' = Fresh(j)
        /\ UNCHANGED <<start, connVars, net, posts, excused>>
    BY <1>2 DEF Show
  <2>4. asked' \in BOOLEAN /\ whole' \in BOOLEAN /\ turns' \in Nat
    <3>1. (j # NoJob) \in BOOLEAN /\ Fresh(j) \in BOOLEAN
      BY DEF Fresh
    <3> QED
      BY <2>3, <3>1
  <2>5. asked' => channel' # NoJob
    BY <2>3
  <2>6. status' \in Display
    BY <1>2 DEF Show
  <2> QED
    BY <1>0, <2>1, <2>2, <2>3, <2>4, <2>5, <2>6 DEF workerVars
<1>3. ASSUME NEW p \in pulls, Pull(p) PROVE Typed'
  <2>1. p \in PullSet /\ Pulled(p.job) \in Display
    BY DEF Pulled, PullSet, States
  <2>2. pulls' \subseteq PullSet /\ status' \in Display /\ excused' \subseteq Jobs
    BY <1>3, <2>1 DEF Pull, ReadStatus, ReadStatusFails, OnPulled, PullSet
  <2> QED
    BY <1>0, <1>3, <2>2 DEF Pull, ReadStatus, ReadStatusFails, OnPulled, workerVars, PullSet
<1>4. CASE Subscribe
  <2>1. channel \in Jobs /\ Confirmed(channel) \in Msg
    BY <1>4, MessageTyped DEF Subscribe
  <2>2. net' \in Seq(Msg)
    BY <1>4, <2>1, ToSetAppend DEF Subscribe
  <2> QED
    BY <1>0, <1>N, <1>4, <2>1, <2>2 DEF Subscribe, workerVars
<1>5. CASE Deliver
  <2>1. net' \in Seq(Msg) /\ Head(net) \in Msg /\ (channel = NoJob => DropForeign) /\ Head(net) \in ToSet(net)
    BY <1>5, QueueMoves
  <2>2. CASE DropForeign
    <3>1. UNCHANGED <<start, connVars, pageVars, auxVars>>
      BY <2>2 DEF DropForeign
    <3> QED
      BY <1>0, <1>N, <2>1, <3>1 DEF workerVars, pageVars
  <2>3. CASE OnSubscribed /\ channel \in Jobs
    <3>1. [job |-> channel, active |-> TRUE, state |-> "asked"] \in PullSet
      BY <2>3 DEF PullSet
    <3>2. pulls' \subseteq PullSet /\ posts' \subseteq Jobs
      BY <2>3, <3>1 DEF OnSubscribed
    <3>3. \A p \in pulls' : p.job \in Jobs /\ p.active \in BOOLEAN /\ p.state \in Display \cup {"asked"}
      BY <3>2 DEF PullSet
    <3>4. UNCHANGED <<start, connVars, channel, asked, shown, status, auxVars>>
      BY <2>3 DEF OnSubscribed
    <3> QED
      BY <1>0, <1>N, <2>1, <3>2, <3>3, <3>4 DEF workerVars
  <2>4. CASE OnStage \/ OnResult
    BY <1>0, <1>N, <2>1, <2>4 DEF OnStage, OnResult, workerVars
  <2>5. CASE OnOutput /\ channel \in Jobs
    <3>1. Head(net).what \in Streams \X Nat
      BY <2>1, <2>5 DEF OnOutput, Arrives, TruthInv, Truthful
    <3> QED
      BY <1>0, <1>N, <2>1, <2>5, <3>1 DEF OnOutput, workerVars
  <2> QED
    BY <1>5, <2>1, <2>2, <2>3, <2>4, <2>5 DEF Deliver
<1>6. CASE Lose
  <2>1. /\ up' = FALSE /\ member' = NoJob /\ net' = << >> /\ turns' \in Nat /\ whole' \in BOOLEAN
        /\ UNCHANGED <<start, pageVars, excused>>
    <3>1. (whole /\ channel \notin posts \cup start) \in BOOLEAN
      OBVIOUS
    <3> QED
      BY <1>6, <3>1 DEF Lose
  <2>2. net' \in Seq(Msg)
    BY <2>1, EmptySeq
  <2> QED
    BY <1>0, <1>N, <2>1, <2>2 DEF workerVars, pageVars
<1>7. CASE Reconnect
  BY <1>0, <1>7 DEF Reconnect, workerVars
<1> QED
  BY <1>1, <1>2, <1>3, <1>4, <1>5, <1>6, <1>7 DEF Page

\* Every step keeps the types.
LEMMA TypedStep ==
  ASSUME Typed, WorkerInv, TruthInv, Next
  PROVE  Typed'
<1>N. net' \in Seq(Msg) => \A i \in DOMAIN net' : net'[i].job \in Jobs
  BY QueueTyped
<1>1. ASSUME NEW j \in Jobs, Job(j) PROVE Typed'
  BY <1>1, <1>N, JobMoves, StoredMoves DEF Typed, TypeOK, connVars, pageVars
<1>2. ASSUME NEW j \in Jobs, NEW st \in Streams, Pump(j, st) PROVE Typed'
  BY <1>2, <1>N, PumpMoves DEF Typed, TypeOK, connVars, pageVars, auxVars
<1> QED
  BY <1>1, <1>2, PageTyped, NextIs

---------------------------------------------------------------------------
(* What is shown and what is on its way is true. *)

\* Only a job that was started runs and publishes.
LEMMA WorkerStep ==
  ASSUME Typed, WorkerInv, Next
  PROVE  WorkerInv'
<1>1. ASSUME NEW j \in Jobs, Job(j) PROVE WorkerInv'
  <2>1. \A i \in Jobs : /\ stored'[i] = "running" => step'[i] \in Begun
                        /\ stored'[i] = "terminal" => step'[i] \in Ended
    <3> SUFFICES ASSUME NEW i \in Jobs
                 PROVE  /\ stored'[i] = "running" => step'[i] \in Begun
                        /\ stored'[i] = "terminal" => step'[i] \in Ended
      OBVIOUS
    <3>1. /\ stored[i] = "running" => step[i] \in Begun
          /\ stored[i] = "terminal" => step[i] \in Ended
      BY DEF WorkerInv
    <3>2. (step[i] \in Begun => step'[i] \in Begun) /\ (step[i] \in Ended => step'[i] \in Ended)
      BY <1>1, JobMoves
    <3>3. \/ stored'[i] = stored[i]
          \/ stored'[i] = "running" /\ step'[i] \in Begun
          \/ stored'[i] = "terminal" /\ step'[i] \in Ended
      BY <1>1, StoredMoves
    <3> QED
      BY <3>1, <3>2, <3>3
  <2> QED
    BY <1>1, <2>1, JobMoves DEF WorkerInv, Typed, TypeOK
<1>2. ASSUME NEW j \in Jobs, NEW st \in Streams, Pump(j, st) PROVE WorkerInv'
  BY <1>2, PumpMoves
<1>3. CASE Page
  <2>1. start \subseteq start'
    BY <1>3 DEF Page, PostStart, Show, Pull, ReadStatus, ReadStatusFails, OnPulled, Subscribe, Deliver,
                DropForeign, OnSubscribed, OnStage, OnOutput, OnResult, Lose, Reconnect
  <2> QED
    BY <1>3, <2>1, PageLeavesWorker DEF WorkerInv, workerVars
<1> QED
  BY <1>1, <1>2, <1>3, NextIs

\* The page shows, and puts on its way, only what the worker did.
LEMMA PageTruth ==
  ASSUME Typed, WorkerInv, TruthInv, Page
  PROVE  TruthInv'
<1> USE HookAssumption
<1>0. UNCHANGED workerVars
  BY PageLeavesWorker
<1>S. \A j \in Jobs : step[j] \in Ended => step[j] \in Begun
  BY DEF Ended, Begun
<1>1. ASSUME NEW j \in Jobs, PostStart(j) PROVE TruthInv'
  BY <1>0, <1>1 DEF PostStart, workerVars, TruthInv, ShowsItsJob, Truthful, PullTruthful
<1>2. ASSUME NEW j \in Jobs \cup {NoJob}, Show(j) PROVE TruthInv'
  <2>1. \A p \in pulls' : PullTruthful(p)'
    <3> SUFFICES ASSUME NEW q \in pulls PROVE PullTruthful([q EXCEPT !.active = FALSE])'
      BY <1>2 DEF Show
    <3>1. q \in PullSet /\ PullTruthful(q)
      BY DEF Typed, TruthInv
    <3> QED
      BY <1>0, <3>1 DEF PullTruthful, PullSet, workerVars
  <2>2. ShowsItsJob'
    BY <1>2 DEF Show, ShowsItsJob
  <2>3. \A m \in ToSet(net') : Truthful(m)'
    BY <1>0, <1>2 DEF Show, Truthful, TruthInv, workerVars
  <2> QED
    BY <2>1, <2>2, <2>3 DEF TruthInv
<1>3. ASSUME NEW p \in pulls, Pull(p) PROVE TruthInv'
  <2>0. p \in PullSet /\ PullTruthful(p) /\ step[p.job] \in Steps
    BY DEF Typed, TypeOK, TruthInv, PullSet
  <2>1. \A m \in ToSet(net') : Truthful(m)'
    BY <1>0, <1>3 DEF Pull, ReadStatus, ReadStatusFails, OnPulled, Truthful, TruthInv, workerVars
  <2>2. \A q \in pulls' : PullTruthful(q)'
    <3>1. PullTruthful([p EXCEPT !.state = Pulled(p.job)])
      <4>1. p.job \in Jobs /\ (p.active => p.job = channel)
        BY <2>0 DEF PullTruthful, PullSet
      <4>2. /\ Pulled(p.job) = "running" => step[p.job] \in Begun
            /\ Pulled(p.job) = "done" => step[p.job] \in Ended
        BY <4>1 DEF Pulled, WorkerInv, Typed, TypeOK, States
      <4> QED
        BY <2>0, <4>1, <4>2 DEF PullTruthful, PullSet
    <3>2. pulls' \subseteq pulls \cup {[p EXCEPT !.state = Pulled(p.job)]} /\ channel' = channel
      BY <1>3 DEF Pull, ReadStatus, ReadStatusFails, OnPulled
    <3> QED
      BY <1>0, <3>1, <3>2 DEF PullTruthful, TruthInv, workerVars
  <2>3. ShowsItsJob'
    <3>1. channel' = channel /\ shown' = shown /\ (status' = status \/ (status' = p.state /\ p.active))
      <4>1. CASE ReadStatus(p) \/ ReadStatusFails(p)
        BY <4>1 DEF ReadStatus, ReadStatusFails
      <4>2. CASE OnPulled(p)
        BY <4>2 DEF OnPulled
      <4> QED
        BY <1>3, <4>1, <4>2 DEF Pull
    <3>2. p.active => p.job = channel /\ channel # NoJob
      BY <2>0 DEF PullTruthful, PullSet
    <3> QED
      BY <1>0, <2>0, <3>1, <3>2 DEF TruthInv, ShowsItsJob, PullTruthful, workerVars
  <2> QED
    BY <2>1, <2>2, <2>3 DEF TruthInv
<1>4. CASE Subscribe
  <2>1. channel \in Jobs /\ Confirmed(channel) \in Msg
    BY <1>4, MessageTyped DEF Subscribe, Typed, TypeOK
  <2>2. ToSet(net') = ToSet(net) \cup {Confirmed(channel)}
    BY <1>4, <2>1, ToSetAppend DEF Subscribe, Typed
  <2>3. Truthful(Confirmed(channel))'
    BY DEF Truthful, Confirmed, Message
  <2>4. UNCHANGED <<channel, pulls, shown, status>>
    BY <1>4 DEF Subscribe
  <2> QED
    BY <1>0, <2>2, <2>3, <2>4 DEF TruthInv, ShowsItsJob, Truthful, PullTruthful, workerVars
<1>5. CASE Deliver
  <2>1. Head(net) \in Msg /\ ToSet(net) = {Head(net)} \cup ToSet(net') /\ (channel = NoJob => DropForeign)
    BY <1>5, QueueMoves
  <2>2. Truthful(Head(net)) /\ \A m \in ToSet(net') : Truthful(m)'
    BY <1>0, <2>1 DEF TruthInv, Truthful, workerVars
  <2>3. /\ channel' = channel
        /\ pulls' \subseteq pulls \cup {[job |-> channel, active |-> TRUE, state |-> "asked"]}
    BY <1>5 DEF Deliver, DropForeign, OnSubscribed, OnStage, OnOutput, OnResult, pageVars
  <2>4. \A q \in pulls' : PullTruthful(q)'
    BY <1>0, <2>3 DEF TruthInv, PullTruthful, workerVars
  <2>5. ShowsItsJob'
    <3>1. CASE DropForeign
      BY <1>0, <3>1 DEF DropForeign, TruthInv, ShowsItsJob, workerVars, pageVars
    <3>2. CASE OnSubscribed
      BY <1>0, <3>2 DEF OnSubscribed, TruthInv, ShowsItsJob, workerVars
    <3>3. CASE OnStage /\ channel # NoJob
      BY <1>0, <2>2, <3>3 DEF OnStage, Arrives, Truthful, TruthInv, ShowsItsJob, workerVars
    <3>4. CASE OnOutput /\ channel # NoJob
      <4>1. channel \in Jobs /\ Head(net).what \in triggered[channel] /\ step[channel] \in Begun
        BY <2>2, <3>4 DEF OnOutput, Arrives, Truthful, WorkerInv, Typed, TypeOK
      <4> QED
        BY <1>0, <3>4, <4>1 DEF OnOutput, TruthInv, ShowsItsJob, workerVars
    <3>5. CASE OnResult /\ channel # NoJob
      BY <1>0, <2>2, <3>5 DEF OnResult, Arrives, Truthful, TruthInv, ShowsItsJob, workerVars
    <3> QED
      BY <1>5, <2>1, <3>1, <3>2, <3>3, <3>4, <3>5 DEF Deliver
  <2> QED
    BY <2>2, <2>4, <2>5 DEF TruthInv
<1>6. CASE Lose \/ Reconnect
  <2>1. ToSet(net') \subseteq ToSet(net) /\ UNCHANGED <<channel, pulls, shown, status>>
    BY <1>6, ToSetEmpty DEF Lose, Reconnect, pageVars
  <2> QED
    BY <1>0, <2>1 DEF TruthInv, ShowsItsJob, Truthful, PullTruthful, workerVars
<1> QED
  BY <1>1, <1>2, <1>3, <1>4, <1>5, <1>6 DEF Page

\* What is shown and on its way stays true as the worker goes on.
LEMMA TruthStep ==
  ASSUME Typed, WorkerInv, TruthInv, Next
  PROVE  TruthInv'
<1>0. ASSUME \A i \in Jobs : /\ step[i] \in Begun => step'[i] \in Begun
                             /\ step[i] \in Ended => step'[i] \in Ended
                             /\ triggered[i] \subseteq triggered'[i],
             UNCHANGED pageVars, \A m \in ToSet(net') : m \in ToSet(net) \/ Truthful(m)'
      PROVE  TruthInv'
  <2>1. ShowsItsJob'
    BY <1>0 DEF TruthInv, ShowsItsJob, pageVars, Typed, TypeOK
  <2>2. \A m \in ToSet(net) : m.job \in Jobs
    BY QueueTyped DEF Typed, ToSet
  <2>3. \A m \in ToSet(net') : Truthful(m)'
    BY <1>0, <2>2 DEF TruthInv, Truthful
  <2>4. \A p \in pulls' : PullTruthful(p)'
    BY <1>0 DEF TruthInv, PullTruthful, pageVars, Typed, TypeOK
  <2> QED
    BY <2>1, <2>3, <2>4 DEF TruthInv
<1>1. ASSUME NEW j \in Jobs, Job(j) PROVE TruthInv'
  BY <1>0, <1>1, JobMoves
<1>2. ASSUME NEW j \in Jobs, NEW st \in Streams, Pump(j, st) PROVE TruthInv'
  <2>1. CASE net' = net /\ triggered' = triggered
    BY <1>0, <1>2, <2>1, PumpMoves
  <2>2. CASE ~(net' = net /\ triggered' = triggered)
    <3>1. PICK n \in Nat \ {0} :
            /\ triggered' = [triggered EXCEPT ![j] = @ \cup {<<st, n>>}]
            /\ ToSet(net') \subseteq ToSet(net) \cup {Output(j, st, n)}
      BY <1>2, <2>2, PumpMoves
    <3>2. Truthful(Output(j, st, n))' /\ \A i \in Jobs : triggered[i] \subseteq triggered'[i]
      BY <3>1 DEF Truthful, Output, Message, Typed, TypeOK
    <3> QED
      BY <1>0, <1>2, <3>1, <3>2, PumpMoves
  <2> QED
    BY <2>1, <2>2
<1> QED
  BY <1>1, <1>2, PageTruth, NextIs

---------------------------------------------------------------------------
(* The start handshake. *)

\* A step that changes nothing of the page but moves messages keeps the
\* handshake, when no confirmation joins them.
LEMMA HandshakeKept ==
  ASSUME HandshakeInv, UNCHANGED <<start, posts, connVars, channel, whole>>,
         \A m \in ToSet(net') : m \in ToSet(net) \/ m.kind # "confirmed"
  PROVE  HandshakeInv'
BY DEF HandshakeInv, connVars, Confirmed, Message

\* A job waits for the start of a page that is in its channel.
LEMMA HandshakeStep ==
  ASSUME Typed, WorkerInv, TruthInv, HandshakeInv, Next
  PROVE  HandshakeInv'
<1> USE HookAssumption
<1>1. CASE UNCHANGED <<start, posts, connVars, channel, whole, net>>
  BY <1>1 DEF HandshakeInv, connVars
<1>2. ASSUME NEW j \in Jobs, Job(j) PROVE HandshakeInv'
  <2>0. UNCHANGED <<start, posts, connVars, channel, whole>>
    BY <1>2, JobMoves DEF pageVars
  <2>1. CASE net' = net
    BY <1>1, <2>0, <2>1
  <2>2. CASE net' # net
    <3>1. PICK m \in Msg : m.kind \in {"stage", "result"} /\ ToSet(net') = ToSet(net) \cup {m}
      BY <1>2, <2>2, JobMoves
    <3> QED
      BY <2>0, <3>1, HandshakeKept
  <2> QED
    BY <2>1, <2>2
<1>3. ASSUME NEW j \in Jobs, NEW st \in Streams, Pump(j, st) PROVE HandshakeInv'
  <2>0. UNCHANGED <<start, posts, connVars, channel, whole>>
    BY <1>3, PumpMoves DEF pageVars, auxVars
  <2>1. CASE net' = net
    BY <1>1, <2>0, <2>1
  <2>2. CASE net' # net
    <3>1. PICK n \in Nat : ToSet(net') = ToSet(net) \cup {Output(j, st, n)}
      BY <1>3, <2>2, PumpMoves
    <3>2. Output(j, st, n).kind # "confirmed"
      BY DEF Output, Message
    <3> QED
      BY <2>0, <3>1, <3>2, HandshakeKept
  <2> QED
    BY <2>1, <2>2
<1>4. ASSUME NEW j \in Jobs, PostStart(j) PROVE HandshakeInv'
  BY <1>4 DEF PostStart, connVars, auxVars, HandshakeInv
<1>5. ASSUME NEW j \in Jobs \cup {NoJob}, Show(j) PROVE HandshakeInv'
  BY <1>5 DEF Show, Fresh, HandshakeInv
<1>6. ASSUME NEW p \in pulls, Pull(p) PROVE HandshakeInv'
  BY <1>1, <1>6 DEF Pull, ReadStatus, ReadStatusFails, OnPulled, connVars, auxVars
<1>7. CASE Subscribe
  BY <1>7 DEF Subscribe, HandshakeInv
<1>8. CASE Deliver
  <2>1. Head(net) \in ToSet(net) /\ ToSet(net') \subseteq ToSet(net)
    BY <1>8, QueueMoves
  <2>2. UNCHANGED <<start, connVars, channel, whole>>
    BY <1>8 DEF Deliver, DropForeign, OnSubscribed, OnStage, OnOutput, OnResult, auxVars, pageVars
  <2>3. CASE OnSubscribed
    <3>1. posts' = posts \cup {channel} /\ Head(net).kind = "confirmed" /\ Head(net).job = channel
      BY <2>3 DEF OnSubscribed, Arrives
    <3>2. Confirmed(channel) \in ToSet(net)
      BY <2>1, <3>1 DEF TruthInv, Truthful
    <3> QED
      BY <2>1, <2>2, <3>1, <3>2 DEF connVars, HandshakeInv
  <2>4. CASE posts' = posts
    BY <2>1, <2>2, <2>4, HandshakeKept
  <2> QED
    BY <1>8, <2>3, <2>4 DEF Deliver, DropForeign, OnStage, OnOutput, OnResult, pageVars
<1>9. CASE Lose
  <2>1. /\ whole' = (whole /\ channel \notin posts \cup start) /\ net' = << >>
        /\ UNCHANGED <<start, posts, channel>>
    BY <1>9 DEF Lose, pageVars
  <2> QED
    BY <2>1, ToSetEmpty DEF HandshakeInv
<1>10. CASE Reconnect
  BY <1>10 DEF Reconnect, auxVars, HandshakeInv
<1> QED
  BY <1>2, <1>3, <1>4, <1>5, <1>6, <1>7, <1>8, <1>9, <1>10, NextIs DEF Page

\* NothingMissed, over the elements of the queue.
Has == whole /\ channel # NoJob =>
         \A o \in triggered[channel] : o \in shown \/ Message(channel, "output", o) \in ToSet(net)

\* NothingMissed, as it is used below.
LEMMA HasIs == NothingMissed <=> Has
BY DEF NothingMissed, Has, ToSet

\* No step loses an output of a page that is there from the start.
LEMMA MissStep ==
  ASSUME Typed, WorkerInv, HandshakeInv, Has, Next
  PROVE  Has'
<1> USE HookAssumption DEF Has
<1>1. ASSUME NEW j \in Jobs, Job(j) PROVE Has'
  BY <1>1, JobMoves DEF pageVars
<1>2. ASSUME NEW j \in Jobs, NEW st \in Streams, Pump(j, st) PROVE Has'
  <2>0. UNCHANGED <<ran, start, connVars, pageVars, auxVars>>
    BY <1>2, PumpMoves
  <2>1. CASE net' = net /\ triggered' = triggered
    BY <2>0, <2>1 DEF pageVars, auxVars
  <2>2. CASE ~(net' = net /\ triggered' = triggered)
    <3>1. PICK n \in Nat \ {0} :
            /\ n = sending[j][st]
            /\ triggered' = [triggered EXCEPT ![j] = @ \cup {<<st, n>>}]
            /\ IF up /\ member = j THEN ToSet(net') = ToSet(net) \cup {Output(j, st, n)} ELSE net' = net
      BY <1>2, <2>2, PumpMoves
    <3>2. j \in start
      BY <3>1 DEF WorkerInv
    <3>3. ToSet(net) \subseteq ToSet(net')
      BY <3>1
    <3>4. CASE j = channel
      <4>1. whole => up /\ member = j
        BY <3>2, <3>4 DEF HandshakeInv
      <4>2. whole => /\ triggered'[channel] = triggered[channel] \cup {<<st, n>>}
                     /\ ToSet(net') = ToSet(net) \cup {Message(channel, "output", <<st, n>>)}
        BY <3>1, <3>4, <4>1 DEF Output, Typed, TypeOK
      <4> QED
        BY <2>0, <4>2 DEF pageVars, auxVars
    <3>5. CASE j # channel
      <4>1. channel # NoJob => triggered'[channel] = triggered[channel]
        BY <3>1, <3>5 DEF Typed, TypeOK
      <4> QED
        BY <2>0, <3>3, <4>1 DEF pageVars, auxVars
    <3> QED
      BY <3>4, <3>5
  <2> QED
    BY <2>1, <2>2
<1>3. CASE Page
  <2>0. triggered' = triggered
    BY <1>3, PageLeavesWorker DEF workerVars
  <2>1. ASSUME NEW j \in Jobs, PostStart(j) PROVE Has'
    BY <2>0, <2>1 DEF PostStart, auxVars
  <2>2. ASSUME NEW j \in Jobs \cup {NoJob}, Show(j) PROVE Has'
    <3>1. channel' = j /\ (whole' => j \notin start)
      BY <2>2 DEF Show, Fresh
    <3>2. j \in Jobs /\ j \notin start => triggered[j] = {}
      BY DEF WorkerInv
    <3> QED
      BY <2>0, <3>1, <3>2
  <2>3. ASSUME NEW p \in pulls, Pull(p) PROVE Has'
    BY <2>0, <2>3 DEF Pull, ReadStatus, ReadStatusFails, OnPulled, auxVars
  <2>4. CASE Subscribe
    <3>1. Confirmed(channel) \in Msg
      BY <2>4, MessageTyped DEF Subscribe, Typed, TypeOK
    <3>2. ToSet(net') = ToSet(net) \cup {Confirmed(channel)}
      BY <2>4, <3>1, ToSetAppend DEF Subscribe, Typed
    <3> QED
      BY <2>0, <2>4, <3>2 DEF Subscribe
  <2>5. CASE Deliver
    <3>1. ToSet(net) = {Head(net)} \cup ToSet(net') /\ (channel = NoJob => DropForeign)
      BY <2>5, QueueMoves
    <3>2. UNCHANGED <<channel, whole>> /\ shown \subseteq shown'
      BY <2>5 DEF Deliver, DropForeign, OnSubscribed, OnStage, OnOutput, OnResult, auxVars, pageVars
    <3>3. ASSUME NEW o, Head(net) = Message(channel, "output", o) PROVE o \in shown'
      BY <2>5, <3>3 DEF Deliver, DropForeign, OnSubscribed, OnStage, OnOutput, OnResult, Arrives, Message
    <3> QED
      BY <2>0, <3>1, <3>2, <3>3
  <2>6. CASE Lose
    <3>1. channel' = channel /\ (whole' => channel \notin start)
      BY <2>6 DEF Lose, pageVars
    <3>2. channel \in Jobs /\ channel \notin start => triggered[channel] = {}
      BY DEF WorkerInv
    <3> QED
      BY <2>0, <3>1, <3>2 DEF Typed, TypeOK
  <2>7. CASE Reconnect
    BY <2>0, <2>7 DEF Reconnect, auxVars
  <2> QED
    BY <1>3, <2>1, <2>2, <2>3, <2>4, <2>5, <2>6, <2>7 DEF Page
<1> QED
  BY <1>1, <1>2, <1>3, NextIs

---------------------------------------------------------------------------
(* The order of the text. *)

\* A message that is behind nothing keeps the order.
LEMMA OrderAppends ==
  ASSUME net \in Seq(Msg), OrderInv, NEW m \in Msg, net' = Append(net, m), UNCHANGED <<shown, channel>>,
         \A n \in ToSet(net) : Behind(n, m),
         \A o \in shown : Behind(Output(channel, o[1], o[2]), m)
  PROVE  OrderInv'
<1>1. ToSet(net') = ToSet(net) \cup {m}
  BY ToSetAppend
<1>2. Ascends(net')
  BY AscendsAppend DEF OrderInv
<1> QED
  BY <1>1, <1>2 DEF OrderInv

\* Every step keeps numbers ascending, from what is shown to what is published last.
LEMMA OrderStep ==
  ASSUME Typed, WorkerInv, TruthInv, OrderInv, Next
  PROVE  OrderInv'
<1> USE HookAssumption
<1>0. net \in Seq(Msg)
  BY DEF Typed
<1>1. CASE UNCHANGED <<net, shown, channel>>
  BY <1>1 DEF OrderInv
<1>2. ASSUME NEW m \in Msg, m.kind # "output", net' = Append(net, m), UNCHANGED <<shown, channel>>
      PROVE  OrderInv'
  BY <1>0, <1>2, OrderAppends DEF Behind
<1>3. ASSUME NEW j \in Jobs, Job(j) PROVE OrderInv'
  BY <1>1, <1>2, <1>3, JobMoves DEF pageVars
<1>4. ASSUME NEW j \in Jobs, NEW st \in Streams, Pump(j, st) PROVE OrderInv'
  <2>1. CASE net' = net
    BY <1>1, <1>4, <2>1, PumpMoves DEF pageVars
  <2>2. CASE net' # net
    <3>1. PICK n \in Nat \ {0} : n = sending[j][st] /\ net' = Append(net, Output(j, st, n))
      BY <1>4, <2>2, PumpMoves
    <3>2. Output(j, st, n) \in Msg
      BY MessageTyped
    <3>3. \A o \in triggered[j] : o[1] = st => o[2] < n
      BY <3>1 DEF WorkerInv
    <3>4. \A m \in ToSet(net) : Behind(m, Output(j, st, n))
      BY <3>3 DEF TruthInv, Truthful, Behind, Output, Message
    <3>5. \A o \in shown : Behind(Output(channel, o[1], o[2]), Output(j, st, n))
      BY <3>3 DEF TruthInv, ShowsItsJob, Behind, Output, Message
    <3>6. UNCHANGED <<shown, channel>>
      BY <1>4, PumpMoves DEF pageVars
    <3> QED
      BY <1>0, <3>1, <3>2, <3>4, <3>5, <3>6, OrderAppends
  <2> QED
    BY <2>1, <2>2
<1>5. ASSUME NEW j \in Jobs \cup {NoJob}, Show(j) PROVE OrderInv'
  BY <1>5 DEF Show, OrderInv
<1>6. CASE Subscribe
  <2>1. Confirmed(channel) \in Msg /\ Confirmed(channel).kind # "output"
    BY <1>6, MessageTyped DEF Subscribe, Typed, TypeOK, Confirmed, Message
  <2>2. net' = Append(net, Confirmed(channel)) /\ UNCHANGED <<shown, channel>>
    BY <1>6 DEF Subscribe
  <2> QED
    BY <1>2, <2>1, <2>2
<1>7. CASE Deliver
  <2>1. /\ net # << >> /\ net' = Tail(net) /\ ToSet(net) = {Head(net)} \cup ToSet(net') /\ channel' = channel
        /\ shown' = shown \/ (OnOutput /\ shown' = shown \cup {Head(net).what})
    BY <1>7, QueueMoves DEF Deliver, DropForeign, OnSubscribed, OnStage, OnOutput, OnResult, pageVars
  <2>2. Ascends(net') /\ \A n \in ToSet(net') : Behind(Head(net), n)
    BY <1>0, <2>1, AscendsTail DEF OrderInv
  <2>3. CASE shown' = shown
    BY <2>1, <2>2, <2>3 DEF OrderInv
  <2>4. CASE OnOutput /\ shown' = shown \cup {Head(net).what}
    <3>1. Head(net).kind = "output" /\ Head(net).job = channel
      BY <2>4 DEF OnOutput, Arrives
    <3>2. \A n \in ToSet(net') : Behind(Output(channel, Head(net).what[1], Head(net).what[2]), n)
      BY <2>2, <3>1 DEF Behind, Output, Message
    <3> QED
      BY <2>1, <2>2, <2>4, <3>2 DEF OrderInv
  <2> QED
    BY <2>1, <2>3, <2>4
<1>8. CASE Lose
  BY <1>8, ToSetEmpty DEF Lose, pageVars, OrderInv, Ascends
<1>9. CASE Reconnect \/ (\E j \in Jobs : PostStart(j)) \/ (\E p \in pulls : Pull(p))
  BY <1>1, <1>9 DEF Reconnect, PostStart, Pull, ReadStatus, ReadStatusFails, OnPulled
<1> QED
  BY <1>3, <1>4, <1>5, <1>6, <1>7, <1>8, <1>9, NextIs DEF Page

---------------------------------------------------------------------------
(* The invariant, and what follows from it. *)

\* Every step keeps the invariant.
LEMMA StepInv == HookInv /\ [Next]_vars => HookInv'
<1> SUFFICES ASSUME HookInv, [Next]_vars PROVE HookInv'
  OBVIOUS
<1>1. CASE Next
  <2>1. Typed' /\ WorkerInv' /\ TruthInv' /\ HandshakeInv' /\ OrderInv'
    BY <1>1, TypedStep, WorkerStep, TruthStep, HandshakeStep, OrderStep DEF HookInv
  <2>2. NothingMissed'
    <3>1. Has'
      BY <1>1, HasIs, MissStep DEF HookInv
    <3> QED
      BY <3>1 DEF Has, NothingMissed, ToSet
  <2> QED
    BY <2>1, <2>2 DEF HookInv
<1>2. CASE UNCHANGED vars
  BY <1>2 DEF vars, workerVars, connVars, pageVars, auxVars, HookInv, Typed, TypeOK, WorkerInv, TruthInv,
              ShowsItsJob, Truthful, PullTruthful, HandshakeInv, NothingMissed, OrderInv
<1> QED
  BY <1>1, <1>2

\* The invariant holds throughout.
LEMMA Invariance == Spec => []HookInv
BY InitInv, StepInv, PTL DEF Spec

\* Every variable of the worker, the connection and the hook keeps its type.
THEOREM TypeCorrect == Spec => []TypeOK
<1>1. HookInv => TypeOK
  BY DEF HookInv, Typed
<1> QED
  BY <1>1, Invariance, PTL

\* However the page changes its job or loses its connection, it shows output
\* and progress of the present one only.
THEOREM ShowsOwnJobOnly == Spec => []ShowsItsJob
<1>1. HookInv => ShowsItsJob
  BY DEF HookInv, TruthInv
<1> QED
  BY <1>1, Invariance, PTL

\* Starting on subscription_succeeded is enough: of a job that the page opened
\* before it was started, whichever jobs came before it, no output is published
\* before the page is in its channel.
THEOREM HandshakeMissesNothing == Spec => []NothingMissed
<1>1. HookInv => NothingMissed
  BY DEF HookInv
<1> QED
  BY <1>1, Invariance, PTL

\* The numbers of one publisher and one queue keep the text of a stream in
\* order, with whatever gaps.
THEOREM TextInOrder == Spec => TextGrowsAtItsEnd
<1> DEFINE Grows == channel' = channel =>
                      \A new \in shown' \ shown, old \in shown : new[1] = old[1] => new[2] > old[2]
<1>1. HookInv /\ [Next]_vars => [Grows]_vars
  <2> SUFFICES ASSUME HookInv, Next, channel' = channel, NEW new \in shown' \ shown, NEW old \in shown,
                      new[1] = old[1]
               PROVE  new[2] > old[2]
    OBVIOUS
  <2>1. OnOutput
    <3>1. ASSUME NEW j \in Jobs, Job(j) PROVE FALSE
      BY <3>1, JobMoves DEF HookInv, pageVars
    <3>2. ASSUME NEW j \in Jobs, NEW st \in Streams, Pump(j, st) PROVE FALSE
      BY <3>2, PumpMoves DEF HookInv, pageVars
    <3> QED
      BY <3>1, <3>2, NextIs
         DEF Page, PostStart, Show, Pull, ReadStatus, ReadStatusFails, OnPulled, Subscribe, Deliver, DropForeign,
             OnSubscribed, OnStage, OnResult, Lose, Reconnect, pageVars
  <2>2. new = Head(net).what /\ Head(net).kind = "output" /\ Head(net).job = channel /\ Head(net) \in ToSet(net)
    BY <2>1, QueueMoves DEF OnOutput, Arrives, Deliver, HookInv
  <2>3. Behind(Output(channel, old[1], old[2]), Head(net))
    BY <2>2 DEF HookInv, OrderInv
  <2>4. old[2] < new[2]
    BY <2>2, <2>3 DEF Behind, Output, Message
  <2>5. old[2] \in Nat /\ new[2] \in Nat
    <3>1. shown \subseteq Streams \X Nat /\ shown' \subseteq Streams \X Nat
      BY TypedStep DEF HookInv, Typed, TypeOK
    <3> QED
      BY <3>1
  <2> QED
    BY <2>4, <2>5
<1> QED
  BY <1>1, Invariance, PTL DEF Spec, TextGrowsAtItsEnd

---------------------------------------------------------------------------
(* What a "done" page may fall back for. *)

\* Progress and output of a job that its worker published before the result.
Early(m, c, late) == m.job = c /\ (m.kind = "stage" \/ (m.kind = "output" /\ m.what \notin late))

\* Each of them has the result, or a new confirmation, behind it.
Settled(s, c, late) ==
  \A i \in DOMAIN s : Early(s[i], c, late) =>
    \E k \in DOMAIN s : k > i /\ s[k] \in {Result(c), Confirmed(c)}

\* A page that is connected is in its channel or about to ask for it, so that
\* of a job that has ended it gets no event without the result behind it.
SettledInv ==
  /\ ~up => net = << >>
  /\ up /\ ~asked /\ channel # NoJob => member = channel
  /\ channel # NoJob /\ step[channel] \in Ended =>
       channel \in excused \/ asked \/ Settled(net, channel, trailing[channel])

\* A queue stays settled when what joins it is not early, or settles it.
LEMMA SettledAppend ==
  ASSUME NEW s \in Seq(Msg), NEW m \in Msg, NEW c, NEW late, Settled(s, c, late),
         ~Early(m, c, late)
  PROVE  Settled(Append(s, m), c, late)
<1>1. /\ Len(Append(s, m)) = Len(s) + 1
      /\ \A i \in 1 .. Len(s) : Append(s, m)[i] = s[i]
      /\ Append(s, m)[Len(s) + 1] = m
  BY AppendProperties
<1>2. Len(s) \in Nat /\ DOMAIN s = 1 .. Len(s) /\ DOMAIN Append(s, m) = 1 .. Len(s) + 1
  BY <1>1, LenProperties, AppendProperties
<1> SUFFICES ASSUME NEW i \in 1 .. Len(s) + 1, Early(Append(s, m)[i], c, late)
             PROVE  \E k \in 1 .. Len(s) + 1 : k > i /\ Append(s, m)[k] \in {Result(c), Confirmed(c)}
  BY <1>2 DEF Settled
<1>3. i \in 1 .. Len(s) /\ Early(s[i], c, late)
  BY <1>1, <1>2
<1>4. PICK k \in 1 .. Len(s) : k > i /\ s[k] \in {Result(c), Confirmed(c)}
  BY <1>2, <1>3 DEF Settled
<1> QED
  BY <1>1, <1>2, <1>4

\* The result or a confirmation settles whatever is before it.
LEMMA SettledByLast ==
  ASSUME NEW s \in Seq(Msg), NEW m \in Msg, NEW c, NEW late, m \in {Result(c), Confirmed(c)}
  PROVE  Settled(Append(s, m), c, late)
<1>1. /\ Len(Append(s, m)) = Len(s) + 1
      /\ Append(s, m)[Len(s) + 1] = m
  BY AppendProperties
<1>2. Len(s) \in Nat /\ DOMAIN Append(s, m) = 1 .. Len(s) + 1
  BY <1>1, LenProperties, AppendProperties
<1>3. ~Early(m, c, late)
  BY DEF Early, Result, Confirmed, Message
<1> SUFFICES ASSUME NEW i \in 1 .. Len(s) + 1, Early(Append(s, m)[i], c, late)
             PROVE  \E k \in 1 .. Len(s) + 1 : k > i /\ Append(s, m)[k] \in {Result(c), Confirmed(c)}
  BY <1>2 DEF Settled
<1>4. i # Len(s) + 1
  BY <1>1, <1>3
<1> QED
  BY <1>1, <1>2, <1>4

\* What is behind the head stays behind it.
LEMMA SettledTail ==
  ASSUME NEW s \in Seq(Msg), s # << >>, NEW c, NEW late, Settled(s, c, late)
  PROVE  /\ Settled(Tail(s), c, late)
         /\ Early(Head(s), c, late) => Result(c) \in ToSet(Tail(s)) \/ Confirmed(c) \in ToSet(Tail(s))
<1>1. Len(Tail(s)) = Len(s) - 1 /\ \A i \in 1 .. Len(Tail(s)) : Tail(s)[i] = s[i + 1]
  BY HeadTailProperties
<1>2. Len(s) \in Nat \ {0} /\ DOMAIN s = 1 .. Len(s) /\ DOMAIN Tail(s) = 1 .. Len(s) - 1 /\ Head(s) = s[1]
  BY <1>1, LenProperties, EmptySeq, HeadTailProperties
<1>3. ASSUME NEW i \in 1 .. Len(s), Early(s[i], c, late)
      PROVE  \E k \in 1 .. Len(s) - 1 : k > i - 1 /\ Tail(s)[k] \in {Result(c), Confirmed(c)}
  <2>1. PICK k \in 1 .. Len(s) : k > i /\ s[k] \in {Result(c), Confirmed(c)}
    BY <1>2, <1>3 DEF Settled
  <2>2. k - 1 \in 1 .. Len(s) - 1 /\ Tail(s)[k - 1] = s[k] /\ k - 1 > i - 1
    BY <1>1, <1>2, <2>1
  <2> QED
    BY <2>1, <2>2
<1>4. Settled(Tail(s), c, late)
  <2> SUFFICES ASSUME NEW i \in 1 .. Len(s) - 1, Early(Tail(s)[i], c, late)
               PROVE  \E k \in 1 .. Len(s) - 1 : k > i /\ Tail(s)[k] \in {Result(c), Confirmed(c)}
    BY <1>2 DEF Settled
  <2>1. i + 1 \in 1 .. Len(s) /\ s[i + 1] = Tail(s)[i] /\ i + 1 - 1 = i
    BY <1>1, <1>2
  <2> QED
    BY <1>3, <2>1
<1>5. Early(Head(s), c, late) => Result(c) \in ToSet(Tail(s)) \/ Confirmed(c) \in ToSet(Tail(s))
  <2> SUFFICES ASSUME Early(Head(s), c, late)
               PROVE  \E k \in 1 .. Len(s) - 1 : Tail(s)[k] \in {Result(c), Confirmed(c)}
    BY <1>2 DEF ToSet
  <2> QED
    BY <1>2, <1>3
<1> QED
  BY <1>4, <1>5

\* An empty queue is settled, and a settled one stays so as output turns late.
LEMMA SettledLater ==
  ASSUME NEW c, NEW late, NEW later, late \subseteq later
  PROVE  /\ Settled(<< >>, c, late)
         /\ \A s : Settled(s, c, late) => Settled(s, c, later)
<1>1. Settled(<< >>, c, late)
  BY LenProperties, EmptySeq DEF Settled
<1>2. ASSUME NEW s, Settled(s, c, late) PROVE Settled(s, c, later)
  BY <1>2 DEF Settled, Early
<1> QED
  BY <1>1, <1>2

\* An event passed on to the page.
LEMMA SettledPublish ==
  ASSUME net \in Seq(Msg), SettledInv, NEW m \in Msg, Publish(m), NEW late,
         channel # NoJob, Settled(net, channel, late), ~Early(m, channel, late)
  PROVE  Settled(net', channel, late)
BY SettledAppend DEF Publish

\* Nobody gets an event without a connection.
LEMMA NothingUnconnected ==
  ASSUME SettledInv, NEW m, Publish(m)
  PROVE  ~up => net' = << >>
BY DEF SettledInv, Publish

\* What ends a job settles what the page has coming of it.
LEMMA SettledJob ==
  ASSUME HookInv, SettledInv, NEW j \in Jobs, Job(j)
  PROVE  SettledInv'
<1>0. /\ net \in Seq(Msg) /\ step \in [Jobs -> Steps]
      /\ channel \in Jobs \cup {NoJob}
  BY DEF HookInv, Typed, TypeOK
<1>1. UNCHANGED <<trailing, up, member, channel, asked>>
  BY DEF Job, Park, Compile, StartRun, WriteRunning, PublishResult, PublishResultFails, WriteFinal,
         connVars, pageVars
<1>2. CASE UNCHANGED <<net, excused>> /\ (step'[j] \in Ended => step[j] \in Ended)
           /\ \A i \in Jobs \ {j} : step'[i] = step[i]
  BY <1>0, <1>1, <1>2 DEF SettledInv
<1>3. ASSUME NEW phase \in {"queued", "compiling", "running"}, Announce(j, phase),
             step'[j] \notin Ended, \A i \in Jobs \ {j} : step'[i] = step[i], excused' = excused
      PROVE  SettledInv'
  <2>0. Publish(Stage(j, phase)) \/ net' = net
    BY <1>3 DEF Announce
  <2>1. ~up' => net' = << >>
    BY <1>1, <2>0, NothingUnconnected DEF SettledInv
  <2>2. ASSUME channel # NoJob, step'[channel] \in Ended
        PROVE  channel \in excused \/ asked \/ Settled(net', channel, trailing[channel])
    <3>1. channel # j /\ step[channel] \in Ended
      BY <1>0, <1>3, <2>2
    <3>2. ~Early(Stage(j, phase), channel, trailing[channel]) /\ Stage(j, phase) \in Msg
      BY <3>1, MessageTyped DEF Early, Stage, Message
    <3> QED
      BY <1>0, <2>0, <2>2, <3>1, <3>2, SettledPublish DEF SettledInv
  <2> QED
    BY <1>1, <1>3, <2>1, <2>2 DEF SettledInv
<1>4. CASE PublishResult(j)
  <2>0. /\ Publish(Result(j)) /\ excused' = excused /\ \A i \in Jobs \ {j} : step'[i] = step[i]
        /\ Result(j) \in Msg
    BY <1>4, <1>0, MessageTyped DEF PublishResult, auxVars
  <2>1. ~up' => net' = << >>
    BY <1>1, <2>0, NothingUnconnected
  <2>2. ASSUME channel # NoJob, step'[channel] \in Ended, channel # j
        PROVE  channel \in excused \/ asked \/ Settled(net', channel, trailing[channel])
    <3>1. ~Early(Result(j), channel, trailing[channel])
      BY <2>2 DEF Early, Result, Message
    <3> QED
      BY <1>0, <2>0, <2>2, <3>1, SettledPublish DEF SettledInv
  <2>3. ASSUME channel = j, ~asked
        PROVE  Settled(net', channel, trailing[channel])
    <3>1. CASE up
      <4>1. member = j /\ Result(j).job = j
        BY <2>3, <3>1, HookAssumption DEF SettledInv, Result, Message
      <4>2. net' = Append(net, Result(j))
        BY <2>0, <3>1, <4>1 DEF Publish
      <4> QED
        BY <1>0, <2>0, <2>3, <4>2, SettledByLast
    <3>2. CASE ~up
      BY <1>1, <2>1, <3>2, SettledLater
    <3> QED
      BY <3>1, <3>2
  <2> QED
    BY <1>1, <2>0, <2>1, <2>2, <2>3 DEF SettledInv
<1>5. CASE PublishResultFails(j)
  <2>1. /\ net' = net /\ excused' = excused \cup {j} /\ \A i \in Jobs \ {j} : step'[i] = step[i]
    BY <1>0, <1>5 DEF PublishResultFails
  <2> QED
    BY <1>0, <1>1, <2>1 DEF SettledInv
<1>6. CASE WriteRunning(j) \/ WriteFinal(j)
  BY <1>0, <1>2, <1>6 DEF WriteRunning, WriteFinal, auxVars, Ended
<1>7. CASE Park(j)
  BY <1>0, <1>3, <1>7 DEF Park, auxVars, Ended
<1>8. CASE Compile(j)
  BY <1>0, <1>3, <1>8 DEF Compile, auxVars, Ended
<1>9. CASE StartRun(j)
  BY <1>0, <1>3, <1>9 DEF StartRun, auxVars, Ended
<1> QED
  BY <1>4, <1>5, <1>6, <1>7, <1>8, <1>9 DEF Job

\* Output that is published after the result is late.
LEMMA SettledPump ==
  ASSUME HookInv, SettledInv, NEW j \in Jobs, NEW st \in Streams, Pump(j, st)
  PROVE  SettledInv'
<1>0. /\ net \in Seq(Msg) /\ channel \in Jobs \cup {NoJob}
      /\ trailing \in [Jobs -> SUBSET (Streams \X Nat)] /\ sending \in [Jobs -> [Streams -> Nat]]
  BY DEF HookInv, Typed, TypeOK
<1>1. UNCHANGED <<step, up, member, channel, asked, excused>>
  BY DEF Pump, NextSeq, Trigger, TriggerFails, connVars, pageVars, auxVars
<1>2. CASE NextSeq(j, st) \/ TriggerFails(j, st)
  BY <1>1, <1>2 DEF NextSeq, TriggerFails, SettledInv
<1>3. CASE Trigger(j, st)
  <2> DEFINE n == sending[j][st]
  <2>1. /\ Publish(Output(j, st, n))
        /\ trailing' = [trailing EXCEPT ![j] = IF step[j] \in Ended THEN @ \cup {<<st, n>>} ELSE @]
        /\ Output(j, st, n) \in Msg
    BY <1>0, <1>3, MessageTyped DEF Trigger
  <2>2. ~up' => net' = << >>
    BY <1>1, <2>1, NothingUnconnected
  <2>3. ASSUME channel # NoJob, step[channel] \in Ended, channel \notin excused, ~asked
        PROVE  Settled(net', channel, trailing'[channel])
    <3>1. channel \in Jobs /\ trailing[channel] \subseteq trailing'[channel]
      BY <1>0, <2>1, <2>3
    <3>2. Settled(net, channel, trailing'[channel])
      BY <2>3, <3>1, SettledLater DEF SettledInv
    <3>3. ~Early(Output(j, st, n), channel, trailing'[channel])
      BY <1>0, <2>1, <2>3, <3>1 DEF Early, Output, Message
    <3> QED
      BY <1>0, <2>1, <2>3, <3>2, <3>3, SettledPublish
  <2> QED
    BY <1>1, <2>2, <2>3 DEF SettledInv
<1> QED
  BY <1>2, <1>3 DEF Pump

\* The page asks again for a channel it is not in, and a confirmation follows.
LEMMA SettledPage ==
  ASSUME HookInv, SettledInv, Page
  PROVE  SettledInv'
<1>0. /\ net \in Seq(Msg) /\ channel \in Jobs \cup {NoJob} /\ (asked => channel # NoJob)
  BY DEF HookInv, Typed, TypeOK
<1>1. UNCHANGED <<step, trailing>>
  BY PageLeavesWorker DEF workerVars
<1>2. CASE (\E j \in Jobs : PostStart(j)) \/ (\E p \in pulls : Pull(p))
  <2>1. UNCHANGED <<net, up, member, channel, asked>> /\ excused \subseteq excused'
    BY <1>2 DEF PostStart, Pull, ReadStatus, ReadStatusFails, OnPulled, connVars, auxVars
  <2> QED
    BY <1>1, <2>1 DEF SettledInv
<1>3. ASSUME NEW j \in Jobs \cup {NoJob}, Show(j) PROVE SettledInv'
  <2>1. UNCHANGED <<net, up, member>> /\ channel' = j /\ asked' = (j # NoJob)
    BY <1>3 DEF Show, connVars
  <2> QED
    BY <2>1 DEF SettledInv
<1>4. CASE Subscribe
  <2>1. /\ up' /\ member' = channel /\ channel' = channel /\ ~asked'
        /\ net' = Append(net, Confirmed(channel))
    BY <1>4 DEF Subscribe
  <2>2. Confirmed(channel) \in Msg
    BY <1>0, <1>4, MessageTyped DEF Subscribe
  <2>3. Settled(net', channel, trailing[channel])
    BY <1>0, <2>1, <2>2, SettledByLast
  <2> QED
    BY <1>1, <2>1, <2>3 DEF SettledInv
<1>5. CASE Deliver
  <2>1. net # << >> /\ net' = Tail(net)
    BY <1>5, QueueMoves DEF HookInv
  <2>2. UNCHANGED <<up, member, channel, asked, excused>>
    BY <1>5 DEF Deliver, DropForeign, OnSubscribed, OnStage, OnOutput, OnResult, connVars, pageVars, auxVars
  <2>3. Settled(net, channel, trailing[channel]) => Settled(net', channel, trailing[channel])
    BY <1>0, <2>1, SettledTail
  <2> QED
    BY <1>1, <2>1, <2>2, <2>3 DEF SettledInv
<1>6. CASE Lose
  <2>1. ~up' /\ net' = << >>
    BY <1>6 DEF Lose
  <2> QED
    BY <1>1, <2>1, SettledLater DEF SettledInv
<1>7. CASE Reconnect
  <2>1. channel' = channel /\ net' = net /\ up' /\ asked' = (channel # NoJob)
    BY <1>7 DEF Reconnect
  <2> QED
    BY <2>1 DEF SettledInv
<1> QED
  BY <1>2, <1>3, <1>4, <1>5, <1>6, <1>7 DEF Page

\* The invariant holds from the start.
LEMMA SettledInvariant == Spec => [](HookInv /\ SettledInv)
<1>1. Init => SettledInv
  BY DEF Init, SettledInv
<1>2. HookInv /\ SettledInv /\ [Next]_vars => SettledInv'
  <2> SUFFICES ASSUME HookInv, SettledInv, [Next]_vars PROVE SettledInv'
    OBVIOUS
  <2>1. CASE Next
    BY <2>1, SettledJob, SettledPump, SettledPage, NextIs
  <2>2. CASE UNCHANGED vars
    BY <2>2 DEF vars, workerVars, connVars, pageVars, auxVars, SettledInv
  <2> QED
    BY <2>1, <2>2
<1> QED
  BY <1>1, <1>2, Invariance, PTL DEF Spec

\* A page that shows "done" falls back only for an event that a pull has
\* overtaken, with the result or a new confirmation behind it unless the result
\* is lost, or for output that trailed the result.
THEOREM FallsBackOnlyWithReason == Spec => FallsBackForEventsOnly
<1> DEFINE Reason ==
      status = "done" /\ status' # "done" /\ channel' = channel =>
        /\ net # << >> /\ net' = Tail(net)
        /\ \/ Result(channel) \in ToSet(net') \/ channel \in excused
           \/ asked \/ Confirmed(channel) \in ToSet(net')
           \/ Head(net).kind = "output" /\ Head(net).what \in trailing[channel]
<1>1. HookInv /\ SettledInv /\ [Next]_vars => [Reason]_vars
  <2> SUFFICES ASSUME HookInv, SettledInv, Next, status = "done", status' # "done", channel' = channel
               PROVE  Reason
    OBVIOUS
  <2>1. OnStage \/ OnOutput
    <3>1. ASSUME NEW j \in Jobs, Job(j) PROVE FALSE
      BY <3>1, JobMoves DEF HookInv, pageVars
    <3>2. ASSUME NEW j \in Jobs, NEW st \in Streams, Pump(j, st) PROVE FALSE
      BY <3>2, PumpMoves DEF HookInv, pageVars
    <3>3. ASSUME NEW p \in pulls, Pull(p) PROVE FALSE
      <4>1. p.state \in Display \cup {"asked"}
        BY <3>3, PullsTyped DEF HookInv, Typed
      <4> QED
        BY <3>3, <4>1 DEF Pull, ReadStatus, ReadStatusFails, OnPulled, Rank, Display
    <3> QED
      BY <3>1, <3>2, <3>3, NextIs
         DEF Page, PostStart, Show, Subscribe, Deliver, DropForeign, OnSubscribed, OnResult, Lose, Reconnect, pageVars
  <2>2. /\ net # << >> /\ net' = Tail(net) /\ net \in Seq(Msg)
        /\ Head(net).job = channel /\ Head(net).kind \in {"stage", "output"}
    BY <2>1 DEF OnStage, OnOutput, Arrives, HookInv, Typed
  <2>3. channel # NoJob /\ step[channel] \in Ended
    BY DEF HookInv, TruthInv, ShowsItsJob
  <2>4. Early(Head(net), channel, trailing[channel])
          \/ (Head(net).kind = "output" /\ Head(net).what \in trailing[channel])
    BY <2>2 DEF Early
  <2>5. channel \in excused \/ asked \/ Settled(net, channel, trailing[channel])
    BY <2>3 DEF SettledInv
  <2> QED
    BY <2>2, <2>4, <2>5, SettledTail
<1> QED
  BY <1>1, SettledInvariant, PTL DEF Spec, FallsBackForEventsOnly

===========================================================================

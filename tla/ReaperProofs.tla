--------------------------- MODULE ReaperProofs ---------------------------
(***************************************************************************)
(* A sweep leaves the jobs of live workers alone, for every number of      *)
(* workers, reapers, hosts and jobs, whatever crashes or drains around it, *)
(* as long as Redis answers and no heartbeat is missed.                    *)
(***************************************************************************)
EXTENDS Reaper, TLAPS

\* The precondition: ContainerRemove may fail, Redis commands do not.
RedisAnswers ==
  Faults \cap {"workerRedis", "reaperRedis", "missedBeats"} = {}

AliveBeats == \A w \in Workers : Alive(w) => w \in heartbeats

\* From AddOwnedJob until the goroutine disowns the job.
OwnedFirst(j) == pc[j] \in {"owned"} \cup Using /\ Alive(owner[j]) => j \in owned[owner[j]]

\* A container is made once, so a listed one belongs to no job still to make it.
MadeOnce(j) ==
  j \in containers \/ (\E r \in Workers : j \in sweep[r].listed \cup {sweep[r].target}) => pc[j] \notin Unmade

NotEnded(j) ==
  pc[j] = "unclaimed" \/ (pc[j] \in {"claimed", "owned"} \cup Using /\ Alive(owner[j])) => status[j] \notin Final

\* What a sweep has read so far keeps it from judging j an orphan.
Shielded(s, j) ==
  \/ s.at = "scan"
  \/ s.at = "beats" /\ owner[j] \in s.ids \cup s.alive
  \/ s.at = "jobs" /\ (owner[j] \in s.alive \/ j \in s.protected)
  \/ s.at \in {"judge", "forget", "mark"} /\ j \in s.protected

\* Neither a listing nor the orphan at hand threatens a job in use.
SweepsShield(j) ==
  InUse(j) => \A r \in Workers : /\ j \in sweep[r].listed => Shielded(sweep[r], j)
                                 /\ sweep[r].at \in {"forget", "mark"} => j # sweep[r].target

JobShielded(j) ==
  /\ OwnedFirst(j) /\ MadeOnce(j) /\ NotEnded(j) /\ SweepsShield(j)
  /\ InUse(j) => j \in containers

ShieldInv == TypeOK /\ AliveBeats /\ \A j \in Jobs : JobShielded(j)

(***************************************************************************)
(* Types.                                                                  *)
(***************************************************************************)

LEMMA InitTyped == Init => TypeOK
BY ReapersAssumption DEF Init, TypeOK, Proc, State, Final, JobPc, Unmade, Using, Idle, Sweep, SweepAt

LEMMA JobTyped ==
  ASSUME TypeOK, NEW j \in Jobs, JobStep(j) \/ Ages(j)
  PROVE  TypeOK'
<1> USE DEF TypeOK, jobVars, State, Final, JobPc, Unmade, Using, Move, WorkerCall
<1>1. ASSUME NEW w \in Workers, Claim(j, w) PROVE TypeOK'
  BY <1>1 DEF Claim
<1>2. CASE AddOwnedJob(j)
  BY <1>2 DEF AddOwnedJob
<1>3. CASE CreateSandbox(j)
  BY <1>3 DEF CreateSandbox
<1>4. CASE CreateFails(j)
  BY <1>4 DEF CreateFails
<1>5. CASE BeginRun(j)
  BY <1>5 DEF BeginRun
<1>6. CASE ParkEnds(j)
  BY <1>6 DEF ParkEnds
<1>7. CASE SessionEnds(j)
  BY <1>7 DEF SessionEnds
<1>8. CASE RemoveOwnedJob(j)
  BY <1>8 DEF RemoveOwnedJob
<1>9. CASE WriteFinal(j)
  BY <1>9 DEF WriteFinal
<1>10. CASE Cleanup(j)
  BY <1>10 DEF Cleanup
<1>11. CASE Ages(j)
  BY <1>11 DEF Ages
<1> QED
  BY <1>1, <1>2, <1>3, <1>4, <1>5, <1>6, <1>7, <1>8, <1>9, <1>10, <1>11 DEF JobStep

LEMMA NowTyped ==
  ASSUME sweep \in [Workers -> Sweep], NEW r \in Workers, NEW s \in Sweep, Now(r, s)
  PROVE  sweep' \in [Workers -> Sweep] /\ \A q \in Workers : sweep'[q] = IF q = r THEN s ELSE sweep[q]
BY DEF Now

LEMMA GoOnTyped ==
  ASSUME NEW s \in Sweep, NEW rest \in SUBSET Jobs
  PROVE  GoOn(s, rest) \in Sweep /\ GoOn(s, rest).at \in {"idle", "judge"}
BY DEF GoOn, Idle, Sweep, SweepAt

LEMMA WorkerTyped ==
  ASSUME TypeOK, NEW w \in Workers,
         Crash(w) \/ Sigterm(w) \/ Drained(w) \/ HeartbeatExpires(w) \/ BeatsMissed(w) \/ Beat(w)
  PROVE  TypeOK'
<1> USE DEF TypeOK, jobVars
<1>1. CASE Crash(w) \/ Sigterm(w)
  <2>1. Idle \in Sweep /\ Idle.at = "idle"
    BY DEF Idle, Sweep, SweepAt
  <2>2. Now(w, Idle) /\ UNCHANGED <<heartbeats, owned, status, containers, old, jobVars>>
    BY <1>1 DEF Crash, Sigterm
  <2>3. proc' \in [Workers -> Proc]
    BY <1>1 DEF Crash, Sigterm, Proc
  <2> QED
    BY <2>1, <2>2, <2>3, NowTyped
<1>2. CASE Drained(w)
  BY <1>2 DEF Drained, Proc
<1>3. CASE HeartbeatExpires(w) \/ BeatsMissed(w) \/ Beat(w)
  BY <1>3 DEF HeartbeatExpires, BeatsMissed, Beat
<1> QED
  BY <1>1, <1>2, <1>3

LEMMA SweepTyped ==
  ASSUME TypeOK, NEW r \in Reapers, SweepStep(r)
  PROVE  TypeOK'
<1>r. r \in Workers /\ sweep[r] \in Sweep
  BY ReapersAssumption DEF TypeOK
<1>q. ASSUME NEW s \in Sweep, Now(r, s), s.at \in {"forget", "mark"} => s.target \in Jobs,
             UNCHANGED <<proc, heartbeats, old, jobVars>>,
             owned' \in [Workers -> SUBSET Jobs], status' \in [Jobs -> State], containers' \subseteq Jobs
      PROVE  TypeOK'
  BY <1>q, <1>r, NowTyped DEF TypeOK, jobVars
<1>u. /\ owned \in [Workers -> SUBSET Jobs] /\ status \in [Jobs -> State] /\ containers \subseteq Jobs
      /\ sweep[r].at \in {"forget", "mark"} => sweep[r].target \in Jobs
  BY <1>r DEF TypeOK
<1>1. CASE List(r)
  <2>1. [Idle EXCEPT !.at = "scan", !.listed = OnHost(r)] \in Sweep
    BY <1>r, <1>u DEF Sweep, SweepAt, Idle, OnHost
  <2> QED
    BY <1>1, <1>q, <1>r, <1>u, <2>1 DEF List, At, Sweep, Idle
<1>2. CASE Scan(r)
  <2>1. [sweep[r] EXCEPT !.at = "beats", !.ids = {w \in Workers : owned[w] # {}}] \in Sweep
    BY <1>r, <1>u DEF Sweep, SweepAt
  <2> QED
    BY <1>2, <1>q, <1>r, <1>u, <2>1 DEF Scan, At, Sweep
<1>3. CASE ScanFails(r)
  <2>1. Idle \in Sweep
    BY <1>r, <1>u DEF Sweep, SweepAt, Idle, OnHost
  <2> QED
    BY <1>3, <1>q, <1>r, <1>u, <2>1 DEF ScanFails, At, Sweep, Idle
<1>4. CASE BeatsChecked(r)
  <2>1. [sweep[r] EXCEPT !.at = "jobs"] \in Sweep
    BY <1>r, <1>u DEF Sweep, SweepAt
  <2> QED
    BY <1>4, <1>q, <1>r, <1>u, <2>1 DEF BeatsChecked, At, Sweep
<1>5. CASE OwnedRead(r)
  <2>1. [sweep[r] EXCEPT !.at = "judge"] \in Sweep
    BY <1>r, <1>u DEF Sweep, SweepAt
  <2> QED
    BY <1>5, <1>q, <1>r, <1>u, <2>1 DEF OwnedRead, At, Sweep
<1>6. CASE Forget(r)
  <2>1. [sweep[r] EXCEPT !.at = "mark"] \in Sweep
    BY <1>r, <1>u DEF Sweep, SweepAt
  <2>2. owned' \in [Workers -> SUBSET Jobs] /\ sweep[r].target \in Jobs
    BY <1>6, <1>u DEF Forget, At
  <2> QED
    BY <1>6, <1>q, <1>r, <1>u, <2>1, <2>2 DEF Forget, At, Sweep
<1>7. CASE MarkError(r)
  <2>1. GoOn(sweep[r], sweep[r].listed) \in Sweep /\ GoOn(sweep[r], sweep[r].listed).at \in {"idle", "judge"}
    BY <1>r, GoOnTyped DEF Sweep
  <2>2. status' \in [Jobs -> State]
    BY <1>7, <1>u DEF MarkError, At, State, Final
  <2> QED
    BY <1>7, <1>q, <1>u, <2>1, <2>2 DEF MarkError
<1>8. ASSUME NEW w \in Workers, CheckBeat(r, w) PROVE TypeOK'
  <2>1. PICK ok \in BOOLEAN : Now(r, [sweep[r] EXCEPT !.ids = @ \ {w},
                                       !.alive = IF ok /\ w \in heartbeats THEN @ \cup {w} ELSE @])
    BY <1>8 DEF CheckBeat, ReaperCall
  <2>2. [sweep[r] EXCEPT !.ids = @ \ {w}, !.alive = IF ok /\ w \in heartbeats THEN @ \cup {w} ELSE @] \in Sweep
    BY <1>r DEF Sweep
  <2> QED
    BY <1>8, <1>q, <1>r, <1>u, <2>1, <2>2 DEF CheckBeat, At, Sweep
<1>9. ASSUME NEW w \in Workers, ReadOwned(r, w) PROVE TypeOK'
  <2>1. PICK ok \in BOOLEAN : Now(r, [sweep[r] EXCEPT !.alive = @ \ {w},
                                       !.protected = IF ok THEN @ \cup owned[w] ELSE @])
    BY <1>9 DEF ReadOwned, ReaperCall
  <2>2. [sweep[r] EXCEPT !.alive = @ \ {w}, !.protected = IF ok THEN @ \cup owned[w] ELSE @] \in Sweep
    BY <1>r, <1>u DEF Sweep
  <2> QED
    BY <1>9, <1>q, <1>r, <1>u, <2>1, <2>2 DEF ReadOwned, At, Sweep
<1>10. ASSUME NEW j \in Jobs, SkipContainer(r, j) PROVE TypeOK'
  <2> DEFINE s == GoOn(sweep[r], sweep[r].listed \ {j})
  <2>1. s \in Sweep /\ s.at \in {"idle", "judge"}
    BY <1>r, GoOnTyped DEF Sweep
  <2> QED
    BY <1>10, <1>q, <1>u, <2>1 DEF SkipContainer
<1>11. ASSUME NEW j \in Jobs, ReapContainer(r, j) PROVE TypeOK'
  <2>1. [sweep[r] EXCEPT !.at = "forget", !.listed = @ \ {j}, !.target = j] \in Sweep
    BY <1>r DEF Sweep, SweepAt
  <2> QED
    BY <1>11, <1>q, <1>r, <1>u, <2>1 DEF ReapContainer, Sweep
<1> QED
  BY <1>1, <1>2, <1>3, <1>4, <1>5, <1>6, <1>7, <1>8, <1>9, <1>10, <1>11 DEF SweepStep

LEMMA TypeStep == TypeOK /\ [Next]_vars => TypeOK'
<1>1. TypeOK /\ UNCHANGED vars => TypeOK'
  BY DEF TypeOK, vars, jobVars
<1> QED
  BY <1>1, JobTyped, WorkerTyped, SweepTyped DEF Next

\* Every variable keeps its type, whatever fails.
THEOREM TypeCorrect == Spec => []TypeOK
BY InitTyped, TypeStep, PTL DEF Spec

(***************************************************************************)
(* No sweep touches a job in use.                                          *)
(***************************************************************************)

LEMMA Answered ==
  ASSUME RedisAnswers
  PROVE  WorkerCall = {TRUE} /\ ReaperCall = {TRUE} /\ "missedBeats" \notin Faults
BY DEF RedisAnswers, WorkerCall, ReaperCall

LEMMA InitShielded == Init => ShieldInv
<1> SUFFICES ASSUME Init PROVE ShieldInv
  OBVIOUS
<1>1. TypeOK
  BY InitTyped
<1>2. AliveBeats
  BY DEF Init, AliveBeats
<1>3. ASSUME NEW j \in Jobs PROVE JobShielded(j)
  BY ReapersAssumption DEF Init, JobShielded, OwnedFirst, MadeOnce, NotEnded, SweepsShield, InUse, Using, Final, Idle
<1> QED
  BY <1>1, <1>2, <1>3 DEF ShieldInv

\* A step that leaves a job's goroutine, keys and container alone, and every
\* process and sweep.
LEMMA OthersShielded ==
  ASSUME NEW j \in Jobs, TypeOK, JobShielded(j), UNCHANGED <<proc, sweep>>,
         pc'[j] = pc[j], owner'[j] = owner[j], status'[j] = status[j],
         j \in containers' <=> j \in containers, \A w \in Workers : j \in owned'[w] <=> j \in owned[w]
  PROVE  JobShielded(j)'
BY DEF TypeOK, Using, JobShielded, OwnedFirst, MadeOnce, NotEnded, SweepsShield, Shielded, InUse, Alive

LEMMA JobKeepsShield ==
  ASSUME RedisAnswers, ShieldInv, NEW j \in Jobs, JobStep(j) \/ Ages(j)
  PROVE  AliveBeats' /\ \A k \in Jobs : JobShielded(k)'
<1>a. WorkerCall = {TRUE} /\ ReaperCall = {TRUE} /\ "missedBeats" \notin Faults
  BY Answered
<1>t. TypeOK /\ JobShielded(j)
  BY DEF ShieldInv
<1>f. UNCHANGED <<proc, heartbeats, sweep>>
  BY DEF JobStep, Claim, AddOwnedJob, CreateSandbox, CreateFails, Ages, BeginRun, ParkEnds, SessionEnds,
         RemoveOwnedJob, WriteFinal, Cleanup
<1>1. AliveBeats'
  BY <1>f DEF ShieldInv, AliveBeats, Alive
<1>2. ASSUME NEW k \in Jobs, k # j PROVE JobShielded(k)'
  <2>1. /\ pc'[k] = pc[k] /\ owner'[k] = owner[k] /\ status'[k] = status[k]
        /\ k \in containers' <=> k \in containers
    BY <1>t, <1>2 DEF TypeOK, JobStep, Claim, AddOwnedJob, CreateSandbox, CreateFails, Ages, BeginRun, ParkEnds,
         SessionEnds, RemoveOwnedJob, WriteFinal, Cleanup, Move, jobVars
  <2>2. \A w \in Workers : k \in owned'[w] <=> k \in owned[w]
    BY <1>t, <1>2 DEF TypeOK, JobStep, Claim, AddOwnedJob, CreateSandbox, CreateFails, Ages, BeginRun, ParkEnds,
         SessionEnds, RemoveOwnedJob, WriteFinal, Cleanup, Move, jobVars
  <2> QED
    BY <1>f, <1>t, <2>1, <2>2, OthersShielded DEF ShieldInv
<1>3. JobShielded(j)'
  <2> USE <1>t, <1>f, <1>a
      DEF TypeOK, JobShielded, OwnedFirst, MadeOnce, NotEnded, SweepsShield, Shielded, InUse, Alive, Move, jobVars,
          Unmade, Using, Final, State
  <2>1. CASE AddOwnedJob(j)
    BY <2>1 DEF AddOwnedJob
  <2>2. CASE CreateSandbox(j)
    BY <2>2 DEF CreateSandbox
  <2>3. CASE CreateFails(j)
    BY <2>3 DEF CreateFails
  <2>4. CASE BeginRun(j)
    BY <2>4 DEF BeginRun
  <2>5. CASE ParkEnds(j)
    BY <2>5 DEF ParkEnds
  <2>6. CASE SessionEnds(j)
    BY <2>6 DEF SessionEnds
  <2>7. CASE RemoveOwnedJob(j)
    BY <2>7 DEF RemoveOwnedJob
  <2>8. CASE WriteFinal(j)
    BY <2>8 DEF WriteFinal
  <2>9. CASE Cleanup(j)
    BY <2>9 DEF Cleanup
  <2>10. CASE Ages(j)
    BY <2>10 DEF Ages
  <2>11. ASSUME NEW w \in Workers, Claim(j, w) PROVE JobShielded(j)'
    BY <2>11 DEF Claim
  <2> QED
    BY <2>1, <2>2, <2>3, <2>4, <2>5, <2>6, <2>7, <2>8, <2>9, <2>10, <2>11 DEF JobStep
<1> QED
  BY <1>1, <1>2, <1>3

LEMMA WorkerKeepsShield ==
  ASSUME RedisAnswers, ShieldInv, NEW w \in Workers,
         Crash(w) \/ Sigterm(w) \/ Drained(w) \/ HeartbeatExpires(w) \/ BeatsMissed(w) \/ Beat(w)
  PROVE  AliveBeats' /\ \A k \in Jobs : JobShielded(k)'
<1>a. WorkerCall = {TRUE} /\ ReaperCall = {TRUE} /\ "missedBeats" \notin Faults
  BY Answered
<1>t. TypeOK /\ AliveBeats /\ \A k \in Jobs : JobShielded(k)
  BY DEF ShieldInv
<1>1. CASE HeartbeatExpires(w) \/ BeatsMissed(w) \/ Beat(w)
  <2>1. AliveBeats'
    BY <1>1, <1>t, <1>a DEF AliveBeats, HeartbeatExpires, BeatsMissed, Beat, Beating, Alive
  <2>2. UNCHANGED <<proc, owned, status, containers, jobVars, sweep>>
    BY <1>1 DEF HeartbeatExpires, BeatsMissed, Beat
  <2> QED
    BY <1>t, <2>1, <2>2, OthersShielded DEF jobVars
<1>2. CASE Crash(w) \/ Sigterm(w) \/ Drained(w)
  <2>1. UNCHANGED <<heartbeats, owned, status, containers, jobVars>>
    BY <1>2 DEF Crash, Sigterm, Drained
  <2>2. \A v \in Workers : Alive(v)' => Alive(v)
    BY <1>2, <1>t DEF TypeOK, Crash, Sigterm, Drained, Alive
  <2>3. \A v \in Workers : sweep'[v] = sweep[v] \/ sweep'[v] = Idle
    BY <1>2, <1>t DEF TypeOK, Crash, Sigterm, Drained, Now
  <2>4. AliveBeats'
    BY <1>t, <2>1, <2>2 DEF AliveBeats
  <2>5. ASSUME NEW k \in Jobs PROVE JobShielded(k)'
    <3>1. pc[k] # "unclaimed" => (Alive(owner[k])' => Alive(owner[k]))
      BY <1>t, <2>2, <2>1 DEF TypeOK, jobVars
    <3>2. Idle.listed = {} /\ Idle.at = "idle" /\ Idle.target \notin Jobs
      BY ReapersAssumption DEF Idle
    <3> QED
      BY <1>t, <2>1, <2>3, <3>1, <3>2
      DEF JobShielded, OwnedFirst, MadeOnce, NotEnded, SweepsShield, Shielded, InUse, Using, jobVars
  <2> QED
    BY <2>4, <2>5
<1> QED
  BY <1>1, <1>2

\* A step of one sweep to s keeps every job shielded if it takes nothing from
\* a job in use, s shields those it has listed and has none in use at hand.
LEMMA SweepingShields ==
  ASSUME ShieldInv, NEW r \in Workers, NEW s \in Sweep, Now(r, s),
         UNCHANGED <<proc, jobVars>>, containers' \subseteq containers,
         \A j \in Jobs : OwnedFirst(j)' /\ NotEnded(j)' /\ (InUse(j) => j \in containers'),
         \A j \in Jobs : j \in s.listed \cup {s.target} => pc[j] \notin Unmade,
         \A j \in s.listed : InUse(j) => Shielded(s, j),
         s.at \in {"forget", "mark"} => ~InUse(s.target)
  PROVE  \A k \in Jobs : JobShielded(k)'
<1>t. TypeOK /\ \A k \in Jobs : JobShielded(k)
  BY DEF ShieldInv
<1>1. \A q \in Workers : sweep'[q] = IF q = r THEN s ELSE sweep[q]
  BY <1>t, NowTyped DEF TypeOK
<1> SUFFICES ASSUME NEW k \in Jobs PROVE JobShielded(k)'
  OBVIOUS
<1>2. InUse(k)' => k \in containers'
  BY DEF InUse, Alive, jobVars
<1>3. MadeOnce(k)'
  BY <1>t, <1>1 DEF JobShielded, MadeOnce, jobVars
<1>4. SweepsShield(k)'
  BY <1>t, <1>1 DEF JobShielded, SweepsShield, Shielded, InUse, Alive, jobVars
<1> QED
  BY <1>2, <1>3, <1>4 DEF JobShielded

LEMMA SweepKeepsShield ==
  ASSUME RedisAnswers, ShieldInv, NEW r \in Reapers, SweepStep(r)
  PROVE  AliveBeats' /\ \A k \in Jobs : JobShielded(k)'
<1>a. WorkerCall = {TRUE} /\ ReaperCall = {TRUE} /\ "missedBeats" \notin Faults
  BY Answered
<1>t. TypeOK /\ AliveBeats /\ \A k \in Jobs : JobShielded(k)
  BY DEF ShieldInv
<1>r. r \in Workers /\ sweep[r] \in Sweep
  BY <1>t, ReapersAssumption DEF TypeOK
<1>f. UNCHANGED <<proc, heartbeats, jobVars>>
  BY DEF SweepStep, List, Scan, ScanFails, BeatsChecked, OwnedRead, Forget, MarkError, CheckBeat, ReadOwned,
         SkipContainer, ReapContainer
<1>b. AliveBeats'
  BY <1>t, <1>f DEF AliveBeats, Alive
<1>u. ASSUME UNCHANGED <<owned, status, containers>>
      PROVE  /\ containers' \subseteq containers
             /\ \A j \in Jobs : OwnedFirst(j)' /\ NotEnded(j)' /\ (InUse(j) => j \in containers')
  BY <1>t, <1>f, <1>u DEF JobShielded, OwnedFirst, NotEnded, InUse, Alive, jobVars
<1>h. /\ \A j \in Jobs : j \in sweep[r].listed \cup {sweep[r].target} => pc[j] \notin Unmade
      /\ \A j \in sweep[r].listed : j \in Jobs /\ (InUse(j) => Shielded(sweep[r], j))
      /\ sweep[r].at \in {"forget", "mark"} => sweep[r].target \in Jobs /\ ~InUse(sweep[r].target)
  BY <1>t, <1>r DEF TypeOK, JobShielded, MadeOnce, SweepsShield, Sweep
<1>i. /\ Idle \in Sweep /\ Idle.listed = {} /\ Idle.at = "idle" /\ Idle.target = NoJob /\ NoJob \notin Jobs
      /\ \A rest \in SUBSET Jobs :
           LET s == GoOn(sweep[r], rest)
           IN  /\ s \in Sweep /\ s.at \in {"idle", "judge"} /\ s.listed \subseteq rest /\ s.target = NoJob
               /\ s.listed # {} => s.at = "judge" /\ s.protected = sweep[r].protected
  BY <1>r, ReapersAssumption DEF Idle, GoOn, Sweep, SweepAt
<1>1. CASE List(r)
  <2> DEFINE s == [Idle EXCEPT !.at = "scan", !.listed = OnHost(r)]
  <2>1. s \in Sweep /\ s.at = "scan" /\ s.listed \subseteq containers /\ s.target = NoJob
    BY <1>t DEF TypeOK, Idle, Sweep, SweepAt, OnHost
  <2>2. \A j \in containers : j \in Jobs /\ pc[j] \notin Unmade
    BY <1>t DEF TypeOK, JobShielded, MadeOnce
  <2>3. \A j \in s.listed : Shielded(s, j)
    BY <2>1 DEF Shielded
  <2>4. Now(r, s) /\ UNCHANGED <<owned, status, containers>>
    BY <1>1 DEF List
  <2> HIDE DEF s
  <2> QED
    BY <1>b, <1>f, <1>i, <1>r, <1>u, <2>1, <2>2, <2>3, <2>4, SweepingShields
<1>2. CASE Scan(r)
  <2> DEFINE s == [sweep[r] EXCEPT !.at = "beats", !.ids = {w \in Workers : owned[w] # {}}]
  <2>1. /\ s \in Sweep /\ s.at = "beats" /\ s.ids = {w \in Workers : owned[w] # {}}
        /\ s.listed = sweep[r].listed /\ s.target = sweep[r].target
    BY <1>r DEF Sweep, SweepAt
  <2>2. \A j \in s.listed : InUse(j) => Shielded(s, j)
    BY <1>t, <1>h, <2>1 DEF TypeOK, JobShielded, OwnedFirst, InUse, Using, Shielded
  <2>3. Now(r, s) /\ UNCHANGED <<owned, status, containers>>
    BY <1>2 DEF Scan
  <2> HIDE DEF s
  <2> QED
    BY <1>b, <1>f, <1>h, <1>r, <1>u, <2>1, <2>2, <2>3, SweepingShields
<1>3. CASE ScanFails(r)
  BY <1>3, <1>a DEF ScanFails
<1>4. ASSUME NEW w \in Workers, CheckBeat(r, w)
      PROVE  AliveBeats' /\ \A k \in Jobs : JobShielded(k)'
  <2> DEFINE s == [sweep[r] EXCEPT !.ids = @ \ {w}, !.alive = IF w \in heartbeats THEN @ \cup {w} ELSE @]
  <2>1. Now(r, s) /\ sweep[r].at = "beats" /\ UNCHANGED <<owned, status, containers>>
    BY <1>4, <1>a DEF CheckBeat, At
  <2>2. /\ s \in Sweep /\ s.at = "beats" /\ s.ids = sweep[r].ids \ {w}
        /\ s.alive = IF w \in heartbeats THEN sweep[r].alive \cup {w} ELSE sweep[r].alive
        /\ s.listed = sweep[r].listed /\ s.target = sweep[r].target
    BY <1>r, <2>1 DEF Sweep
  <2>3. \A j \in s.listed : InUse(j) => Shielded(s, j)
    BY <1>t, <1>h, <2>1, <2>2 DEF AliveBeats, InUse, Shielded
  <2> HIDE DEF s
  <2> QED
    BY <1>b, <1>f, <1>h, <1>r, <1>u, <2>1, <2>2, <2>3, SweepingShields
<1>5. CASE BeatsChecked(r)
  <2> DEFINE s == [sweep[r] EXCEPT !.at = "jobs"]
  <2>1. Now(r, s) /\ sweep[r].at = "beats" /\ sweep[r].ids = {} /\ UNCHANGED <<owned, status, containers>>
    BY <1>5 DEF BeatsChecked, At
  <2>2. /\ s \in Sweep /\ s.at = "jobs" /\ s.alive = sweep[r].alive
        /\ s.listed = sweep[r].listed /\ s.target = sweep[r].target
    BY <1>r DEF Sweep, SweepAt
  <2>3. \A j \in s.listed : InUse(j) => Shielded(s, j)
    BY <1>h, <2>1, <2>2 DEF Shielded
  <2> HIDE DEF s
  <2> QED
    BY <1>b, <1>f, <1>h, <1>r, <1>u, <2>1, <2>2, <2>3, SweepingShields
<1>6. ASSUME NEW w \in Workers, ReadOwned(r, w)
      PROVE  AliveBeats' /\ \A k \in Jobs : JobShielded(k)'
  <2> DEFINE s == [sweep[r] EXCEPT !.alive = @ \ {w}, !.protected = @ \cup owned[w]]
  <2>1. Now(r, s) /\ sweep[r].at = "jobs" /\ UNCHANGED <<owned, status, containers>>
    BY <1>6, <1>a DEF ReadOwned, At
  <2>2. /\ s \in Sweep /\ s.at = "jobs" /\ s.alive = sweep[r].alive \ {w}
        /\ s.protected = sweep[r].protected \cup owned[w]
        /\ s.listed = sweep[r].listed /\ s.target = sweep[r].target
    BY <1>r, <1>t, <2>1 DEF TypeOK, Sweep
  <2>3. \A j \in s.listed : InUse(j) => Shielded(s, j)
    BY <1>t, <1>h, <2>1, <2>2 DEF JobShielded, OwnedFirst, InUse, Shielded
  <2> HIDE DEF s
  <2> QED
    BY <1>b, <1>f, <1>h, <1>r, <1>u, <2>1, <2>2, <2>3, SweepingShields
<1>7. CASE OwnedRead(r)
  <2> DEFINE s == [sweep[r] EXCEPT !.at = "judge"]
  <2>1. Now(r, s) /\ sweep[r].at = "jobs" /\ sweep[r].alive = {} /\ UNCHANGED <<owned, status, containers>>
    BY <1>7 DEF OwnedRead, At
  <2>2. /\ s \in Sweep /\ s.at = "judge" /\ s.protected = sweep[r].protected
        /\ s.listed = sweep[r].listed /\ s.target = sweep[r].target
    BY <1>r DEF Sweep, SweepAt
  <2>3. \A j \in s.listed : InUse(j) => Shielded(s, j)
    BY <1>h, <2>1, <2>2 DEF Shielded
  <2> HIDE DEF s
  <2> QED
    BY <1>b, <1>f, <1>h, <1>r, <1>u, <2>1, <2>2, <2>3, SweepingShields
<1>8. ASSUME NEW o \in Jobs, SkipContainer(r, o)
      PROVE  AliveBeats' /\ \A k \in Jobs : JobShielded(k)'
  <2> DEFINE s == GoOn(sweep[r], sweep[r].listed \ {o})
  <2>1. Now(r, s) /\ sweep[r].at = "judge" /\ UNCHANGED <<owned, status, containers>>
    BY <1>8 DEF SkipContainer, At
  <2>2. /\ s \in Sweep /\ s.at \in {"idle", "judge"} /\ s.listed \subseteq sweep[r].listed
        /\ s.target = NoJob
        /\ s.listed # {} => s.at = "judge" /\ s.protected = sweep[r].protected
    BY <1>h, <1>i
  <2>3. \A j \in s.listed : InUse(j) => Shielded(s, j)
    BY <1>h, <2>1, <2>2 DEF Shielded
  <2> HIDE DEF s
  <2> QED
    BY <1>b, <1>f, <1>h, <1>i, <1>r, <1>u, <2>1, <2>2, <2>3, SweepingShields
<1>9. ASSUME NEW o \in Jobs, ReapContainer(r, o)
      PROVE  AliveBeats' /\ \A k \in Jobs : JobShielded(k)'
  <2> DEFINE s == [sweep[r] EXCEPT !.at = "forget", !.listed = @ \ {o}, !.target = o]
  <2>1. /\ Now(r, s) /\ sweep[r].at = "judge" /\ o \in sweep[r].listed /\ o \notin sweep[r].protected
        /\ containers' = containers \ {o} /\ UNCHANGED <<owned, status>>
    BY <1>9 DEF ReapContainer, At
  <2>2. /\ s \in Sweep /\ s.at = "forget" /\ s.listed = sweep[r].listed \ {o} /\ s.target = o
        /\ s.protected = sweep[r].protected
    BY <1>r DEF Sweep, SweepAt
  <2>3. ~InUse(o) /\ pc[o] \notin Unmade
    BY <1>h, <2>1 DEF Shielded
  <2>4. \A j \in s.listed : InUse(j) => Shielded(s, j)
    BY <1>h, <2>1, <2>2 DEF Shielded
  <2>5. /\ containers' \subseteq containers
        /\ \A j \in Jobs : OwnedFirst(j)' /\ NotEnded(j)' /\ (InUse(j) => j \in containers')
    BY <1>t, <1>f, <2>1, <2>3 DEF JobShielded, OwnedFirst, NotEnded, InUse, Alive, jobVars
  <2> HIDE DEF s
  <2> QED
    BY <1>b, <1>f, <1>h, <1>r, <2>1, <2>2, <2>3, <2>4, <2>5, SweepingShields
<1>10. CASE Forget(r)
  <2> DEFINE s == [sweep[r] EXCEPT !.at = "mark"]  o == sweep[r].target
  <2>1. /\ Now(r, s) /\ sweep[r].at = "forget" /\ UNCHANGED <<status, containers>>
        /\ owned' = [w \in Workers |-> owned[w] \ {o}]
    BY <1>10, <1>t, <1>a DEF Forget, At, TypeOK
  <2>2. /\ s \in Sweep /\ s.at = "mark" /\ s.listed = sweep[r].listed /\ s.target = o
        /\ s.protected = sweep[r].protected
    BY <1>r DEF Sweep, SweepAt
  <2>3. o \in Jobs /\ ~InUse(o) /\ pc[o] \notin Unmade
    BY <1>h, <2>1
  <2>4. \A j \in s.listed : InUse(j) => Shielded(s, j)
    BY <1>h, <2>1, <2>2 DEF Shielded
  <2>5. \A j \in Jobs : OwnedFirst(j)' /\ NotEnded(j)' /\ (InUse(j) => j \in containers')
    <3> SUFFICES ASSUME NEW j \in Jobs PROVE OwnedFirst(j)' /\ NotEnded(j)' /\ (InUse(j) => j \in containers')
      OBVIOUS
    <3>1. NotEnded(j)' /\ (InUse(j) => j \in containers')
      BY <1>t, <1>f, <2>1 DEF JobShielded, NotEnded, InUse, Alive, jobVars
    <3>2. OwnedFirst(j)'
      BY <1>t, <1>f, <2>1, <2>3 DEF TypeOK, JobShielded, OwnedFirst, InUse, Using, Unmade, Alive, jobVars
    <3> QED
      BY <3>1, <3>2
  <2> HIDE DEF s
  <2> QED
    BY <1>b, <1>f, <1>h, <1>r, <2>1, <2>2, <2>3, <2>4, <2>5, SweepingShields
<1>11. CASE MarkError(r)
  <2> DEFINE s == GoOn(sweep[r], sweep[r].listed)  o == sweep[r].target
  <2>1. /\ Now(r, s) /\ sweep[r].at = "mark" /\ UNCHANGED <<owned, containers>>
        /\ status' = [status EXCEPT ![o] = "error"]
    BY <1>11, <1>a DEF MarkError, At
  <2>2. /\ s \in Sweep /\ s.at \in {"idle", "judge"} /\ s.listed \subseteq sweep[r].listed
        /\ s.target = NoJob
        /\ s.listed # {} => s.at = "judge" /\ s.protected = sweep[r].protected
    BY <1>h, <1>i
  <2>3. o \in Jobs /\ ~InUse(o) /\ pc[o] \notin Unmade
    BY <1>h, <2>1
  <2>4. \A j \in s.listed : InUse(j) => Shielded(s, j)
    BY <1>h, <2>1, <2>2 DEF Shielded
  <2>5. \A j \in Jobs : OwnedFirst(j)' /\ NotEnded(j)' /\ (InUse(j) => j \in containers')
    <3> SUFFICES ASSUME NEW j \in Jobs PROVE OwnedFirst(j)' /\ NotEnded(j)' /\ (InUse(j) => j \in containers')
      OBVIOUS
    <3>1. OwnedFirst(j)' /\ (InUse(j) => j \in containers')
      BY <1>t, <1>f, <2>1 DEF JobShielded, OwnedFirst, InUse, Alive, jobVars
    <3>2. NotEnded(j)'
      BY <1>t, <1>f, <2>1, <2>3 DEF TypeOK, JobShielded, NotEnded, InUse, Using, Unmade, Alive, jobVars
    <3> QED
      BY <3>1, <3>2
  <2> HIDE DEF s
  <2> QED
    BY <1>b, <1>f, <1>h, <1>i, <1>r, <2>1, <2>2, <2>3, <2>4, <2>5, SweepingShields
<1> QED
  BY <1>1, <1>2, <1>3, <1>4, <1>5, <1>6, <1>7, <1>8, <1>9, <1>10, <1>11 DEF SweepStep

LEMMA ShieldStep ==
  ASSUME RedisAnswers
  PROVE  ShieldInv /\ [Next]_vars => ShieldInv'
<1> SUFFICES ASSUME ShieldInv, [Next]_vars PROVE ShieldInv'
  OBVIOUS
<1>1. TypeOK'
  BY TypeStep DEF ShieldInv
<1>2. CASE UNCHANGED vars
  BY <1>1, <1>2 DEF ShieldInv, AliveBeats, JobShielded, OwnedFirst, MadeOnce, NotEnded, SweepsShield, Shielded,
       InUse, Alive, vars, jobVars
<1>3. CASE Next
  BY <1>1, <1>3, JobKeepsShield, WorkerKeepsShield, SweepKeepsShield DEF Next, ShieldInv
<1> QED
  BY <1>2, <1>3

\* While Redis answers and no heartbeat is missed, no sweep, in any number of
\* workers and at any moment, takes the container, the membership or the
\* status of a job that a live worker is using.
THEOREM InUseJobsUntouched ==
  ASSUME RedisAnswers
  PROVE  Spec => []InUseUntouched
<1>1. ShieldInv => InUseUntouched
  BY DEF ShieldInv, JobShielded, OwnedFirst, NotEnded, InUse, InUseUntouched
<1>2. ShieldInv /\ [Next]_vars => ShieldInv'
  BY ShieldStep
<1> QED
  BY <1>1, <1>2, InitShielded, PTL DEF Spec

===========================================================================

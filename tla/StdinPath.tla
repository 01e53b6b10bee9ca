----------------------------- MODULE StdinPath -----------------------------
(***************************************************************************)
(* The way of a job's input: POST /stdin with its two guards               *)
(* (apps/api/src/ratelimit.ts, routes/control.ts), the two subscriptions   *)
(* of the worker and their bounded channels (worker.go:566-597), the stdin *)
(* pump (internal/worker/stdin_pump.go) and the program's pipe.            *)
(***************************************************************************)
EXTENDS Naturals, SequencesExt

CONSTANTS
  Chunks,      \* the chunks clients send, told apart
  Size,        \* bytes of each
  InFlight,    \* bound: /stdin requests handled at the same time
  FrameLimit,  \* STDIN_RATE_LIMIT_FRAMES
  ByteCap,     \* STDIN_PENDING_BYTE_CAP
  ChanCap,     \* capacity of stdinCh (256 in the code)
  PipeCap,     \* chunks the pipe holds before a write blocks
  Faults       \* the adverse events a behaviour may contain

\* "redis": a command of the API fails, or its answer is lost after Redis has
\* done it; "pipe": the connection to the program's stdin breaks while it runs.
FaultKinds == {"redis", "pipe"}

ASSUME ChunksAssumption == IsFiniteSet(Chunks) /\ Size \in [Chunks -> Nat]
ASSUME FaultsAssumption == Faults \subseteq FaultKinds
ASSUME BoundsAssumption == {InFlight, FrameLimit, ByteCap, ChanCap, PipeCap} \subseteq Nat

VARIABLES
  \* API replicas and Redis
  req,        \* where each chunk's request stands
  frames,     \* job:<id>:stdin_rate:<window> of the current window
  pending,    \* job:<id>:stdin_pending
  forgiven,   \* auxiliary: chunks that never were in the counter, or no longer are
  unchecked,  \* auxiliary: chunks let through without a total
  published,  \* auxiliary: chunks in the order of their PUBLISH
  closeReq, killReq,  \* POST /stdin/close and POST /kill: were they made
  \* worker
  sub,        \* the channels Redis has the worker subscribed to
  stdinWire, ctrlWire,  \* messages between Redis and the delivery goroutines
  stdinCh, ctrlCh,
  pump,       \* where the park loop, then stdinPump.run, stands
  writing,    \* the chunk in write
  eof,        \* stdinPump.eof: EOF delivered
  killed,     \* sb.Kill was called
  lost,       \* auxiliary: chunks that had no subscriber or no room, or whose write failed
  \* program
  input,      \* what was written to its stdin
  read,       \* how much of it the program has read
  over        \* it has ended, and with it the session

apiVars    == <<req, frames, pending, forgiven, unchecked>>
clientVars == <<closeReq, killReq>>
netVars    == <<published, sub, stdinWire, ctrlWire, lost>>
chanVars   == <<stdinCh, ctrlCh>>
pumpVars   == <<pump, writing, eof, killed>>
progVars   == <<input, read, over>>
vars == <<apiVars, clientVars, netVars, chanVars, pumpVars, progVars>>

\* "charged": answered 500 after an undo that failed; "failed": 500 after the PUBLISH.
TheStages   == {"none", "rate", "cap", "undo", "publish", "accepted", "refused", "charged", "failed"}
PumpStages  == {"parked", "select", "write", "drain", "drainWrite", "stopped", "broken"}
Bytes(S)    == Cardinality(UNION {{c} \X (1 .. Size[c]) : c \in S})
Handled     == {c \in Chunks : req[c] \in {"rate", "cap", "undo", "publish"}}
\* The chunks whose bytes are in the pending counter.
Charged     == {c \in Chunks \ forgiven : req[c] \in {"undo", "publish", "accepted", "charged", "failed"}}
\* Those of them that were measured against the cap and let through.
Admitted    == {c \in Charged \ unchecked : req[c] \in {"publish", "accepted", "failed"}}

Init ==
  /\ req = [c \in Chunks |-> "none"]
  /\ frames = 0 /\ pending = 0 /\ forgiven = {} /\ unchecked = {}
  /\ closeReq = FALSE /\ killReq = FALSE
  /\ published = << >> /\ sub = {} /\ stdinWire = << >> /\ ctrlWire = << >> /\ lost = {}
  /\ stdinCh = << >> /\ ctrlCh = << >>
  /\ pump = "parked" /\ writing = {} /\ eof = FALSE /\ killed = FALSE
  /\ input = << >> /\ read = 0 /\ over = FALSE

---------------------------------------------------------------------------
(* POST /stdin: stdinRateLimit, stdinByteCapCheck, the handler *)

\* A client sends a chunk, or one that was refused again.  (What is sent again
\* after a 500 is another chunk: the first may have gone out.)
Post(c) ==
  /\ req[c] \in {"none", "refused"}
  /\ Cardinality(Handled) < InFlight
  /\ req' = [req EXCEPT ![c] = "rate"]
  /\ UNCHANGED <<frames, pending, forgiven, unchecked, clientVars, netVars, chanVars, pumpVars, progVars>>

\* (Counting stops one above the limit: beyond it all counts refuse.)
Counted == frames' = IF frames > FrameLimit THEN frames ELSE frames + 1

\* A count that is not answered is over no limit.
RateCheck(c) ==
  /\ req[c] = "rate"
  /\ \/ Counted /\ req' = [req EXCEPT ![c] = IF frames' > FrameLimit THEN "refused" ELSE "cap"]
     \/ /\ "redis" \in Faults
        /\ Counted \/ UNCHANGED frames
        /\ req' = [req EXCEPT ![c] = "cap"]
  /\ UNCHANGED <<pending, forgiven, unchecked, clientVars, netVars, chanVars, pumpVars, progVars>>

\* INCRBY answers the total it has made; what is over the cap is taken back
\* by a command of its own.
CapCheck(c) ==
  /\ req[c] = "cap"
  /\ pending' = pending + Size[c]
  /\ forgiven' = forgiven \ {c}
  /\ req' = [req EXCEPT ![c] = IF pending' > ByteCap THEN "undo" ELSE "publish"]
  /\ UNCHANGED <<frames, unchecked, clientVars, netVars, chanVars, pumpVars, progVars>>

\* Without an answer there is no total, and what is not over the cap passes.
CapUnanswered(c) ==
  /\ "redis" \in Faults
  /\ req[c] = "cap"
  /\ req' = [req EXCEPT ![c] = "publish"]
  /\ unchecked' = unchecked \cup {c}
  /\ \/ pending' = pending + Size[c] /\ forgiven' = forgiven \ {c}
     \/ UNCHANGED pending /\ forgiven' = forgiven \cup {c}
  /\ UNCHANGED <<frames, clientVars, netVars, chanVars, pumpVars, progVars>>

\* Seeded fault: a refused chunk stays in the counter.
UndoForgotten(c) ==
  /\ req[c] = "undo"
  /\ req' = [req EXCEPT ![c] = "refused"]
  /\ UNCHANGED <<frames, pending, forgiven, unchecked, clientVars, netVars, chanVars, pumpVars, progVars>>

Undo(c) ==
  /\ req[c] = "undo"
  /\ pending' = pending - Size[c]
  /\ req' = [req EXCEPT ![c] = "refused"]
  /\ UNCHANGED <<frames, forgiven, unchecked, clientVars, netVars, chanVars, pumpVars, progVars>>

\* A DECRBY that fails ends the request with a 500, and nobody tries it again.
UndoFails(c) ==
  /\ "redis" \in Faults
  /\ req[c] = "undo"
  /\ req' = [req EXCEPT ![c] = "charged"]
  /\ \/ UNCHANGED <<pending, forgiven>>
     \/ pending' = pending - Size[c] /\ forgiven' = forgiven \cup {c}
  /\ UNCHANGED <<frames, unchecked, clientVars, netVars, chanVars, pumpVars, progVars>>

Published(c) ==
  /\ published' = Append(published, c)
  /\ IF "stdin" \in sub THEN stdinWire' = Append(stdinWire, c) /\ UNCHANGED lost
                        ELSE lost' = lost \cup {c} /\ UNCHANGED stdinWire

Publish(c) ==
  /\ req[c] = "publish"
  /\ req' = [req EXCEPT ![c] = "accepted"]
  /\ Published(c)
  /\ UNCHANGED <<frames, pending, forgiven, unchecked, clientVars, sub, ctrlWire, chanVars, pumpVars, progVars>>

\* The charge stays, whether or not the message went out.
PublishFails(c) ==
  /\ "redis" \in Faults
  /\ req[c] = "publish"
  /\ req' = [req EXCEPT ![c] = "failed"]
  /\ Published(c) \/ UNCHANGED <<published, stdinWire, lost>>
  /\ UNCHANGED <<frames, pending, forgiven, unchecked, clientVars, sub, ctrlWire, chanVars, pumpVars, progVars>>

NextWindow ==
  /\ frames > 0 /\ frames' = 0
  /\ UNCHANGED <<req, pending, forgiven, unchecked, clientVars, netVars, chanVars, pumpVars, progVars>>

\* 300 s after the last INCRBY, so between no INCRBY and its DECRBY.
PendingExpires ==
  /\ pending > 0 /\ \A c \in Charged : req[c] \notin {"undo", "publish"}
  /\ pending' = 0
  /\ forgiven' = forgiven \cup Charged
  /\ UNCHANGED <<req, frames, unchecked, clientVars, netVars, chanVars, pumpVars, progVars>>

PublishControl(m) ==
  /\ \/ ctrlWire' = IF "ctrl" \in sub THEN Append(ctrlWire, m) ELSE ctrlWire
     \/ "redis" \in Faults /\ UNCHANGED ctrlWire
  /\ UNCHANGED <<apiVars, published, sub, stdinWire, lost, chanVars, pumpVars, progVars>>

PostClose == ~closeReq /\ closeReq' = TRUE /\ PublishControl("stdin_close") /\ UNCHANGED killReq
PostKill  == ~killReq  /\ killReq' = TRUE  /\ PublishControl("kill")        /\ UNCHANGED closeReq

---------------------------------------------------------------------------
(* subscriptions and channels *)

\* Subscribe has returned before; this is the moment Redis processes it.
Subscribed(ch) ==
  /\ ch \notin sub /\ ~over
  /\ sub' = sub \cup {ch}
  /\ UNCHANGED <<apiVars, clientVars, published, stdinWire, ctrlWire, lost, chanVars, pumpVars, progVars>>

\* Seeded fault: a goroutine for every message.
DeliverChunkUnordered ==
  /\ Len(stdinCh) < ChanCap
  /\ \E i \in DOMAIN stdinWire :
       /\ stdinWire' = RemoveAt(stdinWire, i)
       /\ stdinCh' = Append(stdinCh, stdinWire[i])
  /\ UNCHANGED <<apiVars, clientVars, published, sub, ctrlWire, lost, ctrlCh, pumpVars, progVars>>

\* The delivery goroutine never blocks: what does not fit is dropped.
DeliverChunk ==
  /\ stdinWire # << >>
  /\ stdinWire' = Tail(stdinWire)
  /\ IF Len(stdinCh) < ChanCap THEN stdinCh' = Append(stdinCh, Head(stdinWire)) /\ UNCHANGED lost
                               ELSE lost' = lost \cup {Head(stdinWire)} /\ UNCHANGED stdinCh
  /\ UNCHANGED <<apiVars, clientVars, published, sub, ctrlWire, ctrlCh, pumpVars, progVars>>

\* Two messages always fit into ctrlCh.
DeliverControl ==
  /\ ctrlWire # << >>
  /\ ctrlWire' = Tail(ctrlWire)
  /\ ctrlCh' = Append(ctrlCh, Head(ctrlWire))
  /\ UNCHANGED <<apiVars, clientVars, published, sub, stdinWire, lost, stdinCh, pumpVars, progVars>>

---------------------------------------------------------------------------
(* the park loop *)

ParkedControl ==
  /\ pump = "parked" /\ ctrlCh # << >> /\ ~over
  /\ ctrlCh' = Tail(ctrlCh)
  /\ over' = (Head(ctrlCh) = "kill")    \* a stdin_close before start is ignored
  /\ UNCHANGED <<apiVars, clientVars, netVars, stdinCh, pumpVars, input, read>>

\* /start, then the compile, which leaves both channels as they are.
Started ==
  /\ pump = "parked" /\ ~over
  /\ pump' = "select"
  /\ UNCHANGED <<apiVars, clientVars, netVars, chanVars, writing, eof, killed, progVars>>

---------------------------------------------------------------------------
(* stdinPump *)

\* Seeded fault: a chunk after EOF is written to the closed pipe, the write
\* fails, and the pump returns.
TakeChunkAfterEof(to) ==
  /\ stdinCh # << >>
  /\ stdinCh' = Tail(stdinCh)
  /\ IF eof THEN pump' = "stopped" /\ UNCHANGED writing ELSE pump' = to /\ writing' = {Head(stdinCh)}
  /\ UNCHANGED <<apiVars, clientVars, netVars, ctrlCh, eof, killed, progVars>>

TakeChunk(to) ==
  /\ stdinCh # << >>
  /\ stdinCh' = Tail(stdinCh)
  /\ IF eof THEN UNCHANGED <<pump, writing>> ELSE pump' = to /\ writing' = {Head(stdinCh)}
  /\ UNCHANGED <<apiVars, clientVars, netVars, ctrlCh, eof, killed, progVars>>

PumpChunk == pump = "select" /\ TakeChunk("write")

\* Seeded fault: EOF at once, whatever is queued.
PumpCloseAtOnce ==
  /\ pump = "select" /\ ctrlCh # << >> /\ Head(ctrlCh) = "stdin_close"
  /\ ctrlCh' = Tail(ctrlCh)
  /\ eof' = TRUE
  /\ UNCHANGED <<apiVars, clientVars, netVars, stdinCh, pump, writing, killed, progVars>>

PumpClose ==
  /\ pump = "select" /\ ctrlCh # << >> /\ Head(ctrlCh) = "stdin_close"
  /\ ctrlCh' = Tail(ctrlCh)
  /\ pump' = "drain"
  /\ UNCHANGED <<apiVars, clientVars, netVars, stdinCh, writing, eof, killed, progVars>>

PumpKill ==
  /\ pump = "select" /\ ctrlCh # << >> /\ Head(ctrlCh) = "kill"
  /\ ctrlCh' = Tail(ctrlCh)
  /\ killed' = TRUE
  /\ UNCHANGED <<apiVars, clientVars, netVars, stdinCh, pump, writing, eof, progVars>>

DrainChunk == pump = "drain" /\ ~over /\ TakeChunk("drainWrite")

DrainDone ==
  /\ pump = "drain" /\ ~over /\ stdinCh = << >>
  /\ eof' = TRUE
  /\ pump' = "select"
  /\ UNCHANGED <<apiVars, clientVars, netVars, chanVars, writing, killed, progVars>>

\* Seeded fault: a bare Write, whose short count nobody looks at.
WriteDoneShort ==
  /\ pump \in {"write", "drainWrite"}
  /\ ~over
  /\ input' = IF Len(input) - read < PipeCap THEN Append(input, CHOOSE c \in writing : TRUE) ELSE input
  /\ writing' = {}
  /\ pump' = IF pump = "write" THEN "select" ELSE "drain"
  /\ UNCHANGED <<apiVars, clientVars, netVars, chanVars, eof, killed, read, over>>

\* The write blocks while the pipe is full.
WriteDone ==
  /\ pump \in {"write", "drainWrite"}
  /\ ~over /\ Len(input) - read < PipeCap
  /\ input' = Append(input, CHOOSE c \in writing : TRUE)
  /\ writing' = {}
  /\ pump' = IF pump = "write" THEN "select" ELSE "drain"
  /\ UNCHANGED <<apiVars, clientVars, netVars, chanVars, eof, killed, read, over>>

\* The connection breaks while the program runs: the pump returns, and what is
\* in its channels, a kill included, has no reader any more.
WriteFails ==
  /\ "pipe" \in Faults
  /\ pump \in {"write", "drainWrite"} /\ ~over
  /\ pump' = "broken"
  /\ writing' = {} /\ lost' = lost \cup writing
  /\ UNCHANGED <<apiVars, clientVars, published, sub, stdinWire, ctrlWire, chanVars, eof, killed, progVars>>

\* The program is gone: the write fails; or done is closed.
PumpStops ==
  /\ over /\ pump \notin {"stopped", "broken"}
  /\ pump' = "stopped"
  /\ writing' = {}
  /\ UNCHANGED <<apiVars, clientVars, netVars, chanVars, eof, killed, progVars>>

---------------------------------------------------------------------------
(* the program *)

Read ==
  /\ ~over /\ read < Len(input)
  /\ read' = read + 1
  /\ UNCHANGED <<apiVars, clientVars, netVars, chanVars, pumpVars, input, over>>

\* It exits, is killed, or meets a clock of the session.
Ends ==
  /\ ~over /\ over' = TRUE
  /\ UNCHANGED <<apiVars, clientVars, netVars, chanVars, pumpVars, input, read>>

---------------------------------------------------------------------------

Request(c) == RateCheck(c) \/ CapCheck(c) \/ Undo(c) \/ Publish(c)
RequestFails(c) == CapUnanswered(c) \/ UndoFails(c) \/ PublishFails(c)
Pump == PumpChunk \/ PumpClose \/ PumpKill \/ DrainChunk \/ DrainDone \/ WriteDone \/ PumpStops

Next ==
  \/ \E c \in Chunks : Post(c) \/ Request(c) \/ RequestFails(c)
  \/ NextWindow \/ PendingExpires \/ PostClose \/ PostKill
  \/ \E ch \in {"stdin", "ctrl"} : Subscribed(ch)
  \/ DeliverChunk \/ DeliverControl \/ ParkedControl \/ Started \/ Pump \/ WriteFails
  \/ Read \/ Ends

Spec == Init /\ [][Next]_vars

\* The park loop and the pump go on; a select picks among the channels that
\* are ready at random, so a kill that stays ready is taken in the end (SF).
\* Clients, Redis, the delivery goroutines and the program owe nothing, except
\* that killing a container ends it.
Fairness ==
  /\ WF_vars(ParkedControl) /\ WF_vars(Pump) /\ SF_vars(PumpKill)
  /\ WF_vars(killed /\ Ends)

FairSpec == Spec /\ Fairness

---------------------------------------------------------------------------

TypeOK ==
  /\ req \in [Chunks -> TheStages]
  /\ frames \in Nat /\ pending \in Nat /\ forgiven \subseteq Chunks /\ unchecked \subseteq Chunks
  /\ closeReq \in BOOLEAN /\ killReq \in BOOLEAN
  /\ published \in Seq(Chunks) /\ stdinWire \in Seq(Chunks) /\ stdinCh \in Seq(Chunks)
  /\ ctrlWire \in Seq({"stdin_close", "kill"}) /\ ctrlCh \in Seq({"stdin_close", "kill"})
  /\ sub \subseteq {"stdin", "ctrl"} /\ lost \subseteq Chunks
  /\ pump \in PumpStages /\ writing \subseteq Chunks
  /\ eof \in BOOLEAN /\ killed \in BOOLEAN /\ over \in BOOLEAN
  /\ input \in Seq(Chunks) /\ read \in 0 .. Len(input)

\* ratelimit.ts: however requests interleave and fail, the counter is the bytes
\* of the chunks that passed, that are being decided, or whose take-back failed
\* (500); and those that were measured and passed since it last expired fit the
\* cap.  A chunk whose INCRBY was not answered passes without being measured,
\* counted or not.
CapIsKept ==
  /\ pending = Bytes(Charged)
  /\ Bytes(Admitted) <= ByteCap

\* stdin_pump.go: EOF comes only when every accepted chunk has been written,
\* or was dropped, or has not reached the worker.
EofAfterQueued ==
  [][~eof /\ eof' => ToSet(published) \subseteq ToSet(input) \cup lost \cup ToSet(stdinWire)]_vars

\* A published chunk is given up only where the code says so: nobody was
\* subscribed to its channel, stdinCh was full, its write failed, EOF had been
\* delivered, or the session was over.
AcceptedIsAccountedFor ==
  ~over => \A c \in ToSet(published) :
    c \in ToSet(input) \cup ToSet(stdinWire) \cup ToSet(stdinCh) \cup writing \cup lost \/ eof

\* A kill in the channel of the pump is applied, unless the pump is blocked
\* in a write the program does not read, or a write that failed has ended it.
KillTaken ==
  "kill" \in ToSet(ctrlCh) ~> over \/ pump = "broken" \/ (writing # {} /\ Len(input) - read = PipeCap)

\* The input is an in-order part of what was accepted, closed once.
Stream == INSTANCE InputStream WITH sent <- published, closed <- eof
ImplementsInputStream == Stream!Spec

===========================================================================

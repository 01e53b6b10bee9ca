-------------------------- MODULE StdinPathProofs --------------------------
(***************************************************************************)
(* For any chunks, limits and capacities: the input a program gets is an   *)
(* in-order part of what the API accepted and nothing follows end of file  *)
(* (the refinement of InputStream), no accepted chunk is given up but      *)
(* where the code says so, end of file waits for what is queued, and the   *)
(* counter of pending bytes is exact and keeps its cap.                    *)
(***************************************************************************)
EXTENDS StdinPath, SequenceFacts, FiniteSetTheorems

Controls == {"stdin_close", "kill"}

StreamTypes ==
  /\ req \in [Chunks -> TheStages]
  /\ published \in Seq(Chunks) /\ stdinWire \in Seq(Chunks) /\ stdinCh \in Seq(Chunks)
  /\ ctrlWire \in Seq(Controls) /\ ctrlCh \in Seq(Controls)
  /\ input \in Seq(Chunks) /\ read \in Nat
  /\ pump \in PumpStages /\ eof \in BOOLEAN /\ over \in BOOLEAN

\* The pump holds one chunk while it writes, and none otherwise.
Writing == pump \in {"write", "drainWrite"}
WritingOne ==
  /\ Writing => ~eof /\ \E c \in Chunks : writing = {c}
  /\ ~Writing => writing = {}

\* A chunk is published once, by the request that was accepted, or answered 500
\* for a PUBLISH whose answer was lost.
PublishedOnce ==
  /\ \A i, j \in DOMAIN published : published[i] = published[j] => i = j
  /\ \A c \in ToSet(published) : req[c] \in {"accepted", "failed"}

\* Everything on the way was published, and is in the order of publication.
Earlier(p, a, b) == \E i, j \in DOMAIN p : i < j /\ p[i] = a /\ p[j] = b
Ordered(p, s)    == \A i, j \in DOMAIN s : i < j => Earlier(p, s[i], s[j])
Before(p, S, T)  == \A a \in S : \A b \in T : Earlier(p, a, b)

Known == ToSet(input) \cup writing \cup ToSet(stdinCh) \cup ToSet(stdinWire) \subseteq ToSet(published)

InOrder ==
  /\ Ordered(published, input) /\ Ordered(published, stdinCh) /\ Ordered(published, stdinWire)
  /\ Before(published, ToSet(input), writing \cup ToSet(stdinCh) \cup ToSet(stdinWire))
  /\ Before(published, writing, ToSet(stdinCh) \cup ToSet(stdinWire))
  /\ Before(published, ToSet(stdinCh), ToSet(stdinWire))

\* What a request does short of the PUBLISH.
Quiet(c) == Post(c) \/ RateCheck(c) \/ CapCheck(c) \/ CapUnanswered(c) \/ Undo(c) \/ UndoFails(c)

Base    == StreamTypes /\ WritingOne
Line    == Known /\ InOrder /\ AcceptedIsAccountedFor
PathInv == Base /\ PublishedOnce /\ Line

(***************************************************************************)
(* Order along a sequence.                                                 *)
(***************************************************************************)

\* An ordered queue stays ordered when a later chunk joins it.
LEMMA OrderedAppend ==
  ASSUME NEW p, NEW s \in Seq(Chunks), NEW x \in Chunks, Ordered(p, s), Before(p, ToSet(s), {x})
  PROVE  Ordered(p, Append(s, x))
<1>1. /\ Len(Append(s, x)) = Len(s) + 1
      /\ \A i \in 1 .. Len(s) : Append(s, x)[i] = s[i]
      /\ Append(s, x)[Len(s) + 1] = x
  BY AppendProperties
<1>2. Len(s) \in Nat /\ DOMAIN s = 1 .. Len(s) /\ DOMAIN Append(s, x) = 1 .. Len(s) + 1
  BY <1>1, LenProperties, AppendProperties
<1> SUFFICES ASSUME NEW i \in 1 .. Len(s) + 1, NEW j \in 1 .. Len(s) + 1, i < j
             PROVE  Earlier(p, Append(s, x)[i], Append(s, x)[j])
  BY <1>2 DEF Ordered
<1>3. i \in 1 .. Len(s) /\ Append(s, x)[i] = s[i]
  BY <1>1, <1>2
<1>4. CASE j = Len(s) + 1
  BY <1>1, <1>2, <1>3, <1>4 DEF Before, ToSet
<1>5. CASE j # Len(s) + 1
  BY <1>1, <1>2, <1>3, <1>5 DEF Ordered
<1> QED
  BY <1>4, <1>5

\* It stays ordered when its head leaves, which comes before the rest.
LEMMA OrderedTail ==
  ASSUME NEW p, NEW s \in Seq(Chunks), s # << >>, Ordered(p, s)
  PROVE  Ordered(p, Tail(s)) /\ Before(p, {Head(s)}, ToSet(Tail(s)))
<1>1. Len(Tail(s)) = Len(s) - 1 /\ \A i \in 1 .. Len(Tail(s)) : Tail(s)[i] = s[i + 1]
  BY HeadTailProperties
<1>2. Len(s) \in Nat \ {0} /\ DOMAIN s = 1 .. Len(s) /\ DOMAIN Tail(s) = 1 .. Len(s) - 1 /\ Head(s) = s[1]
  BY <1>1, LenProperties, EmptySeq, HeadTailProperties
<1>3. Ordered(p, Tail(s))
  BY <1>1, <1>2 DEF Ordered
<1>4. Before(p, {Head(s)}, ToSet(Tail(s)))
  BY <1>1, <1>2 DEF Ordered, Before, ToSet
<1> QED
  BY <1>3, <1>4

\* What was before stays before, and what is published now comes last.
LEMMA OrderGrows ==
  ASSUME NEW p \in Seq(Chunks), NEW c \in Chunks
  PROVE  /\ \A a, b : Earlier(p, a, b) => Earlier(Append(p, c), a, b)
         /\ \A a \in ToSet(p) : Earlier(Append(p, c), a, c)
<1>1. /\ Len(Append(p, c)) = Len(p) + 1
      /\ \A i \in 1 .. Len(p) : Append(p, c)[i] = p[i]
      /\ Append(p, c)[Len(p) + 1] = c
  BY AppendProperties
<1>2. Len(p) \in Nat /\ DOMAIN p = 1 .. Len(p) /\ DOMAIN Append(p, c) = 1 .. Len(p) + 1
  BY <1>1, LenProperties, AppendProperties
<1>3. ASSUME NEW a, NEW b, Earlier(p, a, b) PROVE Earlier(Append(p, c), a, b)
  BY <1>1, <1>2, <1>3 DEF Earlier
<1>4. ASSUME NEW a \in ToSet(p) PROVE Earlier(Append(p, c), a, c)
  <2>1. PICK i \in 1 .. Len(p) : p[i] = a
    BY <1>2 DEF ToSet
  <2>2. i < Len(p) + 1 /\ i \in DOMAIN Append(p, c) /\ Len(p) + 1 \in DOMAIN Append(p, c)
    BY <1>2
  <2>3. Append(p, c)[i] = a /\ Append(p, c)[Len(p) + 1] = c
    BY <1>1, <2>1
  <2> QED
    BY <2>2, <2>3 DEF Earlier
<1> QED
  BY <1>3, <1>4

(***************************************************************************)
(* Types, the chunk in write, and one publication for a chunk.             *)
(***************************************************************************)

\* Nothing is sent at first: the invariant holds.
LEMMA InitPath == Init => PathInv
<1> SUFFICES ASSUME Init PROVE PathInv
  OBVIOUS
<1>1. /\ published = << >> /\ stdinWire = << >> /\ stdinCh = << >> /\ input = << >> /\ writing = {}
      /\ ctrlWire = << >> /\ ctrlCh = << >>
  BY DEF Init
<1>2. Base
  BY <1>1, EmptySeq DEF Init, Base, StreamTypes, WritingOne, Writing, TheStages, PumpStages
<1>3. PublishedOnce /\ Known /\ AcceptedIsAccountedFor
  BY <1>1, ToSetEmpty DEF PublishedOnce, Known, AcceptedIsAccountedFor
<1>4. InOrder
  BY <1>1, ToSetEmpty DEF InOrder, Ordered, Before
<1> QED
  BY <1>2, <1>3, <1>4 DEF PathInv, Line

\* Types, and one chunk at a time in write.
LEMMA BaseStep ==
  ASSUME Base, Next
  PROVE  Base'
<1> USE DEF Base, StreamTypes, WritingOne, Writing, PumpStages, TheStages,
            apiVars, clientVars, netVars, chanVars, pumpVars, progVars
<1>1. ASSUME NEW c \in Chunks, Quiet(c) PROVE Base'
  <2>1. req' \in [Chunks -> TheStages]
    BY <1>1 DEF Quiet, Post, RateCheck, CapCheck, CapUnanswered, Undo, UndoFails
  <2>2. UNCHANGED <<netVars, chanVars, pumpVars, progVars>>
    BY <1>1 DEF Quiet, Post, RateCheck, CapCheck, CapUnanswered, Undo, UndoFails
  <2> QED
    BY <2>1, <2>2
<1>2. ASSUME NEW c \in Chunks, Publish(c) \/ PublishFails(c) PROVE Base'
  <2>1. req' \in [Chunks -> TheStages]
    BY <1>2 DEF Publish, PublishFails
  <2>2. published' \in Seq(Chunks) /\ stdinWire' \in Seq(Chunks)
    <3>1. Append(published, c) \in Seq(Chunks) /\ Append(stdinWire, c) \in Seq(Chunks)
      BY ToSetAppend
    <3> QED
      BY <1>2, <3>1 DEF Publish, PublishFails, Published
  <2>3. UNCHANGED <<ctrlWire, chanVars, pumpVars, progVars>>
    BY <1>2 DEF Publish, PublishFails
  <2> QED
    BY <2>1, <2>2, <2>3
<1>3. CASE NextWindow \/ PendingExpires \/ Started
  <2>1. UNCHANGED <<req, netVars, chanVars, writing, eof, progVars>>
        /\ (UNCHANGED pump \/ (pump = "parked" /\ pump' = "select"))
    BY <1>3 DEF NextWindow, PendingExpires, Started
  <2> QED
    BY <2>1
<1>4. CASE PostClose \/ PostKill
  <2>1. ctrlWire' \in Seq(Controls)
    <3>1. PICK m \in Controls : ctrlWire' = Append(ctrlWire, m) \/ ctrlWire' = ctrlWire
      BY <1>4 DEF PostClose, PostKill, PublishControl, Controls
    <3>2. ctrlWire \in Seq(Controls)
      OBVIOUS
    <3> QED
      BY ONLY <3>1, <3>2, ToSetAppend
  <2>2. UNCHANGED <<req, published, stdinWire, chanVars, pumpVars, progVars>>
    BY <1>4 DEF PostClose, PostKill, PublishControl
  <2> QED
    BY <2>1, <2>2
<1>5. ASSUME NEW ch \in {"stdin", "ctrl"}, Subscribed(ch) PROVE Base'
  BY <1>5 DEF Subscribed
<1>6. CASE DeliverChunk
  <2>1. stdinWire' \in Seq(Chunks)
    BY <1>6, ToSetTail DEF DeliverChunk
  <2>2. Head(stdinWire) \in Chunks
    BY <1>6, ToSetTail DEF DeliverChunk
  <2>3. stdinCh' \in Seq(Chunks)
    <3>1. Append(stdinCh, Head(stdinWire)) \in Seq(Chunks)
      BY <2>2, ToSetAppend
    <3> QED
      BY <1>6, <3>1 DEF DeliverChunk
  <2>4. UNCHANGED <<req, published, ctrlWire, ctrlCh, pumpVars, progVars>>
    BY <1>6 DEF DeliverChunk
  <2> QED
    BY <2>1, <2>3, <2>4
<1>7. CASE DeliverControl
  <2>1. ctrlWire' \in Seq(Controls) /\ ctrlCh' \in Seq(Controls)
    <3>1. /\ ctrlWire \in Seq(Controls) /\ ctrlCh \in Seq(Controls) /\ ctrlWire # << >>
          /\ ctrlWire' = Tail(ctrlWire) /\ ctrlCh' = Append(ctrlCh, Head(ctrlWire))
      BY <1>7 DEF DeliverControl
    <3>2. Head(ctrlWire) \in Controls /\ Tail(ctrlWire) \in Seq(Controls)
      BY ONLY <3>1, ToSetTail
    <3>3. Append(ctrlCh, Head(ctrlWire)) \in Seq(Controls)
      BY ONLY <3>1, <3>2, ToSetAppend
    <3> QED
      BY <3>1, <3>2, <3>3
  <2> QED
    BY <1>7, <2>1 DEF DeliverControl
<1>8. ASSUME NEW to \in {"write", "drainWrite"}, pump \in {"select", "drain"}, TakeChunk(to) PROVE Base'
  <2>1. Head(stdinCh) \in Chunks /\ stdinCh' \in Seq(Chunks)
    BY <1>8, ToSetTail DEF TakeChunk
  <2> QED
    BY <1>8, <2>1 DEF TakeChunk
<1>9. CASE PumpChunk \/ DrainChunk
  BY <1>8, <1>9 DEF PumpChunk, DrainChunk
<1>10. CASE DrainDone \/ PumpStops \/ WriteFails
  BY <1>10 DEF DrainDone, PumpStops, WriteFails
<1>11. CASE WriteDone
  <2>1. (CHOOSE c \in writing : TRUE) \in Chunks
    BY <1>11 DEF WriteDone
  <2>2. input' \in Seq(Chunks)
    BY <1>11, <2>1, ToSetAppend DEF WriteDone
  <2> QED
    BY <1>11, <2>2 DEF WriteDone
<1>12. CASE Read
  BY <1>12 DEF Read
<1>13. CASE Ends
  BY <1>13 DEF Ends
<1>14. CASE PumpClose \/ PumpKill
  <2>1. ctrlCh' \in Seq(Controls)
    <3>1. ctrlCh \in Seq(Controls) /\ ctrlCh # << >> /\ ctrlCh' = Tail(ctrlCh)
      BY <1>14 DEF PumpClose, PumpKill
    <3> QED
      BY ONLY <3>1, HeadTailProperties
  <2>2. /\ UNCHANGED <<req, netVars, stdinCh, writing, eof, progVars>>
        /\ pump = "select" /\ pump' \in {"select", "drain"}
    BY <1>14 DEF PumpClose, PumpKill
  <2> QED
    BY <2>1, <2>2
<1>15. CASE ParkedControl
  <2>1. ctrlCh' \in Seq(Controls)
    <3>1. ctrlCh \in Seq(Controls) /\ ctrlCh # << >> /\ ctrlCh' = Tail(ctrlCh)
      BY <1>15 DEF ParkedControl
    <3> QED
      BY ONLY <3>1, ToSetTail
  <2>2. over' \in BOOLEAN
    BY <1>15 DEF ParkedControl
  <2>3. UNCHANGED <<req, netVars, stdinCh, pumpVars, input, read>>
    BY <1>15 DEF ParkedControl
  <2> QED
    BY <2>1, <2>2, <2>3
<1> QED
  BY <1>1, <1>2, <1>3, <1>4, <1>5, <1>6, <1>7, <1>9, <1>10, <1>11, <1>12, <1>13, <1>14, <1>15
     DEF Next, Request, RequestFails, Quiet, Pump

\* A chunk is published by its own request, once.
LEMMA PublishedStep ==
  ASSUME Base, PublishedOnce, Next
  PROVE  PublishedOnce'
<1>0. ASSUME UNCHANGED published,
             \A b \in Chunks : req[b] \in {"accepted", "failed"} => req'[b] \in {"accepted", "failed"}
      PROVE  PublishedOnce'
  <2>1. ToSet(published) \subseteq Chunks
    BY DEF ToSet, Base, StreamTypes
  <2> QED
    BY <1>0, <2>1 DEF PublishedOnce
<1>1. ASSUME NEW c \in Chunks, Publish(c) \/ PublishFails(c), Published(c) PROVE PublishedOnce'
  <2>1. published \in Seq(Chunks) /\ published' = Append(published, c) /\ req[c] = "publish"
    BY <1>1 DEF Base, StreamTypes, Publish, PublishFails, Published
  <2>2. /\ Len(published) \in Nat /\ DOMAIN published = 1 .. Len(published)
        /\ DOMAIN published' = 1 .. Len(published) + 1
        /\ \A i \in 1 .. Len(published) : published'[i] = published[i]
        /\ published'[Len(published) + 1] = c
    BY <2>1, AppendProperties, LenProperties
  <2>3. c \notin ToSet(published)
    BY <2>1 DEF PublishedOnce
  <2>4. \A i, j \in DOMAIN published' : published'[i] = published'[j] => i = j
    BY <2>2, <2>3 DEF PublishedOnce, ToSet
  <2>5. \A b \in ToSet(published') : req'[b] \in {"accepted", "failed"}
    <3>1. ToSet(published') = ToSet(published) \cup {c}
      BY <2>1, ToSetAppend
    <3>2. ToSet(published) \subseteq Chunks
      BY <2>1 DEF ToSet
    <3> QED
      BY <1>1, <3>1, <3>2 DEF Publish, PublishFails, PublishedOnce, Base, StreamTypes
  <2> QED
    BY <2>4, <2>5 DEF PublishedOnce
<1>2. ASSUME NEW c \in Chunks, Quiet(c) PROVE PublishedOnce'
  BY <1>0, <1>2 DEF Quiet, Post, RateCheck, CapCheck, CapUnanswered, Undo, UndoFails, netVars, Base, StreamTypes
<1>3. CASE UNCHANGED <<published, req>>
  BY <1>3 DEF PublishedOnce
<1>4. ASSUME ~ \E c \in Chunks : Post(c) \/ Request(c) \/ RequestFails(c)
      PROVE  UNCHANGED <<published, req>>
  BY <1>4 DEF Next, NextWindow, PendingExpires, PostClose, PostKill, PublishControl, Subscribed, DeliverChunk,
              DeliverControl, ParkedControl, Started, Pump, WriteFails, PumpChunk, PumpClose, PumpKill, DrainChunk,
              TakeChunk, DrainDone, WriteDone, PumpStops, Read, Ends,
              apiVars, clientVars, netVars, chanVars, pumpVars, progVars
<1>5. ASSUME NEW c \in Chunks, PublishFails(c), ~Published(c) PROVE PublishedOnce'
  BY <1>0, <1>5 DEF PublishFails, Base, StreamTypes
<1> QED
  BY <1>1, <1>2, <1>3, <1>4, <1>5 DEF Request, RequestFails, Quiet, Publish

(***************************************************************************)
(* The line of chunks from the API to the program.                         *)
(***************************************************************************)

\* A published chunk joins the line at its end, or is dropped for want of a subscriber.
LEMMA PublishLine ==
  ASSUME Base, Line, NEW c \in Chunks, Publish(c) \/ PublishFails(c), Published(c)
  PROVE  Line'
<1> USE DEF Line
<1>1. /\ published \in Seq(Chunks) /\ stdinWire \in Seq(Chunks)
      /\ published' = Append(published, c)
      /\ UNCHANGED <<input, writing, stdinCh, eof, over>>
  BY DEF Base, StreamTypes, Publish, PublishFails, Published, chanVars, pumpVars, progVars
<1>2. ToSet(published') = ToSet(published) \cup {c}
  BY <1>1, ToSetAppend
<1>3. /\ \A a, b : Earlier(published, a, b) => Earlier(published', a, b)
      /\ \A a \in ToSet(published) : Earlier(published', a, c)
  BY <1>1, OrderGrows
<1>4. /\ Ordered(published', input) /\ Ordered(published', stdinCh) /\ Ordered(published', stdinWire)
      /\ Before(published', ToSet(input), writing \cup ToSet(stdinCh) \cup ToSet(stdinWire))
      /\ Before(published', writing, ToSet(stdinCh) \cup ToSet(stdinWire))
      /\ Before(published', ToSet(stdinCh), ToSet(stdinWire))
  BY <1>3 DEF InOrder, Ordered, Before
<1>5. \A S \in SUBSET ToSet(published) : Before(published', S, {c})
  BY <1>3 DEF Before
<1>6. CASE stdinWire' = Append(stdinWire, c) /\ lost' = lost
  <2>1. ToSet(stdinWire') = ToSet(stdinWire) \cup {c}
    BY <1>1, <1>6, ToSetAppend
  <2>2. Ordered(published', stdinWire')
    BY <1>1, <1>4, <1>5, <1>6, OrderedAppend DEF Known
  <2>3. InOrder'
    BY <1>1, <1>4, <1>5, <2>1, <2>2 DEF InOrder, Before, Known
  <2>4. Known' /\ AcceptedIsAccountedFor'
    BY <1>1, <1>2, <1>6, <2>1 DEF Known, AcceptedIsAccountedFor
  <2> QED
    BY <2>3, <2>4
<1>7. CASE lost' = lost \cup {c} /\ stdinWire' = stdinWire
  <2>1. InOrder'
    BY <1>1, <1>4, <1>7 DEF InOrder
  <2>2. Known' /\ AcceptedIsAccountedFor'
    BY <1>1, <1>2, <1>7 DEF Known, AcceptedIsAccountedFor
  <2> QED
    BY <2>1, <2>2
<1> QED
  BY <1>6, <1>7 DEF Published

\* The delivery goroutine moves the head of the wire into stdinCh, or drops it when that is full.
LEMMA DeliverLine ==
  ASSUME Base, Line, DeliverChunk
  PROVE  Line'
<1> USE DEF Line
<1> DEFINE c == Head(stdinWire)
<1>1. /\ stdinWire \in Seq(Chunks) /\ stdinCh \in Seq(Chunks) /\ stdinWire # << >>
      /\ stdinWire' = Tail(stdinWire)
      /\ UNCHANGED <<published, input, writing, eof, over>>
  BY DEF Base, StreamTypes, DeliverChunk, pumpVars, progVars
<1>2. c \in Chunks /\ ToSet(stdinWire) = {c} \cup ToSet(stdinWire')
  BY <1>1, ToSetTail
<1>3. Ordered(published, stdinWire') /\ Before(published, {c}, ToSet(stdinWire'))
  BY <1>1, OrderedTail DEF InOrder
<1>4. \/ stdinCh' = Append(stdinCh, c) /\ lost' = lost
      \/ stdinCh' = stdinCh /\ lost' = lost \cup {c}
  BY DEF DeliverChunk
<1> HIDE DEF c
<1>5. CASE stdinCh' = Append(stdinCh, c) /\ lost' = lost
  <2>1. ToSet(stdinCh') = ToSet(stdinCh) \cup {c}
    BY <1>1, <1>2, <1>5, ToSetAppend
  <2>2. Ordered(published, stdinCh')
    <3>1. Before(published, ToSet(stdinCh), {c})
      BY <1>2 DEF InOrder, Before
    <3> QED
      BY <1>1, <1>2, <1>5, <3>1, OrderedAppend DEF InOrder
  <2>3. InOrder'
    BY <1>1, <1>2, <1>3, <2>1, <2>2 DEF InOrder, Before
  <2>4. Known' /\ AcceptedIsAccountedFor'
    BY <1>1, <1>2, <1>5, <2>1 DEF Known, AcceptedIsAccountedFor
  <2> QED
    BY <2>3, <2>4
<1>6. CASE stdinCh' = stdinCh /\ lost' = lost \cup {c}
  <2>1. InOrder'
    BY <1>1, <1>2, <1>3, <1>6 DEF InOrder, Before
  <2>2. Known' /\ AcceptedIsAccountedFor'
    BY <1>1, <1>2, <1>6 DEF Known, AcceptedIsAccountedFor
  <2> QED
    BY <2>1, <2>2
<1> QED
  BY <1>4, <1>5, <1>6

\* The pump takes the head of stdinCh.
LEMMA TakeLine ==
  ASSUME Base, Line, pump \in {"select", "drain"}, NEW to, TakeChunk(to)
  PROVE  Line'
<1> USE DEF Line
<1> DEFINE c == Head(stdinCh)
<1>1. /\ stdinCh \in Seq(Chunks) /\ stdinCh # << >> /\ stdinCh' = Tail(stdinCh)
      /\ writing = {}
      /\ writing' = IF eof THEN {} ELSE {c}
      /\ UNCHANGED <<published, input, stdinWire, eof, over, lost>>
  BY DEF Base, StreamTypes, WritingOne, Writing, TakeChunk, netVars, progVars
<1>2. c \in Chunks /\ ToSet(stdinCh) = {c} \cup ToSet(stdinCh')
  BY <1>1, ToSetTail
<1>3. Ordered(published, stdinCh') /\ Before(published, {c}, ToSet(stdinCh'))
  BY <1>1, OrderedTail DEF InOrder
<1> HIDE DEF c
<1>4. InOrder'
  BY <1>1, <1>2, <1>3 DEF InOrder, Before
<1>5. Known'
  BY <1>1, <1>2 DEF Known
<1>6. AcceptedIsAccountedFor'
  BY <1>1, <1>2 DEF AcceptedIsAccountedFor
<1> QED
  BY <1>4, <1>5, <1>6

\* What is written joins the input at its end.
LEMMA WriteLine ==
  ASSUME Base, Line, WriteDone
  PROVE  Line'
<1> USE DEF Line
<1>1. PICK c \in Chunks : writing = {c}
  BY DEF Base, WritingOne, Writing, WriteDone
<1>2. (CHOOSE b \in writing : TRUE) = c
  BY <1>1
<1>3. /\ input \in Seq(Chunks) /\ input' = Append(input, c) /\ writing' = {}
      /\ UNCHANGED <<published, stdinCh, stdinWire, eof, over, lost>>
  BY <1>2 DEF Base, StreamTypes, WriteDone, netVars, chanVars
<1>4. ToSet(input') = ToSet(input) \cup {c}
  BY <1>3, ToSetAppend
<1>5. Ordered(published, input')
  <2>1. Before(published, ToSet(input), {c})
    BY <1>1 DEF InOrder, Before
  <2> QED
    BY <1>3, <2>1, OrderedAppend DEF InOrder
<1>6. InOrder'
  BY <1>1, <1>3, <1>4, <1>5 DEF InOrder, Before
<1>7. Known' /\ AcceptedIsAccountedFor'
  BY <1>1, <1>3, <1>4 DEF Known, AcceptedIsAccountedFor
<1> QED
  BY <1>6, <1>7

\* Every step keeps the line.
LEMMA LineStep ==
  ASSUME Base, Line, Next
  PROVE  Line'
<1> USE DEF apiVars, clientVars, netVars, chanVars, pumpVars, progVars
<1>1. ASSUME NEW c \in Chunks, Publish(c) \/ PublishFails(c) PROVE Line'
  <2>1. CASE Published(c)
    BY <1>1, <2>1, PublishLine
  <2>2. CASE ~Published(c)
    BY <1>1, <2>2 DEF Publish, PublishFails, Line, Known, InOrder, AcceptedIsAccountedFor
  <2> QED
    BY <2>1, <2>2
<1>8. CASE WriteFails
  <2>1. /\ UNCHANGED <<published, input, stdinCh, stdinWire, over, eof>>
        /\ writing' = {} /\ lost' = lost \cup writing
    BY <1>8 DEF WriteFails
  <2> QED
    BY <2>1 DEF Line, Known, InOrder, AcceptedIsAccountedFor, Before
<1>2. CASE DeliverChunk
  BY <1>2, DeliverLine
<1>3. CASE PumpChunk \/ DrainChunk
  BY <1>3, TakeLine DEF PumpChunk, DrainChunk
<1>4. CASE WriteDone
  BY <1>4, WriteLine
<1>5. CASE PumpStops
  <2>1. UNCHANGED <<published, input, stdinCh, stdinWire, over>> /\ writing' = {} /\ over
    BY <1>5 DEF PumpStops
  <2> QED
    BY <2>1 DEF Line, Known, InOrder, AcceptedIsAccountedFor, Before
<1>6. CASE UNCHANGED <<published, input, writing, stdinCh, stdinWire, lost>> /\ (eof => eof') /\ (over => over')
  BY <1>6 DEF Line, Known, InOrder, AcceptedIsAccountedFor
<1>7. CASE \/ \E c \in Chunks : Quiet(c)
           \/ \E ch \in {"stdin", "ctrl"} : Subscribed(ch)
           \/ NextWindow \/ PendingExpires \/ PostClose \/ PostKill \/ DeliverControl \/ ParkedControl \/ Started
           \/ PumpClose \/ PumpKill \/ DrainDone \/ Read \/ Ends
  BY <1>6, <1>7
     DEF Quiet, Post, RateCheck, CapCheck, CapUnanswered, Undo, UndoFails, NextWindow, PendingExpires, PostClose, PostKill, PublishControl,
         Subscribed, DeliverControl, ParkedControl, Started, PumpClose, PumpKill, DrainDone, Read, Ends
<1> QED
  BY <1>1, <1>2, <1>3, <1>4, <1>5, <1>7, <1>8 DEF Next, Request, RequestFails, Quiet, Pump

(***************************************************************************)
(* The invariant, and what follows from it.                                *)
(***************************************************************************)

\* Every step keeps the invariant.
LEMMA PathStep == PathInv /\ [Next]_vars => PathInv'
<1> SUFFICES ASSUME PathInv, [Next]_vars PROVE PathInv'
  OBVIOUS
<1>1. CASE Next
  BY <1>1, BaseStep, PublishedStep, LineStep DEF PathInv
<1>2. CASE UNCHANGED vars
  BY <1>2 DEF vars, apiVars, clientVars, netVars, chanVars, pumpVars, progVars, PathInv, Base, StreamTypes,
              WritingOne, Writing, PublishedOnce, Line, Known, InOrder, AcceptedIsAccountedFor
<1> QED
  BY <1>1, <1>2

\* The invariant holds throughout.
LEMMA Invariance == Spec => []PathInv
BY InitPath, PathStep, PTL DEF Spec

\* A chunk the API accepted is in the pipe, on its way, dropped where the code
\* drops it (no subscription, a full stdinCh), or after end of file; the
\* goroutines between Redis and the pipe lose none.
THEOREM NothingForgotten == Spec => []AcceptedIsAccountedFor
<1>1. PathInv => AcceptedIsAccountedFor
  BY DEF PathInv, Line
<1> QED
  BY <1>1, Invariance, PTL

\* End of file is delivered by one step only, at the end of the drain.
LEMMA EofStep ==
  ASSUME Next, ~eof, eof'
  PROVE  DrainDone
BY DEF Next, Request, RequestFails, Pump, Quiet, Post, RateCheck, CapCheck, CapUnanswered, Undo, UndoFails, Publish, PublishFails, NextWindow, PendingExpires, PostClose,
       PostKill, PublishControl, Subscribed, DeliverChunk, DeliverControl, ParkedControl, Started, PumpChunk,
       PumpClose, PumpKill, DrainChunk, TakeChunk, WriteDone, WriteFails, PumpStops, Read, Ends,
       apiVars, clientVars, netVars, chanVars, pumpVars, progVars

\* handleControl drains stdinCh before it closes the pipe: end of file leaves
\* behind no chunk that has reached the worker.
THEOREM EofWaits == Spec => EofAfterQueued
<1>1. PathInv /\ [Next]_vars
        => [~eof /\ eof' => ToSet(published) \subseteq ToSet(input) \cup lost \cup ToSet(stdinWire)]_vars
  <2> SUFFICES ASSUME PathInv, Next, ~eof, eof'
               PROVE  ToSet(published) \subseteq ToSet(input) \cup lost \cup ToSet(stdinWire)
    OBVIOUS
  <2>1. pump = "drain" /\ ~over /\ stdinCh = << >>
    BY EofStep DEF DrainDone
  <2>2. writing = {} /\ ToSet(stdinCh) = {}
    BY <2>1, ToSetEmpty DEF PathInv, Base, WritingOne, Writing
  <2> QED
    BY <2>1, <2>2 DEF PathInv, Line, AcceptedIsAccountedFor
<1> QED
  BY <1>1, Invariance, PTL DEF Spec, EofAfterQueued

(***************************************************************************)
(* The refinement.                                                         *)
(***************************************************************************)

\* What is written next stands behind what was written last.
LEMMA WriteDelivers ==
  ASSUME PathInv, WriteDone
  PROVE  \E i \in DOMAIN published : Stream!Deliver(i)
<1>1. PICK c \in Chunks : writing = {c}
  BY DEF PathInv, Base, WritingOne, Writing, WriteDone
<1>2. (CHOOSE b \in writing : TRUE) = c
  BY <1>1
<1>3. input' = Append(input, c) /\ ~eof /\ UNCHANGED <<published, eof>>
  BY <1>2 DEF PathInv, Base, WritingOne, Writing, WriteDone, netVars
<1>4. PICK i \in DOMAIN published : published[i] = c
  BY <1>1 DEF PathInv, Line, Known, ToSet
<1>5. published \in Seq(Chunks) /\ input \in Seq(Chunks)
  BY DEF PathInv, Base, StreamTypes
<1>6. i > Stream!Position
  <2>0. DOMAIN published \subseteq Nat \ {0}
    BY <1>5, LenProperties
  <2>1. CASE input = << >>
    BY <2>0, <2>1 DEF Stream!Position
  <2>2. CASE input # << >>
    <3>1. Last(input) \in ToSet(input) /\ Last(input) = Stream!Last(input)
      BY <1>5, <2>2, LenProperties, EmptySeq DEF Last, Stream!Last, ToSet
    <3>2. PICK k, l \in DOMAIN published : k < l /\ published[k] = Last(input) /\ published[l] = c
      BY <1>1, <3>1 DEF PathInv, Line, InOrder, Before, Earlier
    <3>3. l = i /\ \A m \in DOMAIN published : published[m] = Last(input) => m = k
      BY <1>4, <3>2 DEF PathInv, PublishedOnce
    <3>4. Stream!Position = k
      BY <2>2, <3>1, <3>2, <3>3 DEF Stream!Position
    <3> QED
      BY <2>0, <3>2, <3>3, <3>4
  <2> QED
    BY <2>1, <2>2
<1> QED
  BY <1>3, <1>4, <1>6 DEF Stream!Deliver

\* Every step is a step of InputStream, or leaves its variables alone.
LEMMA StreamStep ==
  ASSUME PathInv, Next
  PROVE  [Stream!Next]_<<published, input, eof>>
<1> USE DEF apiVars, clientVars, netVars, chanVars, pumpVars, progVars
<1>1. ASSUME NEW c \in Chunks, Publish(c) \/ PublishFails(c), Published(c) PROVE Stream!Next
  <2>1. c \notin ToSet(published)
    BY <1>1 DEF PathInv, PublishedOnce, Publish, PublishFails
  <2> QED
    BY <1>1, <2>1 DEF Publish, PublishFails, Published, ToSet, Stream!ToSet, Stream!Next, Stream!Accept
<1>2. CASE WriteDone
  BY <1>2, WriteDelivers DEF Stream!Next
<1>3. CASE DrainDone
  BY <1>3 DEF DrainDone, Stream!Next, Stream!EndOfFile, PathInv, Base, StreamTypes
<1>5. ASSUME NEW c \in Chunks, Publish(c) \/ PublishFails(c), ~Published(c)
      PROVE  UNCHANGED <<published, input, eof>>
  BY <1>5 DEF Publish, PublishFails
<1>4. CASE \/ \E c \in Chunks : Quiet(c)
           \/ \E ch \in {"stdin", "ctrl"} : Subscribed(ch)
           \/ NextWindow \/ PendingExpires \/ PostClose \/ PostKill \/ DeliverChunk \/ DeliverControl
           \/ ParkedControl \/ Started \/ PumpChunk \/ PumpClose \/ PumpKill \/ DrainChunk \/ PumpStops
           \/ WriteFails \/ Read \/ Ends
  BY <1>4
     DEF Quiet, Post, RateCheck, CapCheck, CapUnanswered, Undo, UndoFails, NextWindow, PendingExpires, PostClose, PostKill, PublishControl,
         Subscribed, DeliverChunk, DeliverControl, ParkedControl, Started, PumpChunk, PumpClose, PumpKill,
         DrainChunk, TakeChunk, PumpStops, WriteFails, Read, Ends
<1> QED
  BY <1>1, <1>2, <1>3, <1>4, <1>5 DEF Next, Request, RequestFails, Quiet, Pump

\* The whole path, from the PUBLISH of any API replica to the pipe, gives the
\* program an in-order part of what was accepted, and closes its input once.
THEOREM RefinesInputStream == Spec => ImplementsInputStream
<1>1. Init => Stream!Init
  BY DEF Init, Stream!Init
<1>2. PathInv /\ [Next]_vars => [Stream!Next]_(Stream!streamVars)
  BY StreamStep DEF Stream!streamVars, vars, netVars, pumpVars, progVars
<1> QED
  BY <1>1, <1>2, Invariance, PTL DEF Spec, ImplementsInputStream, Stream!Spec

(***************************************************************************)
(* The pending counter.  The bytes of a set of chunks are counted one by   *)
(* one, so that a chunk more is its size more.                             *)
(***************************************************************************)

Content(S) == UNION {{c} \X (1 .. Size[c]) : c \in S}

\* A chunk has as many bytes as its size says.
LEMMA ContentOfOne ==
  ASSUME NEW c \in Chunks
  PROVE  IsFiniteSet({c} \X (1 .. Size[c])) /\ Cardinality({c} \X (1 .. Size[c])) = Size[c]
<1>0. Size[c] \in Nat
  BY ChunksAssumption
<1>1. IsFiniteSet({c}) /\ Cardinality({c}) = 1
  BY FS_Singleton
<1>2. IsFiniteSet(1 .. Size[c]) /\ Cardinality(1 .. Size[c]) = Size[c]
  BY <1>0, FS_Interval
<1>3. /\ IsFiniteSet({c} \X (1 .. Size[c]))
      /\ Cardinality({c} \X (1 .. Size[c])) = Cardinality({c}) * Cardinality(1 .. Size[c])
  BY <1>1, <1>2, FS_Product, Zenon
<1>4. 1 * Size[c] = Size[c]
  BY <1>0
<1> QED
  BY <1>1, <1>2, <1>3, <1>4, Zenon

\* Finitely many chunks have finitely many bytes.
LEMMA ContentFinite ==
  ASSUME NEW S \in SUBSET Chunks
  PROVE  IsFiniteSet(Content(S)) /\ Bytes(S) \in Nat
<1> DEFINE parts == {{c} \X (1 .. Size[c]) : c \in S}
           f == [c \in S |-> {c} \X (1 .. Size[c])]
<1>1. IsFiniteSet(S)
  BY ChunksAssumption, FS_Subset
<1>2. f \in Surjection(S, parts)
  <2>1. f \in [S -> parts] /\ \A t \in parts : \E c \in S : f[c] = t
    OBVIOUS
  <2> QED
    BY <2>1 DEF Surjection
<1>3. \A T \in parts : IsFiniteSet(T)
  <2> SUFFICES ASSUME NEW c \in S PROVE IsFiniteSet({c} \X (1 .. Size[c]))
    OBVIOUS
  <2>1. c \in Chunks
    OBVIOUS
  <2> QED
    BY <2>1, ContentOfOne
<1> HIDE DEF f, parts
<1>4. IsFiniteSet(parts)
  BY <1>1, <1>2, FS_Surjection
<1>5. IsFiniteSet(UNION parts)
  BY <1>3, <1>4, FS_UNION
<1> QED
  BY <1>5, FS_CardinalityType DEF parts, Content, Bytes

\* The counter at nothing, with one chunk more, and of a part.
LEMMA BytesFacts ==
  /\ Bytes({}) = 0
  /\ \A S \in SUBSET Chunks, c \in Chunks : c \notin S => Bytes(S \cup {c}) = Bytes(S) + Size[c]
  /\ \A S, T \in SUBSET Chunks : S \subseteq T => Bytes(S) <= Bytes(T)
<1>1. Bytes({}) = 0
  <2>1. UNION {{c} \X (1 .. Size[c]) : c \in {}} = {}
    OBVIOUS
  <2> QED
    BY <2>1, FS_EmptySet DEF Bytes
<1>2. ASSUME NEW S \in SUBSET Chunks, NEW c \in Chunks, c \notin S
      PROVE  Bytes(S \cup {c}) = Bytes(S) + Size[c]
  <2> DEFINE own == {c} \X (1 .. Size[c])
  <2>1. Content(S \cup {c}) = Content(S) \cup own
    BY DEF Content
  <2>2. Content(S) \cap own = {}
    <3> SUFFICES ASSUME NEW u \in Content(S), u \in own PROVE FALSE
      OBVIOUS
    <3>1. PICK b \in S : u \in {b} \X (1 .. Size[b])
      BY DEF Content
    <3>2. u[1] = b /\ u[1] = c
      BY <3>1
    <3> QED
      BY <1>2, <3>2
  <2>3. IsFiniteSet(Content(S)) /\ Cardinality(Content(S)) \in Nat
    BY ContentFinite DEF Bytes, Content
  <2>4. IsFiniteSet(own) /\ Cardinality(own) = Size[c] /\ Size[c] \in Nat
    BY ContentOfOne, ChunksAssumption
  <2> HIDE DEF own
  <2>5. Cardinality(Content(S) \cup own) = Cardinality(Content(S)) + Cardinality(own) - Cardinality({})
    BY <2>2, <2>3, <2>4, FS_Union
  <2>6. Cardinality({}) = 0
    BY FS_EmptySet
  <2>7. Cardinality(Content(S) \cup own) = Cardinality(Content(S)) + Size[c]
    BY <2>3, <2>4, <2>5, <2>6
  <2> QED
    BY <2>1, <2>7 DEF Content, Bytes
<1>3. ASSUME NEW S \in SUBSET Chunks, NEW T \in SUBSET Chunks, S \subseteq T
      PROVE  Bytes(S) <= Bytes(T)
  <2>1. Content(S) \subseteq Content(T)
    BY <1>3 DEF Content
  <2>2. IsFiniteSet(Content(T))
    BY ContentFinite
  <2>3. Cardinality(Content(S)) <= Cardinality(Content(T))
    BY <2>1, <2>2, FS_Subset
  <2> QED
    BY <2>3 DEF Content, Bytes
<1> QED
  BY <1>1, <1>2, <1>3

\* The counter is exact, and a chunk that is to be taken back is in it.
CapInv ==
  /\ req \in [Chunks -> TheStages]
  /\ pending = Bytes(Charged) /\ Bytes(Admitted) <= ByteCap
  /\ \A c \in Chunks : req[c] = "undo" => c \notin forgiven

\* INCRBY charges the chunk: it is published only if the total it has made fits
\* the cap, and what was accepted is a part of that total.
LEMMA CapChecked ==
  ASSUME CapInv, NEW c \in Chunks, CapCheck(c)
  PROVE  CapInv'
<1>1. /\ req[c] = "cap" /\ pending' = pending + Size[c] /\ forgiven' = forgiven \ {c}
      /\ req' = [req EXCEPT ![c] = IF pending' > ByteCap THEN "undo" ELSE "publish"]
      /\ req \in [Chunks -> TheStages]
  BY DEF CapCheck, CapInv
<1>0. UNCHANGED unchecked
  BY DEF CapCheck
<1>2. req' \in [Chunks -> TheStages] /\ \A b \in Chunks \ {c} : req'[b] = req[b]
  BY <1>1 DEF TheStages
<1>3. /\ req'[c] \in {"undo", "publish"}
      /\ req'[c] = "publish" => ~(pending' > ByteCap)
  BY <1>1
<1>4. /\ Charged \in SUBSET Chunks /\ c \notin Charged /\ Charged' = Charged \cup {c}
  BY <1>1, <1>2, <1>3 DEF Charged
<1>5. pending' = Bytes(Charged')
  <2>1. Bytes(Charged \cup {c}) = Bytes(Charged) + Size[c]
    BY <1>4, BytesFacts
  <2>2. pending = Bytes(Charged)
    BY DEF CapInv
  <2>3. pending' = Bytes(Charged \cup {c})
    BY <1>1, <2>1, <2>2
  <2> QED
    BY <1>4, <2>3
<1>6. Bytes(Admitted') <= ByteCap
  <2>1. CASE req'[c] = "undo"
    <3>1. Admitted' = Admitted
      BY <1>0, <1>1, <1>2, <1>4, <2>1 DEF Admitted
    <3> QED
      BY <3>1 DEF CapInv
  <2>2. CASE req'[c] = "publish"
    <3>1. Admitted' \in SUBSET Chunks /\ Charged' \in SUBSET Chunks /\ Admitted' \subseteq Charged'
      BY <1>4 DEF Admitted
    <3>2. Bytes(Admitted') \in Nat /\ Bytes(Charged') \in Nat /\ Bytes(Admitted') <= Bytes(Charged')
      BY <3>1, BytesFacts, ContentFinite
    <3>3. Bytes(Charged') <= ByteCap
      BY <1>3, <1>5, <2>2, <3>2, BoundsAssumption
    <3> QED
      BY <3>2, <3>3, BoundsAssumption
  <2> QED
    BY <1>3, <2>1, <2>2
<1>7. \A b \in Chunks : req'[b] = "undo" => b \notin forgiven'
  BY <1>1, <1>2 DEF CapInv
<1> QED
  BY <1>2, <1>5, <1>6, <1>7 DEF CapInv

\* The take-back of a refused chunk takes what was charged for it.
LEMMA CapUndone ==
  ASSUME CapInv, NEW c \in Chunks, Undo(c)
  PROVE  CapInv'
<1>1. /\ req[c] = "undo" /\ pending' = pending - Size[c] /\ forgiven' = forgiven
      /\ req' = [req EXCEPT ![c] = "refused"] /\ req \in [Chunks -> TheStages]
  BY DEF Undo, CapInv
<1>0. UNCHANGED unchecked
  BY DEF Undo
<1>2. /\ req' \in [Chunks -> TheStages] /\ \A b \in Chunks \ {c} : req'[b] = req[b]
      /\ req'[c] = "refused"
  BY <1>1 DEF TheStages
<1>3. /\ Charged' \in SUBSET Chunks /\ c \notin Charged' /\ Charged = Charged' \cup {c}
  BY <1>1, <1>2 DEF Charged, CapInv
<1>4. Admitted' = Admitted
  BY <1>0, <1>1, <1>2, <1>3 DEF Admitted
<1>5. pending' = Bytes(Charged')
  <2>1. Bytes(Charged' \cup {c}) = Bytes(Charged') + Size[c] /\ Bytes(Charged') \in Nat /\ Size[c] \in Nat
    BY <1>3, BytesFacts, ContentFinite, ChunksAssumption
  <2>2. pending = Bytes(Charged' \cup {c})
    BY <1>3 DEF CapInv
  <2> QED
    BY <1>1, <2>1, <2>2
<1> QED
  BY <1>1, <1>2, <1>4, <1>5 DEF CapInv

\* A chunk whose INCRBY was not answered is not measured; it is charged, or it
\* is not in the counter.
LEMMA CapNotAnswered ==
  ASSUME CapInv, NEW c \in Chunks, CapUnanswered(c)
  PROVE  CapInv'
<1>1. /\ req[c] = "cap" /\ req \in [Chunks -> TheStages]
      /\ req' = [req EXCEPT ![c] = "publish"] /\ unchecked' = unchecked \cup {c}
  BY DEF CapUnanswered, CapInv
<1>2. /\ req' \in [Chunks -> TheStages] /\ \A b \in Chunks \ {c} : req'[b] = req[b]
      /\ req'[c] = "publish"
  BY <1>1 DEF TheStages
<1>3. CASE pending' = pending + Size[c] /\ forgiven' = forgiven \ {c}
  <2>1. Charged \in SUBSET Chunks /\ c \notin Charged /\ Charged' = Charged \cup {c}
    BY <1>1, <1>2, <1>3 DEF Charged
  <2>2. Admitted' = Admitted
    BY <1>1, <1>2, <2>1 DEF Admitted
  <2>3. Bytes(Charged \cup {c}) = Bytes(Charged) + Size[c]
    BY <2>1, BytesFacts
  <2>4. pending' = Bytes(Charged')
    BY <1>3, <2>1, <2>3 DEF CapInv
  <2> QED
    BY <1>2, <1>3, <2>2, <2>4 DEF CapInv
<1>4. CASE pending' = pending /\ forgiven' = forgiven \cup {c}
  <2>1. Charged' = Charged
    BY <1>1, <1>2, <1>4 DEF Charged
  <2>2. Admitted' = Admitted
    BY <1>1, <1>2, <2>1 DEF Admitted
  <2> QED
    BY <1>2, <1>4, <2>1, <2>2 DEF CapInv
<1> QED
  BY <1>3, <1>4 DEF CapUnanswered

\* A take-back that was done, but whose answer was lost.
LEMMA CapUndoneUnanswered ==
  ASSUME CapInv, NEW c \in Chunks, UndoFails(c), pending' = pending - Size[c], forgiven' = forgiven \cup {c}
  PROVE  CapInv'
<1>1. /\ req[c] = "undo" /\ req \in [Chunks -> TheStages]
      /\ req' = [req EXCEPT ![c] = "charged"] /\ UNCHANGED unchecked
  BY DEF UndoFails, CapInv
<1>2. /\ req' \in [Chunks -> TheStages] /\ \A b \in Chunks \ {c} : req'[b] = req[b]
      /\ req'[c] = "charged"
  BY <1>1 DEF TheStages
<1>3. /\ Charged' \in SUBSET Chunks /\ c \notin Charged' /\ Charged = Charged' \cup {c}
  BY <1>1, <1>2 DEF Charged, CapInv
<1>4. Admitted' = Admitted
  BY <1>1, <1>2, <1>3 DEF Admitted
<1>5. pending' = Bytes(Charged')
  <2>1. Bytes(Charged' \cup {c}) = Bytes(Charged') + Size[c] /\ Bytes(Charged') \in Nat /\ Size[c] \in Nat
    BY <1>3, BytesFacts, ContentFinite, ChunksAssumption
  <2>2. pending = Bytes(Charged' \cup {c})
    BY <1>3 DEF CapInv
  <2> QED
    BY <2>1, <2>2
<1>6. \A b \in Chunks : req'[b] = "undo" => b \notin forgiven'
  BY <1>2 DEF CapInv
<1> QED
  BY <1>2, <1>4, <1>5, <1>6 DEF CapInv

\* An expired counter forgives what it held; nothing else touches it.
LEMMA CapStep ==
  ASSUME CapInv, Next
  PROVE  CapInv'
<1>1. ASSUME UNCHANGED <<pending, forgiven, unchecked>>, req' \in [Chunks -> TheStages],
             \A c \in Chunks : \/ req'[c] = req[c]
                               \/ {req[c], req'[c]} \subseteq {"none", "rate", "cap", "refused"}
                               \/ req[c] = "publish" /\ req'[c] \in {"accepted", "failed"}
                               \/ req[c] = "undo" /\ req'[c] = "charged"
      PROVE  CapInv'
  <2>1. Charged' = Charged /\ Admitted' = Admitted
    BY <1>1 DEF Charged, Admitted
  <2>2. \A c \in Chunks : req'[c] = "undo" => req[c] = "undo"
    BY <1>1
  <2> QED
    BY <1>1, <2>1, <2>2 DEF CapInv
<1>2. ASSUME NEW c \in Chunks, Post(c) \/ RateCheck(c) \/ Publish(c) \/ PublishFails(c)
      PROVE  CapInv'
  BY <1>1, <1>2 DEF Post, RateCheck, Publish, PublishFails, CapInv, TheStages
<1>6. ASSUME NEW c \in Chunks, UndoFails(c) PROVE CapInv'
  <2>1. CASE UNCHANGED <<pending, forgiven>>
    BY <1>1, <1>6, <2>1 DEF UndoFails, CapInv, TheStages
  <2> QED
    BY <1>6, <2>1, CapUndoneUnanswered DEF UndoFails
<1>3. CASE PendingExpires
  <2>1. /\ pending' = 0 /\ forgiven' = forgiven \cup Charged /\ req' = req
        /\ \A c \in Charged : req[c] \notin {"undo", "publish"}
    BY <1>3 DEF PendingExpires
  <2>2. Charged' = {}
    BY <2>1 DEF Charged
  <2>3. Admitted' = {}
    BY <2>2 DEF Admitted
  <2>4. \A c \in Chunks : req'[c] # "undo"
    BY <2>1 DEF Charged, CapInv
  <2> QED
    BY <2>1, <2>2, <2>3, <2>4, BytesFacts, BoundsAssumption DEF CapInv
<1>4. CASE UNCHANGED <<req, pending, forgiven, unchecked>>
  BY <1>1, <1>4 DEF CapInv
<1>5. ASSUME ~ \E c \in Chunks : Post(c) \/ Request(c) \/ RequestFails(c), ~PendingExpires
      PROVE  UNCHANGED <<req, pending, forgiven, unchecked>>
  BY <1>5 DEF Next, NextWindow, PostClose, PostKill, PublishControl, Subscribed, DeliverChunk,
              DeliverControl, ParkedControl, Started, Pump, WriteFails, PumpChunk, PumpClose, PumpKill, DrainChunk,
              TakeChunk, DrainDone, WriteDone, PumpStops, Read, Ends,
              apiVars, clientVars, netVars, chanVars, pumpVars, progVars
<1> QED
  BY <1>2, <1>3, <1>4, <1>5, <1>6, CapChecked, CapUndone, CapNotAnswered DEF Request, RequestFails

\* However many requests are between their INCRBY and what follows, and however
\* they fail, the counter is the bytes of what passed, of what is being decided
\* and of what could not be taken back; and what was measured and passed since
\* it last expired fits the cap.
THEOREM CapHolds == Spec => []CapIsKept
<1>1. Init => CapInv
  <2> SUFFICES ASSUME Init PROVE CapInv
    OBVIOUS
  <2>1. req = [c \in Chunks |-> "none"] /\ pending = 0
    BY DEF Init
  <2>2. Charged = {} /\ Admitted = {}
    BY <2>1 DEF Charged, Admitted
  <2> QED
    BY <2>1, <2>2, BytesFacts, BoundsAssumption DEF CapInv, TheStages
<1>2. CapInv /\ [Next]_vars => CapInv'
  <2> SUFFICES ASSUME CapInv, [Next]_vars PROVE CapInv'
    OBVIOUS
  <2>1. CASE UNCHANGED vars
    BY <2>1 DEF vars, apiVars, CapInv, Charged, Admitted
  <2> QED
    BY <2>1, CapStep
<1>3. CapInv => CapIsKept
  BY DEF CapInv, CapIsKept, Admitted
<1> QED
  BY <1>1, <1>2, <1>3, PTL DEF Spec

(***************************************************************************)
(* The types.                                                              *)
(***************************************************************************)

\* The types that neither the line nor the counter needs.
OtherTypes ==
  /\ frames \in Nat /\ forgiven \subseteq Chunks /\ unchecked \subseteq Chunks
  /\ closeReq \in BOOLEAN /\ killReq \in BOOLEAN /\ killed \in BOOLEAN
  /\ sub \subseteq {"stdin", "ctrl"} /\ lost \subseteq Chunks
  /\ read <= Len(input)

\* Every step keeps them; what was read was written before.
LEMMA OtherTypesStep ==
  ASSUME Base, OtherTypes, Next
  PROVE  OtherTypes'
<1> USE DEF OtherTypes, apiVars, clientVars, netVars, chanVars, pumpVars, progVars
<1>0. /\ stdinWire \in Seq(Chunks) /\ input \in Seq(Chunks) /\ read \in Nat /\ Len(input) \in Nat
      /\ FrameLimit \in Nat
  BY LenProperties, BoundsAssumption DEF Base, StreamTypes
<1>1. ASSUME NEW c \in Chunks, RateCheck(c) PROVE OtherTypes'
  BY <1>0, <1>1 DEF RateCheck, Counted
<1>2. ASSUME NEW c \in Chunks, Post(c) \/ CapCheck(c) \/ CapUnanswered(c) \/ Undo(c) \/ UndoFails(c)
      PROVE  OtherTypes'
  BY <1>2 DEF Post, CapCheck, CapUnanswered, Undo, UndoFails
<1>10. ASSUME NEW c \in Chunks, Publish(c) \/ PublishFails(c) PROVE OtherTypes'
  <2>1. lost' \subseteq Chunks
    BY <1>10 DEF Publish, PublishFails, Published
  <2> QED
    BY <1>10, <2>1 DEF Publish, PublishFails
<1>11. CASE WriteFails
  <2>1. writing \subseteq Chunks
    BY DEF Base, WritingOne
  <2> QED
    BY <1>11, <2>1 DEF WriteFails
<1>3. CASE DeliverChunk
  <2>1. Head(stdinWire) \in Chunks
    BY <1>0, <1>3, ToSetTail DEF DeliverChunk
  <2> QED
    BY <1>3, <2>1 DEF DeliverChunk
<1>4. CASE WriteDone
  <2>1. PICK c \in Chunks : writing = {c}
    BY <1>4 DEF Base, WritingOne, Writing, WriteDone
  <2>2. PICK b \in Chunks : input' = Append(input, b)
    BY <1>4, <2>1 DEF WriteDone
  <2>3. Len(input') = Len(input) + 1
    BY <1>0, <2>2, AppendProperties
  <2> QED
    BY <1>0, <1>4, <2>3 DEF WriteDone
<1>5. CASE Read
  BY <1>0, <1>5 DEF Read
<1>6. ASSUME NEW ch \in {"stdin", "ctrl"}, Subscribed(ch) PROVE OtherTypes'
  BY <1>6 DEF Subscribed
<1>7. CASE PendingExpires
  BY <1>7 DEF PendingExpires, Charged
<1>8. CASE NextWindow \/ PostClose \/ PostKill
  <2>1. CASE NextWindow
    BY <2>1 DEF NextWindow
  <2>2. CASE PostClose \/ PostKill
    <3>1. UNCHANGED <<frames, forgiven, unchecked, sub, lost, killed, input, read>>
      BY <2>2 DEF PostClose, PostKill, PublishControl
    <3>2. closeReq' \in BOOLEAN /\ killReq' \in BOOLEAN
      BY <2>2 DEF PostClose, PostKill
    <3> QED
      BY <3>1, <3>2
  <2> QED
    BY <1>8, <2>1, <2>2
<1>9. CASE \/ DeliverControl \/ ParkedControl \/ Started \/ PumpChunk \/ PumpClose \/ PumpKill
           \/ DrainChunk \/ DrainDone \/ PumpStops \/ Ends
  <2>1. UNCHANGED <<frames, forgiven, unchecked, closeReq, killReq, sub, lost, input, read>>
    BY <1>9 DEF DeliverControl, ParkedControl, Started, PumpChunk, PumpClose, PumpKill, DrainChunk, TakeChunk,
                DrainDone, PumpStops, Ends
  <2>2. killed' \in BOOLEAN
    BY <1>9 DEF DeliverControl, ParkedControl, Started, PumpChunk, PumpClose, PumpKill, DrainChunk, TakeChunk,
                DrainDone, PumpStops, Ends
  <2> QED
    BY <2>1, <2>2
<1> QED
  BY <1>1, <1>2, <1>3, <1>4, <1>5, <1>6, <1>7, <1>8, <1>9, <1>10, <1>11 DEF Next, Request, RequestFails, Quiet, Pump

\* Every variable of the API, the worker and the pipe keeps its type; with the
\* counter exact, the take-back never makes it negative.
THEOREM TypeCorrect == Spec => []TypeOK
<1>1. Init => OtherTypes
  <2> SUFFICES ASSUME Init PROVE OtherTypes
    OBVIOUS
  <2>1. frames = 0 /\ forgiven = {} /\ unchecked = {} /\ sub = {} /\ lost = {}
    BY DEF Init
  <2>2. ~closeReq /\ ~killReq /\ ~killed /\ closeReq \in BOOLEAN /\ killReq \in BOOLEAN /\ killed \in BOOLEAN
    BY DEF Init
  <2>3. read <= Len(input)
    <3>1. Len(<< >>) = 0
      BY EmptySeq
    <3> QED
      BY <3>1 DEF Init
  <2> QED
    BY <2>1, <2>2, <2>3 DEF OtherTypes
<1>2. PathInv /\ OtherTypes /\ [Next]_vars => OtherTypes'
  <2> SUFFICES ASSUME PathInv, OtherTypes, [Next]_vars PROVE OtherTypes'
    OBVIOUS
  <2>1. CASE UNCHANGED vars
    BY <2>1 DEF vars, apiVars, clientVars, netVars, chanVars, pumpVars, progVars, OtherTypes
  <2> QED
    BY <2>1, OtherTypesStep DEF PathInv
<1>3. PathInv /\ OtherTypes /\ CapIsKept => TypeOK
  <2> SUFFICES ASSUME PathInv, OtherTypes, CapIsKept PROVE TypeOK
    OBVIOUS
  <2>1. pending \in Nat
    <3>1. Charged \in SUBSET Chunks
      BY DEF Charged
    <3> QED
      BY <3>1, ContentFinite DEF CapIsKept
  <2>2. /\ req \in [Chunks -> TheStages]
        /\ published \in Seq(Chunks) /\ stdinWire \in Seq(Chunks) /\ stdinCh \in Seq(Chunks)
        /\ ctrlWire \in Seq(Controls) /\ ctrlCh \in Seq(Controls)
        /\ input \in Seq(Chunks) /\ read \in Nat
        /\ pump \in PumpStages /\ eof \in BOOLEAN /\ over \in BOOLEAN
    BY DEF PathInv, Base, StreamTypes
  <2>3. writing \subseteq Chunks
    BY DEF PathInv, Base, WritingOne
  <2>4. read \in 0 .. Len(input)
    BY <2>2, LenProperties DEF OtherTypes
  <2> QED
    BY <2>1, <2>2, <2>3, <2>4 DEF TypeOK, OtherTypes, Controls
<1> QED
  BY <1>1, <1>2, <1>3, Invariance, CapHolds, PTL DEF Spec

===========================================================================

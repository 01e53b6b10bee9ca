--------------------------- MODULE JobLifecycle ---------------------------
(***************************************************************************)
(* What the service promises a client about one job, whatever worker runs  *)
(* it: the status the API serves moves from "queued" through at most one   *)
(* "running" to one final state and never leaves it, and the single result *)
(* event is out before the final state can be read -- or, where soketi may *)
(* refuse it, was tried and is lost.  Worker.tla implements this           *)
(* specification.                                                          *)
(***************************************************************************)

CONSTANTS
  Jobs,
  Lossy      \* whether soketi may refuse an event

VARIABLES
  status,    \* [Jobs -> State], the record GET /v1/jobs/:id serves
  resulted,  \* the jobs whose result event has been published
  lost       \* the jobs whose result event was refused

lifecycleVars == <<status, resulted, lost>>

Final == {"done", "error", "killed"}
Live  == {"absent", "queued", "running"}   \* "absent": no record was written
State == Live \cup Final

Init ==
  /\ status = [j \in Jobs |-> "absent"]
  /\ resulted = {} /\ lost = {}

\* The one attempt to publish the result is over.
Tried(j) == j \in resulted \cup lost

\* POST /v1/execute.
Submit(j) ==
  /\ status[j] = "absent"
  /\ ~Tried(j)
  /\ status' = [status EXCEPT ![j] = "queued"]
  /\ UNCHANGED <<resulted, lost>>

\* The status key of a job nobody ran reaches its TTL.
Expire(j) ==
  /\ status[j] = "queued"
  /\ ~Tried(j)
  /\ status' = [status EXCEPT ![j] = "absent"]
  /\ UNCHANGED <<resulted, lost>>

\* The program was started.
Begin(j) ==
  /\ status[j] \in {"absent", "queued"}
  /\ ~Tried(j)
  /\ status' = [status EXCEPT ![j] = "running"]
  /\ UNCHANGED <<resulted, lost>>

\* The one terminal event, or its loss.
Publish(j) ==
  /\ status[j] \in Live
  /\ ~Tried(j)
  /\ \/ resulted' = resulted \cup {j} /\ UNCHANGED lost
     \/ Lossy /\ lost' = lost \cup {j} /\ UNCHANGED resulted
  /\ UNCHANGED status

\* The final state is readable only after the event, and a program that was
\* seen running ends as done or error.
Settle(j, s) ==
  /\ Tried(j)
  /\ status[j] \in Live
  /\ s = "killed" => status[j] # "running"
  /\ status' = [status EXCEPT ![j] = s]
  /\ UNCHANGED <<resulted, lost>>

Next ==
  \E j \in Jobs :
    \/ Submit(j) \/ Expire(j) \/ Begin(j) \/ Publish(j)
    \/ \E s \in Final : Settle(j, s)

Spec == Init /\ [][Next]_lifecycleVars

===========================================================================

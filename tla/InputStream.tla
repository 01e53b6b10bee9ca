---------------------------- MODULE InputStream ----------------------------
(***************************************************************************)
(* What the stdin path promises a program about its input: the chunks it   *)
(* gets are among those the API has accepted, each at most once and in the *)
(* order in which they were accepted, and nothing follows the end of file. *)
(* Chunks may be missing: Pub/Sub and a full channel drop.  StdinPath      *)
(* implements this specification.                                          *)
(***************************************************************************)
EXTENDS Naturals, SequencesExt

CONSTANT Chunks

VARIABLES
  sent,    \* accepted chunks, in order
  input,   \* what the program was given
  closed   \* it was given end of file

streamVars == <<sent, input, closed>>

\* Where the program stands in `sent`; chunks are told apart.
Position == IF input = << >> THEN 0 ELSE CHOOSE i \in DOMAIN sent : sent[i] = Last(input)

Init == sent = << >> /\ input = << >> /\ closed = FALSE

Accept(c) ==
  /\ c \notin ToSet(sent)
  /\ sent' = Append(sent, c)
  /\ UNCHANGED <<input, closed>>

Deliver(i) ==
  /\ ~closed
  /\ i > Position
  /\ input' = Append(input, sent[i])
  /\ UNCHANGED <<sent, closed>>

EndOfFile == ~closed /\ closed' = TRUE /\ UNCHANGED <<sent, input>>

Next == (\E c \in Chunks : Accept(c)) \/ (\E i \in DOMAIN sent : Deliver(i)) \/ EndOfFile

Spec == Init /\ [][Next]_streamVars

===========================================================================

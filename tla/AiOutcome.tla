------------------------------ MODULE AiOutcome ------------------------------
(***************************************************************************)
(* What the event stream of an AI task promises to whoever watches it: an  *)
(* accepted task yields pieces of text until it is settled, it is settled  *)
(* once, and from then on neither its text nor its outcome changes.        *)
(***************************************************************************)
EXTENDS Naturals

CONSTANTS
  Task,     \* task ids
  Outcome,  \* the ways a task can end
  Undecided \* the outcome of a task that has not ended; not in Outcome

VARIABLES
  accepted,  \* the tasks whose stream exists
  pieces,    \* the positions of a task's pieces of text in its stream
  outcome    \* how it ended

vars == <<accepted, pieces, outcome>>

Init ==
  /\ accepted = {}
  /\ pieces = [t \in Task |-> {}]
  /\ outcome = [t \in Task |-> Undecided]

Accept(t) ==
  /\ t \notin accepted
  /\ accepted' = accepted \union {t}
  /\ UNCHANGED <<pieces, outcome>>

Produce(t) ==
  /\ t \in accepted
  /\ outcome[t] = Undecided
  /\ \E i \in pieces'[t] :
       /\ \A j \in pieces[t] : j < i
       /\ pieces' = [pieces EXCEPT ![t] = @ \union {i}]
  /\ UNCHANGED <<accepted, outcome>>

Settle(t, o) ==
  /\ t \in accepted
  /\ outcome[t] = Undecided
  /\ outcome' = [outcome EXCEPT ![t] = o]
  /\ UNCHANGED <<accepted, pieces>>

Next ==
  \E t \in Task : Accept(t) \/ Produce(t) \/ \E o \in Outcome : Settle(t, o)

Spec == Init /\ [][Next]_vars
=============================================================================

--------------------------- MODULE MCTaskLifecycle ---------------------------
(***************************************************************************)
(* TaskLifecycle on two worker threads.  Two Pickers and no death are      *)
(* enough to see what handlers do that run at once.  A third Picker, past  *)
(* the cap, the operator and a death of the daemon come in the behaviours  *)
(* whose handlers begin in order and only interleave at their awaits.      *)
(***************************************************************************)
EXTENDS TaskLifecycle

CONSTANTS t1

VARIABLE overlapping

runVars == <<lifecycleVars, overlapping>>

Born == {s \in SessionIds : sessions'[s] # "unborn"}

RunInit == LifecycleInit /\ overlapping \in BOOLEAN
RunNext ==
  /\ LifecycleNext
  /\ UNCHANGED overlapping
  /\ IF overlapping
     THEN /\ Born \intersect OperatorSessions = {}
          /\ Cardinality(Born) <= CONTINUATION_CAP
          /\ crashes' = 0
     ELSE /\ Cardinality({h \in handlers' : h.pc \in Holding}) <= 1
          /\ Len(inbox') = Len(inbox) - 1 => inbox' = Tail(inbox)
RunSpec == RunInit /\ [][RunNext]_runVars

\* Both halves always leave the daemon a step when it has one, so they take
\* no behaviour from its fairness.
FairRunSpec == RunSpec /\ Fairness

\* Continuations and first Pickers are interchangeable.
Symmetry == Permutations(SessionIds \ OperatorSessions)

MCKeys == {Key(msg) : msg \in Messages}
=============================================================================

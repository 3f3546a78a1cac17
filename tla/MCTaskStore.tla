----------------------------- MODULE MCTaskStore -----------------------------
(***************************************************************************)
(* One task and the messages of its life that touch every part of the      *)
(* store: the request, a session, a PR, a continuation.  Two daemons may   *)
(* take these at once; where one daemon is alone, a second Picker and the  *)
(* end of the first come as well, which may be stored after its successor. *)
(***************************************************************************)
EXTENDS TaskStore, TLC

CONSTANTS t1, s1, s2, p1, kRequested, kSpawned, kOpened, kContinue,
          kExited, kSpawned2

VARIABLE alone

Message(ev, key) == [task |-> t1, ev |-> ev, key |-> key]

SharedJournal ==
  {Message([type |-> "Requested"], kRequested),
   Message([type |-> "PickerAssigned", session |-> s1], kSpawned),
   Message([type |-> "PrOpened", pr |-> p1], kOpened),
   Message([type |-> "ContinuationRequested", phase |-> "PrePr"], kContinue)}

MCJournal ==
  SharedJournal \union
  {Message([type |-> "PickerSucceeded", session |-> s1], kExited),
   Message([type |-> "PickerAssigned", session |-> s2], kSpawned2)}

\* The processes that are at work after the step.
Busy == {p \in Procs : proc'[p] # Idle}

\* No key is collected and no snapshot outdated: the two daemons have that.
NoneOutdated == \A t \in Tasks : snaps'[t] # NoSnapshot => snaps'[t].readable

StoreRunInit == StoreInit /\ alone \in BOOLEAN
StoreRunNext ==
  /\ StoreNext
  /\ UNCHANGED alone
  /\ IF alone THEN (\A p, q \in Busy : p = q) /\ liveKeys \subseteq liveKeys' /\ NoneOutdated
     ELSE \A p \in Busy : proc'[p].env \in SharedJournal
StoreRunSpec == StoreRunInit /\ [][StoreRunNext]_<<storeVars, alone>>

Symmetry == Permutations(Procs)

\* With one daemon at a time the stream says what the journal said of the
\* living task (append_to_store, main.rs:297): two loads of one append see the
\* same database.
AloneMatchesJournal == alone => CardMatchesJournal
=============================================================================

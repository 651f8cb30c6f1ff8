--------------------------- MODULE AtLeastOnceLog ---------------------------
(***************************************************************************)
(* What the transfer pipeline of the scanner promises to the readers of    *)
(* token_transfer_events, stated without its channel, its pending slice,   *)
(* its batches and its timers: a log that is written from the oldest       *)
(* waiting event on, a few at a time, in which an event appears again only *)
(* because a write that took effect was reported as failed; then exactly   *)
(* the events of that write are written again, before any other.           *)
(*                                                                         *)
(* TransferWriter shows that the pipeline implements this log.             *)
(***************************************************************************)
EXTENDS Integers, Sequences, FiniteSets

CONSTANT Limit   \* events one write puts into the log at most

VARIABLES
  accepted,  \* the events handed over so far
  waiting,   \* those that are still to be written
  log,       \* what the readers see
  again,     \* events of a write that took effect and was reported as failed
  faults     \* such writes, and crashes, so far: without one nothing is lost
             \* and nothing is repeated

logVars == <<accepted, waiting, log, again, faults>>

(* Events are numbered in the order they were found. *)
Earlier(S, T) == \A x \in S, y \in T : x.id < y.id

(* The events of B, listed in their order. *)
Listings(B) ==
  {b \in [1..Cardinality(B) -> B] :
     \A i, j \in 1..Cardinality(B) : i < j => b[i].id < b[j].id}

Init ==
  /\ accepted = {} /\ waiting = {} /\ log = <<>> /\ again = {}
  /\ faults = 0

(* New events are handed over; they are younger than all before them. *)
Accept ==
  /\ accepted \subseteq accepted'
  /\ Earlier(accepted, accepted' \ accepted)
  /\ waiting' = waiting \union (accepted' \ accepted)
  /\ UNCHANGED <<log, again, faults>>

(* The oldest waiting events reach the log; those of a doubtful write      *)
(* first.                                                                  *)
Writes(B) ==
  /\ B # {} /\ Cardinality(B) <= Limit
  /\ Earlier(B, waiting \ B)
  /\ again \in {{}, B}
  /\ \E b \in Listings(B) : log' = log \o b

Store ==
  \E B \in SUBSET waiting :
    /\ Writes(B)
    /\ waiting' = waiting \ B /\ again' = {}
    /\ UNCHANGED <<accepted, faults>>

(* The reply is lost: nobody knows that the events are in the log. *)
StoreUnsure ==
  \E B \in SUBSET waiting :
    /\ Writes(B)
    /\ again' = B /\ faults' = faults + 1
    /\ UNCHANGED <<accepted, waiting>>

(* The process dies: what was waiting is never written. *)
Crash ==
  /\ waiting' = {} /\ again' = {} /\ faults' = faults + 1
  /\ UNCHANGED <<accepted, log>>

Next == Accept \/ Store \/ StoreUnsure \/ Crash

Spec == Init /\ [][Next]_logVars
=============================================================================

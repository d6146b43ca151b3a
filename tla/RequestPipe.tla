---------------------------- MODULE RequestPipe ----------------------------
(***************************************************************************)
(* What a polling request session promises its two ends, with no threads,  *)
(* locks, buffers or polls: two ordered pipes per session.  The uplink     *)
(* takes bodies from POSTs and hands them to the target one by one, in     *)
(* order, and may tell the target that the uplink ended only when nothing  *)
(* accepted is missing.  The downlink takes bytes from the target and      *)
(* hands them to the client in responses of bounded size, in order.        *)
(* Either pipe may stop early: the session can fail at any point.          *)
(***************************************************************************)
EXTENDS Naturals, Sequences

CONSTANTS Sessions, MaxResp

VARIABLES taken,     \* bodies accepted from clients
          target,    \* bodies the target received
          ended,     \* the target was told that the uplink is complete
          produced,  \* downlink bytes taken from the relay
          answered   \* downlink bytes clients received

pipeVars == <<taken, target, ended, produced, answered>>

PipeInit ==
    /\ taken = [s \in Sessions |-> 0]
    /\ target = [s \in Sessions |-> <<>>]
    /\ ended = [s \in Sessions |-> FALSE]
    /\ produced = [s \in Sessions |-> 0]
    /\ answered = [s \in Sessions |-> <<>>]

Take(s) ==
    /\ ~ended[s]
    /\ taken' = [taken EXCEPT ![s] = @ + 1]
    /\ UNCHANGED <<target, ended, produced, answered>>

Deliver(s) ==
    /\ ~ended[s]
    /\ Len(target[s]) < taken[s]
    /\ target' = [target EXCEPT ![s] = Append(@, Len(@) + 1)]
    /\ UNCHANGED <<taken, ended, produced, answered>>

End(s) ==
    /\ ~ended[s]
    /\ Len(target[s]) = taken[s]
    /\ ended' = [ended EXCEPT ![s] = TRUE]
    /\ UNCHANGED <<taken, target, produced, answered>>

Produce(s) ==
    /\ produced'[s] > produced[s]
    /\ produced' = [produced EXCEPT ![s] = produced'[s]]
    /\ UNCHANGED <<taken, target, ended, answered>>

Answer(s) ==
    \E k \in 1..MaxResp :
        /\ Len(answered[s]) + k <= produced[s]
        /\ answered' = [answered EXCEPT ![s] = @ \o [i \in 1..k |-> Len(@) + i]]
        /\ UNCHANGED <<taken, target, ended, produced>>

PipeNext == \E s \in Sessions :
    Take(s) \/ Deliver(s) \/ End(s) \/ Produce(s) \/ Answer(s)

PipeSpec == PipeInit /\ [][PipeNext]_pipeVars

=============================================================================

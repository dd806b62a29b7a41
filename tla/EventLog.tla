------------------------------ MODULE EventLog ------------------------------
(***************************************************************************)
(* What the event publisher of package events promises to a consumer of a  *)
(* PicoMQ stream (src/events/events.go:5-9, docs/EVENTS.md "Delivery"):    *)
(* every accepted event of a stream appears in the stream once, in the     *)
(* order in which it was accepted.  The events of a stream are numbered    *)
(* 1, 2, ... in the order of acceptance.                                   *)
(***************************************************************************)
EXTENDS Naturals, Sequences

CONSTANT Streams    \* the streams below /events/<producer>/

VARIABLES
    accepted,       \* accepted[s]: how many events of s were accepted so far
    log             \* log[s]: the records a consumer of s can read

vars == <<accepted, log>>

Init == /\ accepted = [s \in Streams |-> 0]
        /\ log = [s \in Streams |-> <<>>]

Accept(s) == /\ accepted' = [accepted EXCEPT ![s] = @ + 1]
             /\ UNCHANGED log

Publish(s) == /\ Len(log[s]) < accepted[s]
              /\ log' = [log EXCEPT ![s] = Append(@, Len(@) + 1)]
              /\ UNCHANGED accepted

Next == \E s \in Streams : Accept(s) \/ Publish(s)

Spec == Init /\ [][Next]_vars

(* An accepted event does not wait for ever. *)
FairSpec == Spec /\ \A s \in Streams : WF_vars(Publish(s))
=============================================================================

------------------------------ MODULE FleetView ------------------------------
(***************************************************************************)
(* What the control plane promises of its picture of the fleet, whatever   *)
(* sweeps, events, failures and joins produce it: for each gateway it is   *)
(* something that gateway did hold, it is never blanked once known, and it *)
(* catches up with a gateway that has stopped changing.  FleetSnapshot     *)
(* implements this module.                                                 *)
(***************************************************************************)
EXTENDS Integers

CONSTANTS Gateways, MaxVersion

VARIABLES
  truth,  \* changes made at each gateway
  view    \* how many of them the picture shows

vars == <<truth, view>>

Nothing == -1
Versions == 0..MaxVersion

Init == truth = [g \in Gateways |-> 0] /\ view = [g \in Gateways |-> Nothing]

Change(g) ==
  /\ truth[g] < MaxVersion /\ truth' = [truth EXCEPT ![g] = @ + 1]
  /\ UNCHANGED view

\* The picture of any gateways is replaced, by what they hold or held before.
Publish ==
  /\ view' \in [Gateways -> Versions \cup {Nothing}]
  /\ \A g \in Gateways : view'[g] = view[g] \/ view'[g] \in 0..truth[g]
  /\ UNCHANGED truth

Next == Publish \/ \E g \in Gateways : Change(g)

Spec == Init /\ [][Next]_vars

Converges == \A g \in Gateways : <>[](view[g] = truth[g])
=============================================================================

------------------------------ MODULE SlotPool ------------------------------
(***************************************************************************)
(* What SessionLimiter promises: at any time at most Limit sessions hold a   *)
(* slot, a session holds at most one, takes it only when one is free and     *)
(* gives it back itself; stats() shows how many hold one.  No tokens, no     *)
(* endpoints.                                                                *)
(***************************************************************************)
EXTENDS Naturals, FiniteSets

CONSTANTS Sessions, Limit

VARIABLES holders, active

Init == holders = {} /\ active = 0

Take(s) ==
  /\ s \notin holders
  /\ Cardinality(holders) < Limit
  /\ holders' = holders \cup {s}
  /\ active' = Cardinality(holders')

Give(s) ==
  /\ s \in holders
  /\ holders' = holders \ {s}
  /\ active' = Cardinality(holders')

Next == \E s \in Sessions : Take(s) \/ Give(s)

Spec == Init /\ [][Next]_<<holders, active>>
=============================================================================

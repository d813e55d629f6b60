------------------------------- MODULE Tally -------------------------------
(***************************************************************************)
(* What a load test reports: of the requests that were served some have    *)
(* been counted by the client.  Nothing is counted before it is served,    *)
(* and neither number ever goes down, however often counters are swapped.  *)
(***************************************************************************)
EXTENDS Naturals

VARIABLES served, counted

vars == <<served, counted>>

Init == served = 0 /\ counted = 0

Serve == served' = served + 1 /\ UNCHANGED counted

Count == counted < served /\ counted' = counted + 1 /\ UNCHANGED served

Spec == Init /\ [][Serve \/ Count]_vars
=============================================================================

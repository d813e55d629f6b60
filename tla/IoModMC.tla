------------------------------ MODULE IoModMC ------------------------------
(***************************************************************************)
(* iomod with a server of net/http before one of nbio, two rounds of tests *)
(* over the third kind of upgrade; and with the first two kinds at once.   *)
(***************************************************************************)
EXTENDS IoMod

MCPlans == {[addrs |-> <<"std", "nb">>, urls |-> <<"handleRead">>, rounds |-> 2],
            [addrs |-> <<"std">>, urls |-> <<"upgrade", "transfer">>, rounds |-> 1]}
=============================================================================

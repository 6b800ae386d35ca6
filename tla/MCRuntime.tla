----------------------------- MODULE MCRuntime -----------------------------
(* One reserved and two non-reserved validators, and one more account that *)
(* takes part when elections are open; eras of two sessions of two blocks. *)
EXTENDS Runtime

CONSTANTS r, a, b, c, k1, k2

MCReserved == <<r>>
MCNonReserved == <<a, b>>
MCLists == {[reserved |-> {r}, nonReserved |-> {a, b}],
            [reserved |-> {a}, nonReserved |-> {r, c}]}

TwoSeats == [reserved |-> 1, nonReserved |-> 1, finality |-> 1]
ThreeSeats == [reserved |-> 1, nonReserved |-> 2, finality |-> 1]
MCSeats == {TwoSeats, ThreeSeats}
============================================================================

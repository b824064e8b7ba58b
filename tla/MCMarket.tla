------------------------------ MODULE MCMarket ------------------------------
(***************************************************************************)
(* Model checking Market: one or two names, a seller and her buyers.       *)
(***************************************************************************)
EXTENDS Market

CONSTANTS n1, n2, alice, bob

(* The addresses are interchangeable: each has a receiver of its own. *)
OwnT1 == [a \in Addrs |-> a]

Symmetry == Permutations(Addrs)

Flat(p) == [dutch |-> FALSE, start_price |-> p, min_price |-> p, start |-> 0, end |-> 0]
Clock(p, q, s, e) ==
    [dutch |-> TRUE, start_price |-> p, min_price |-> q, start |-> s, end |-> e]

FlatAsk == Flat(5)
ClockAsk == Clock(7, 4, 2, 3)
BothAsks == {FlatAsk, ClockAsk}

(* One name sold at a flat price, long enough to fall due. *)
SaleScope ==
    [names |-> {n1}, asks |-> {FlatAsk}, codes |-> {1}, height |-> 5, time |-> 1,
     moves |-> {"update", "release"}, arrivals |-> 1, reorgs |-> 0, restarts |-> 0]

(* The same over a reorg. *)
ReorgScope ==
    [names |-> {n1}, asks |-> {FlatAsk}, codes |-> {1}, height |-> 4, time |-> 1,
     moves |-> {"update"}, arrivals |-> 1, reorgs |-> 1, restarts |-> 0]

(* One name under a falling clock, wrong answers, a reorg and a restart. *)
LogScope ==
    [names |-> {n1}, asks |-> {ClockAsk}, codes |-> {1, 2}, height |-> 4, time |-> 1,
     moves |-> {"release"}, arrivals |-> 1, reorgs |-> 1, restarts |-> 1]

(* Two names listed, bought and paid for in the same blocks. *)
NamesScope ==
    [names |-> {n1, n2}, asks |-> {FlatAsk}, codes |-> {1}, height |-> 4, time |-> 0,
     moves |-> {}, arrivals |-> 2, reorgs |-> 0, restarts |-> 0]

MarketScopes == {SaleScope, ReorgScope, LogScope, NamesScope}
=============================================================================

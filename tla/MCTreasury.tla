----------------------------- MODULE MCTreasury -----------------------------
(***************************************************************************)
(* Model checking Treasury.  One payment carries two claims; one carries   *)
(* two update requests of one name, of different terms; one two responses. *)
(***************************************************************************)
EXTENDS Treasury

CONSTANTS pair, intent, updates, guesses, answer

Claim(code) == [kind |-> "claim", name |-> "n", paid |-> 300, code |-> code]
Update(t) == [kind |-> "request", paid |-> 100,
              request |-> [name |-> "n", action |-> "update", ua |-> "u", term |-> t]]
Response(code) == [kind |-> "response", name |-> "n", action |-> "update", ua |-> "u",
                   code |-> code, paid |-> 300]
Other(kind) == [kind |-> kind, name |-> "n", paid |-> 300]

AllPayments ==
    (pair :> <<Claim("none"), Claim("wrong")>>) @@
    (intent :> <<Other("intent")>>) @@
    (answer :> <<Other("answer"), Other("unrecognized")>>) @@
    (updates :> <<Update(0), Update(1)>>) @@
    (guesses :> <<Response(1), Response(1)>>)

(* Refunds across a restart. *)
RefundScope ==
    [payments |-> {pair, intent}, height |-> 3, time |-> 0,
     reorgs |-> 0, restarts |-> 1, lost |-> FALSE]

(* Two claims of one payment across a reorg, over a connection that loses answers. *)
ReorgScope ==
    [payments |-> {pair}, height |-> 3, time |-> 0,
     reorgs |-> 1, restarts |-> 0, lost |-> TRUE]

(* Challenges of one name, guessed at, answered and expired. *)
OtpScope ==
    [payments |-> {updates, guesses}, height |-> 3, time |-> 1,
     reorgs |-> 0, restarts |-> 0, lost |-> FALSE]

(* Days that pass, with a refund that may hold the sweep up. *)
SweepScope ==
    [payments |-> {answer}, height |-> 3, time |-> 2,
     reorgs |-> 0, restarts |-> 1, lost |-> FALSE]

TreasuryScopes == {RefundScope, ReorgScope, OtpScope, SweepScope}
=============================================================================

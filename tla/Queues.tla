------------------------------- MODULE Queues -------------------------------
(***************************************************************************)
(* What the mint's queues have in common.  The entries to retain are named *)
(* by their places: SelectSeq takes them by an operator, which the provers *)
(* cannot open.                                                            *)
(***************************************************************************)
EXTENDS Integers, Sequences

(* Vec::retain: the entries at these places, in their order *)
Retain(queue, places) ==
    LET upto[k \in 0 .. Len(queue)] ==
          IF k = 0 THEN << >>
          ELSE IF k \in places THEN Append(upto[k - 1], queue[k])
          ELSE upto[k - 1]
    IN  upto[Len(queue)]
=============================================================================

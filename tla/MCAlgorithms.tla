---------------------------- MODULE MCAlgorithms ----------------------------
(***************************************************************************)
(* Model checking the arithmetic of Clock and the grammars of Memos over   *)
(* bounded inputs.  The two share no state: a behaviour is that of a       *)
(* chain, with no memo, or that of a memo, with a chain that stands still. *)
(***************************************************************************)
EXTENDS Clock, Memos

NoMemo == memo = << >> /\ sent = [kind |-> "nothing"] /\ edits = 0

StillChain ==
    /\ headers = <<0>> /\ records = <<Unclaimed>> /\ order = Nothing /\ peak = 0
    /\ ask = [start_price |-> Max(Prices), min_price |-> Min(Prices),
              start |-> WINDOW, end |-> Max(Ends)]

Init == (ClockInit /\ NoMemo) \/ (StillChain /\ MemoInit)

Next ==
    \/ sent.kind = "nothing" /\ ClockNext /\ UNCHANGED memoVars
    \/ sent.kind # "nothing" /\ MemoNext /\ UNCHANGED clockVars

Spec == Init /\ [][Next]_<<clockVars, memoVars>>
=============================================================================

------------------------------ MODULE Treasury ------------------------------
(***************************************************************************)
(* The money of the mint: what each payment to the Treasury becomes.       *)
(* Requests are queued as their block is applied and decided at the tip;   *)
(* OTP responses are ruled on in their block; refunds are queued, built    *)
(* one block later and submitted to a node whose answers may be lost; and  *)
(* a new day sweeps the Treasury to the vault (src/main.rs,                *)
(* src/mint/treasury.rs, src/mint/treasury/refund.rs, src/zcash/submit.rs).*)
(*                                                                         *)
(* What the Registry, the market, the oracle and the wallet answer is a    *)
(* free choice here: Registry, Market, MintOrders and Wallet model them.   *)
(* The node has a chain of its own, which grows and reorganizes while the  *)
(* mint waits for an answer.                                               *)
(***************************************************************************)
EXTENDS OtpQueue, FiniteSets

CONSTANTS
    Payments,       \* transactions that pay the Treasury
    MemosOf,        \* the memos of each, in output order
    Codes,          \* what a one-time code is drawn from
    Prices,         \* what the oracle may quote
    Fees,           \* marginal fees the node may report
    FEE_ACTIONS,    \* actions withheld from a refund
    DAY,            \* length of a day
    Delta,          \* blocks until a refund transaction expires
    Scopes          \* bounds: what the behaviours explored may contain

Kinds == {"claim", "request", "response", "intent", "answer", "unrecognized"}

ASSUME TreasuryAssumption ==
    /\ IsFiniteSet(Payments)
    /\ \A p \in Payments :
         /\ Len(MemosOf[p]) \in Nat /\ DOMAIN MemosOf[p] = 1 .. Len(MemosOf[p])
         /\ \A i \in DOMAIN MemosOf[p] : MemosOf[p][i].kind \in Kinds /\ MemosOf[p][i].paid \in Nat
    /\ Fees # {} /\ Fees \subseteq Nat \ {0}
    /\ Prices \subseteq Nat \ {0}
    /\ {DAY, Delta} \subseteq Nat \ {0}
    /\ FEE_ACTIONS \in Nat
    /\ Scopes \subseteq [payments : SUBSET Payments,  \* payments mined
                         height : Nat,                \* the longest chain
                         time : Nat,                  \* the latest median
                         reorgs : Nat,                \* reorgs of the node
                         restarts : Nat,              \* restarts of the mint
                         lost : BOOLEAN]              \* answers of the node lost

VARIABLES
    chain,          \* the node's best chain
    applied,        \* the chain the mint applied
    fee_rule,       \* the last marginal fee the node gave
    requests,       \* RequestQueue
    refunds,        \* RefundQueue
    challenges,     \* OtpQueue
    phase,          \* what the pass is doing
    todo,           \* the copy of a queue the pass walks
    previous_day,   \* the day before this pass's catch-up
    mempool,        \* refund transactions a node ever admitted
    sweeps,         \* days on which a sweep was submitted
    missed,         \* wrong codes that named each request's challenge
    scope,          \* the bounds of this behaviour
    reorgs, restarts

queues == <<requests, refunds, challenges, missed>>
world == <<chain, scope, reorgs, restarts>>
vars == <<chain, applied, fee_rule, queues, phase, todo, previous_day, mempool, sweeps,
          scope, reorgs, restarts>>

-----------------------------------------------------------------------------
(***************************************************************************)
(* The chain.  A block is its transactions, its median time and the branch *)
(* that tells its hash apart from another block of the same contents.      *)
(***************************************************************************)
TimeOf(c) == IF c = << >> THEN 0 ELSE Last(c).time
DayOf(c) == TimeOf(c) \div DAY
Contents(c) == [i \in DOMAIN c |-> c[i].txs]
OnChain(c) == UNION {ToSet(c[i].txs) : i \in DOMAIN c}

(* A refund proves against the tree its builder saw. *)
Minable(tx) ==
    /\ tx \notin OnChain(chain)
    /\ tx.expiry > Len(chain)
    /\ IsPrefix(tx.root, Contents(chain))

(* The last block explored holds no payment, so that one follows each. *)
Mine(txs, time) ==
    /\ Len(chain) < scope.height
    /\ txs \cap Payments # {} => Len(chain) + 1 < scope.height
    /\ \A tx \in txs : tx \in mempool => Minable(tx)
    /\ txs \cap OnChain(chain) = {}
    /\ chain' = Append(chain, [txs |-> SetToSeq(txs), time |-> time, branch |-> reorgs])
    /\ UNCHANGED <<applied, fee_rule, queues, phase, todo, previous_day, mempool, sweeps,
                   scope, reorgs, restarts>>

Reorg(h) ==
    /\ reorgs < scope.reorgs
    /\ h < Len(chain)
    /\ chain' = SubSeq(chain, 1, h)
    /\ reorgs' = reorgs + 1
    /\ UNCHANGED <<applied, fee_rule, queues, phase, todo, previous_day, mempool, sweeps,
                   scope, restarts>>

-----------------------------------------------------------------------------
(***************************************************************************)
(* RequestQueue and RefundQueue.  An entry names the memo it answers.      *)
(***************************************************************************)
MemoAt(m) == MemosOf[m[1]][m[2]]

(* refund_output and RefundQueue::admit: a payment that leaves nothing     *)
(* after the withheld fee is kept.                                         *)
AdmitRefund(queue, m, refundable, height) ==
    LET amount == refundable - FEE_ACTIONS * fee_rule
    IN  IF amount > 0 THEN Append(queue, [memo |-> m, amount |-> amount, height |-> height])
        ELSE queue

access_code_penalty(price) == price \div 100

(* Fault: only what the last block brought. *)
DueNow(queue, tip) == Retain(queue, {i \in DOMAIN queue : queue[i].height = tip - 1})

(* RefundQueue::due *)
Due(queue, tip) == Retain(queue, {i \in DOMAIN queue : queue[i].height < tip})

(* Fault: a refund stays due until its block is buried. *)
PayNever(queue, refund) == queue

(* RefundQueue::paid *)
Pay(queue, refund) ==
    IF Contains(queue, refund)
    THEN RemoveAt(queue, CHOOSE i \in DOMAIN queue :
            queue[i] = refund /\ \A j \in 1 .. i - 1 : queue[j] # refund)
    ELSE queue

(* Fault: one orphaned block is kept. *)
TruncateAbove(queue, ancestor) ==
    Retain(queue, {i \in DOMAIN queue : queue[i].height <= ancestor + 1})

(* Fault: what the ancestor itself holds goes too. *)
TruncateBelow(queue, ancestor) ==
    Retain(queue, {i \in DOMAIN queue : queue[i].height < ancestor})

(* RequestQueue::truncate_to, RefundQueue::truncate_to *)
TruncateTo(queue, ancestor) ==
    Retain(queue, {i \in DOMAIN queue : queue[i].height <= ancestor})

(* RequestQueue::pending, a copy *)
Pending(queue, tip) == queue

(* RequestQueue::resolved, for every memo of the transaction *)
Resolved(queue, m) == Retain(queue, {i \in DOMAIN queue : queue[i].memo[1] # m[1]})

-----------------------------------------------------------------------------
(***************************************************************************)
(* A block's memos, in order                                               *)
(***************************************************************************)

(* What the other components say while a block is applied: whether a buy   *)
(* holds the name, whether a market intent comes back or opens a buy, and  *)
(* whether a right answer is authorized.                                   *)
Rulings == [held : BOOLEAN, intent : {"returned", "opened", "kept"}, authorized : BOOLEAN]

(* An OTP response: a held name drops its challenges, a wrong code is      *)
(* returned, a right one spends its challenge and, if it is authorized,    *)
(* every other challenge of its name.  Only a response with a term keeps   *)
(* its payment.                                                            *)
Respond(x, m, height, ruling) ==
    LET response == MemoAt(m)
        Back(q) == AdmitRefund(q, m, response.paid, height)
        result == Complete(x.challenges, response)
        wrong == RightOnes(x.challenges, response) = {}
    IN  IF ruling.held
        THEN [x EXCEPT !.challenges = DropChallenges(@, response.name), !.refunds = Back(@)]
        ELSE IF wrong
        THEN [x EXCEPT !.challenges = result.queue, !.refunds = Back(@),
                       !.missed = [r \in DOMAIN @ |->
                           IF \E i \in DOMAIN x.challenges :
                                 x.challenges[i].request = r /\ Named(x.challenges[i], response)
                           THEN @[r] + 1 ELSE @[r]]]
        ELSE IF ~ruling.authorized
        THEN [x EXCEPT !.challenges = result.queue, !.refunds = Back(@)]
        ELSE [x EXCEPT !.challenges = DropChallenges(result.queue, response.name),
                       !.refunds = IF result.done[1].request.term = 0 THEN Back(@) ELSE @]

(* One memo of the block.  An answer to the market is paid back. *)
Receive(x, m, height, ruling) ==
    LET memo == MemoAt(m)
        Back(q) == AdmitRefund(q, m, memo.paid, height)
        Opens == ruling.intent = "opened"
    IN  CASE memo.kind = "response" -> Respond(x, m, height, ruling)
          [] memo.kind = "answer" -> [x EXCEPT !.refunds = Back(@)]
          [] memo.kind = "intent" ->
               [x EXCEPT !.refunds = IF ruling.intent = "returned" THEN Back(@) ELSE @,
                         !.challenges = IF Opens THEN DropChallenges(@, memo.name) ELSE @]
          [] memo.kind \in {"claim", "request"} ->
               [x EXCEPT !.requests = Append(@, [memo |-> m, height |-> height])]
          [] memo.kind = "unrecognized" -> x

(* Every memo of a block, each upon what the ones before it left *)
ReceiveAll(x, memos, height, ruling) ==
    LET upto[k \in 0 .. Len(memos)] ==
          IF k = 0 THEN x ELSE Receive(upto[k - 1], memos[k], height, ruling)
    IN  upto[Len(memos)]

Arrivals(block) ==
    FlattenSeq([i \in DOMAIN block.txs |->
        IF block.txs[i] \in Payments
        THEN [j \in DOMAIN MemosOf[block.txs[i]] |-> <<block.txs[i], j>>] ELSE << >>])

-----------------------------------------------------------------------------
(***************************************************************************)
(* A pass: a tip, the walk back to the common ancestor, the catch-up       *)
(***************************************************************************)
Ancestor(a, b) ==
    CHOOSE h \in 0 .. Len(a) :
        /\ IsPrefix(SubSeq(a, 1, h), b)
        /\ \A k \in h + 1 .. Len(a) : ~IsPrefix(SubSeq(a, 1, k), b)

(* Wakes on any tip, the same one after a repaired stream included *)
Follow ==
    LET rewound == Ancestor(applied, chain) IN
    /\ phase = "wait"
    /\ phase' = "apply"
    /\ applied' = SubSeq(applied, 1, rewound)
    /\ previous_day' = DayOf(applied')
    /\ IF rewound < Len(applied)
       THEN /\ challenges' = << >>
            /\ requests' = TruncateTo(requests, rewound)
            /\ refunds' = TruncateTo(refunds, rewound)
            /\ UNCHANGED missed
       ELSE UNCHANGED queues
    /\ UNCHANGED <<world, fee_rule, todo, mempool, sweeps>>

ApplyBlock(ruling) ==
    LET height == Len(applied) + 1
        block == chain[height]
        before == [requests |-> requests, refunds |-> refunds, missed |-> missed,
                   challenges |-> ExpireChallenges(challenges, block.time)]
    IN  /\ phase = "apply"
        /\ height <= Len(chain)
        /\ IsPrefix(applied, chain)
        /\ applied' = Append(applied, block)
        /\ \E after \in {ReceiveAll(before, Arrivals(block), height, ruling)} :
             /\ requests' = after.requests
             /\ refunds' = after.refunds
             /\ challenges' = after.challenges
             /\ missed' = after.missed
        /\ UNCHANGED <<world, fee_rule, phase, todo, previous_day, mempool, sweeps>>

(* The chain moved under the fetch, the tip moved while prices were read,  *)
(* or the node gave no tip: the rules wait for the next notification.      *)
SkipPass ==
    /\ phase = "apply"
    /\ phase' = "wait"
    /\ UNCHANGED <<world, applied, fee_rule, queues, todo, previous_day, mempool, sweeps>>

(* The tip is still the one applied.  The rules walk copies of the queues. *)
StartRules ==
    /\ phase = "apply"
    /\ applied = chain
    /\ phase' = "decide"
    /\ todo' = Pending(requests, Len(applied))
    /\ fee_rule' \in Fees \cup {fee_rule}
    /\ UNCHANGED <<world, applied, queues, previous_day, mempool, sweeps>>

-----------------------------------------------------------------------------
(***************************************************************************)
(* Requests                                                                *)
(***************************************************************************)

(* What a claim meets: whether its name is protected, its quote (none is   *)
(* 0), and what the Registry and the Name Note queue say                   *)
Facts == [protected : BOOLEAN, price : Prices \cup {0},
          registry : {"authorized", "taken", "refused"}, pending : BOOLEAN]

(* What a claim's payer is owed, by the first condition that holds *)
ClaimBack(claim, facts) ==
    IF facts.protected /\ claim.code = "none" THEN claim.paid
    ELSE IF facts.price = 0 THEN 0
    ELSE IF claim.paid < facts.price THEN claim.paid
    ELSE IF facts.protected /\ claim.code = "wrong"
         THEN claim.paid - access_code_penalty(facts.price)
    ELSE IF facts.registry = "taken" THEN claim.paid
    ELSE IF facts.registry = "refused" THEN 0
    ELSE IF facts.pending THEN claim.paid ELSE 0

ClaimOrdered(claim, facts) ==
    /\ ~(facts.protected /\ claim.code # "right")
    /\ facts.price > 0 /\ claim.paid >= facts.price
    /\ facts.registry = "authorized" /\ ~facts.pending

DecideClaim(facts) ==
    LET entry == Head(todo)
        claim == MemoAt(entry.memo)
    IN  /\ phase = "decide" /\ todo # << >>
        /\ claim.kind = "claim"
        /\ todo' = Tail(todo)
        /\ requests' = Resolved(requests, entry.memo)
        /\ refunds' = AdmitRefund(refunds, entry.memo, ClaimBack(claim, facts), entry.height)
        /\ challenges' = IF ClaimOrdered(claim, facts)
                         THEN DropChallenges(challenges, claim.name) ELSE challenges
        /\ UNCHANGED <<world, applied, fee_rule, missed, phase, previous_day, mempool, sweeps>>

(* An update or release request: its payment is kept, and if no buy holds  *)
(* the name, the Registry authorizes it and it pays the fee, a challenge   *)
(* is queued.                                                              *)
DecideChallenge(authorized, code) ==
    LET entry == Head(todo)
        memo == MemoAt(entry.memo)
        fresh == ~\E i \in DOMAIN challenges : challenges[i].request = memo.request
    IN  /\ phase = "decide" /\ todo # << >>
        /\ memo.kind = "request"
        /\ fresh => ~CodeTaken(challenges, memo.request, code)
        /\ todo' = Tail(todo)
        /\ requests' = Resolved(requests, entry.memo)
        /\ IF authorized /\ memo.paid >= FEE_ACTIONS * fee_rule
           THEN /\ challenges' = AdmitChallenge(challenges, memo.request, code, TimeOf(applied))
                /\ missed' = IF fresh THEN [missed EXCEPT ![memo.request] = 0] ELSE missed
           ELSE UNCHANGED <<challenges, missed>>
        /\ UNCHANGED <<world, applied, fee_rule, refunds, phase, previous_day, mempool, sweeps>>

StartRelays ==
    /\ phase = "decide" /\ todo = << >>
    /\ phase' = "relay"
    /\ todo' = Requested(challenges)
    /\ UNCHANGED <<world, applied, fee_rule, queues, previous_day, mempool, sweeps>>

(* Deferred: a buy holds the name, the record no longer authorizes it, the *)
(* memo was not built or the node refused it                               *)
Relay(issued) ==
    /\ phase = "relay" /\ todo # << >>
    /\ todo' = Tail(todo)
    /\ challenges' = IF issued THEN ChallengeIssued(challenges, Head(todo).request)
                     ELSE challenges
    /\ UNCHANGED <<world, applied, fee_rule, requests, refunds, missed, phase, previous_day,
                   mempool, sweeps>>

-----------------------------------------------------------------------------
(***************************************************************************)
(* Refunds, and what the node answers                                      *)
(***************************************************************************)
StartRefunds ==
    /\ phase = "relay" /\ todo = << >>
    /\ phase' = "refund"
    /\ todo' = Due(refunds, Len(applied))
    /\ UNCHANGED <<world, applied, fee_rule, queues, previous_day, mempool, sweeps>>

(* issue_refund: the transaction for the refund at the head of the walk.   *)
RefundTx(refund) ==
    [memo |-> refund.memo, amount |-> refund.amount, root |-> Contents(applied),
     expiry |-> Len(applied) + 1 + Delta]

(* Not funded, not built, or refused by policy or by the rules of the      *)
(* chain: it stays due.  A node refuses what is already mined.             *)
RefundDeferred ==
    /\ phase = "refund" /\ todo # << >>
    /\ RefundTx(Head(todo)) \in mempool => ~Minable(RefundTx(Head(todo)))
    /\ todo' = Tail(todo)
    /\ UNCHANGED <<world, applied, fee_rule, queues, phase, previous_day, mempool, sweeps>>

(* The node admits the transaction, or has it already, and says so. *)
RefundAccepted ==
    /\ phase = "refund" /\ todo # << >>
    /\ Minable(RefundTx(Head(todo)))
    /\ mempool' = mempool \cup {RefundTx(Head(todo))}
    /\ refunds' = Pay(refunds, Head(todo))
    /\ todo' = Tail(todo)
    /\ UNCHANGED <<world, applied, fee_rule, requests, challenges, missed, phase, previous_day,
                   sweeps>>

(* The node admits it and the answer is lost: submit tries again, and the  *)
(* chain may move before it does.                                          *)
RefundAnswerLost ==
    /\ scope.lost
    /\ phase = "refund" /\ todo # << >>
    /\ Minable(RefundTx(Head(todo)))
    /\ mempool' = mempool \cup {RefundTx(Head(todo))}
    /\ UNCHANGED <<world, applied, fee_rule, queues, phase, todo, previous_day, sweeps>>

(* Fault: the day is looked at, not the step into it. *)
SweepDueAllDay == previous_day <= DayOf(applied)

(* The day the catch-up crossed into *)
SweepDue == previous_day < DayOf(applied)

(* sweep_to_vault: submitted, or nothing to move *)
Sweep(moved) ==
    /\ phase = "refund" /\ todo = << >>
    /\ phase' = "wait"
    /\ sweeps' = IF moved /\ SweepDue /\ refunds = << >>
                 THEN Append(sweeps, DayOf(applied)) ELSE sweeps
    /\ UNCHANGED <<world, applied, fee_rule, queues, todo, previous_day, mempool>>

(* The process starts over: a boot scan of the chain, every queue empty. *)
Restart ==
    /\ restarts < scope.restarts
    /\ restarts' = restarts + 1
    /\ applied' = chain
    /\ fee_rule' \in Fees
    /\ requests' = << >> /\ refunds' = << >> /\ challenges' = << >>
    /\ phase' = "wait"
    /\ todo' = << >>
    /\ previous_day' = DayOf(chain)
    /\ UNCHANGED <<chain, scope, reorgs, missed, mempool, sweeps>>

-----------------------------------------------------------------------------
Memos == UNION {{<<p, i>> : i \in DOMAIN MemosOf[p]} : p \in Payments}
Requests == {MemoAt(m).request : m \in {k \in Memos : MemoAt(k).kind = "request"}}

Init ==
    /\ chain = << >> /\ applied = << >>
    /\ fee_rule \in Fees
    /\ requests = << >> /\ refunds = << >> /\ challenges = << >>
    /\ phase = "wait"
    /\ todo = << >>
    /\ previous_day = 0
    /\ mempool = {}
    /\ sweeps = << >>
    /\ missed = [r \in Requests |-> 0]
    /\ scope \in Scopes
    /\ reorgs = 0 /\ restarts = 0

Catchup == \E ruling \in Rulings : ApplyBlock(ruling)

Loop ==
    \/ Follow
    \/ Catchup
    \/ SkipPass
    \/ StartRules
    \/ \E facts \in Facts : DecideClaim(facts)
    \/ \E authorized \in BOOLEAN, code \in Codes : DecideChallenge(authorized, code)
    \/ StartRelays
    \/ \E issued \in BOOLEAN : Relay(issued)
    \/ StartRefunds
    \/ RefundDeferred
    \/ RefundAccepted
    \/ \E moved \in BOOLEAN : Sweep(moved)

Grow ==
    \E txs \in SUBSET (scope.payments \cup mempool) :
        \E time \in TimeOf(chain) .. scope.time : Mine(txs, time)

Next ==
    \/ Grow
    \/ \E h \in 0 .. Len(chain) : Reorg(h)
    \/ RefundAnswerLost
    \/ Restart
    \/ Loop

Spec == Init /\ [][Next]_vars

(* Blocks keep coming and the loop never stops.  A node that serves its    *)
(* next block, a tip that stands still long enough, and a refund that is   *)
(* funded and accepted, come again and again.                              *)
FairSpec ==
    /\ Spec
    /\ WF_vars(Grow)
    /\ WF_vars(Loop)
    /\ SF_vars(Catchup)
    /\ SF_vars(StartRules)
    /\ SF_vars(RefundAccepted)

-----------------------------------------------------------------------------
(***************************************************************************)
(* Properties                                                              *)
(***************************************************************************)
Waits(queue, m) == \E i \in DOMAIN queue : queue[i].memo = m
Stands(tx) == tx \in OnChain(chain) \/ Minable(tx)

(* Every challenge in the queue can still be answered, by its own code      *)
(* only: its window is open at the applied tip, fewer than MAX_ATTEMPTS     *)
(* wrong codes named it, and its code differs from that of every other      *)
(* challenge the same response would name (OtpQueue).                       *)
ChallengesAnswerable ==
    \A i \in DOMAIN challenges :
        LET c == challenges[i] IN
        /\ TimeOf(applied) < c.expires_at
        /\ missed[c.request] < MAX_ATTEMPTS
        /\ \A j \in DOMAIN challenges :
             SameKey(c.request, challenges[j].request) /\ c.code = challenges[j].code => i = j

(* What waits can be acted on: every request and refund answers one memo    *)
(* that the applied chain holds at its height, no memo waits twice, a       *)
(* refund is of some of what was paid, and every challenge is answerable    *)
(* (RequestQueue, RefundQueue, OtpQueue, the rewind).                       *)
QueuesBacked ==
    /\ ChallengesAnswerable
    /\ \A q \in {requests, refunds} : \A i \in DOMAIN q :
         /\ q[i].height \in 1 .. Len(applied)
         /\ q[i].memo[1] \in ToSet(applied[q[i].height].txs)
         /\ \A j \in DOMAIN q : q[i].memo = q[j].memo => i = j
    /\ \A m \in Memos : ~(Waits(requests, m) /\ Waits(refunds, m))
    /\ \A i \in DOMAIN refunds : refunds[i].amount \in 1 .. MemoAt(refunds[i].memo).paid

(* No payment is refunded twice: no two refund transactions for one memo    *)
(* are mined or can be mined, and none is due again between passes while    *)
(* one stands (the run loop: each request is decided once), as long as the  *)
(* chain is not reorganized and the node's answers arrive.                  *)
RefundedOnce ==
  reorgs = 0 /\ ~scope.lost =>
    /\ \A s, t \in mempool : s.memo = t.memo /\ Stands(s) /\ Stands(t) => s = t
    /\ phase = "wait" =>
         \A t \in mempool : Stands(t) => ~Waits(refunds, t.memo)

(* A queued refund is only forgotten once a transaction that pays it was    *)
(* admitted, or the block of its own payment was orphaned: a rewind that    *)
(* keeps that block keeps the refund (RefundQueue: nothing else removes     *)
(* it).  Only a restart forgets more.                                       *)
RefundKept ==
    [][restarts' = restarts =>
         \A i \in DOMAIN refunds :
            ~Waits(refunds', refunds[i].memo) =>
               \/ \E t \in mempool' : t.memo = refunds[i].memo
               \/ refunds[i].height > Len(applied')]_vars

(* A day is swept at most once, a chain that is reorganized aside (the run  *)
(* loop: a new day sweeps once).                                            *)
SweptOnce == reorgs = 0 => \A i, j \in DOMAIN sweeps : sweeps[i] = sweeps[j] => i = j

(* However many passes are skipped, the recorded requests are eventually    *)
(* decided, and once payments stop coming every queued refund is paid,      *)
(* although it may be unfunded or refused any number of times               *)
(* (RequestQueue::pending, RefundQueue::due, the run loop).                 *)
PaymentsSettled ==
    /\ requests # << >> ~> requests = << >>
    /\ refunds # << >> ~> refunds = << >>
=============================================================================

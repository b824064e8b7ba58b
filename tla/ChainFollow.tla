----------------------------- MODULE ChainFollow -----------------------------
(***************************************************************************)
(* How the mint follows the node: the tip stream and its repair            *)
(* (src/zcash/chain.rs), the error policy (src/zcash.rs), the walk back to *)
(* the common ancestor, the rewind and the catch-up of src/main.rs, and    *)
(* the boot scan of src/boot.rs.  Every answer of the node is a step of    *)
(* its own, and the node may move between any two of them.                 *)
(*                                                                         *)
(* A chain is the sequence of its headers' marks; the hash at a height is  *)
(* the chain up to it.  The clock's window holds the marks it was fed.     *)
(***************************************************************************)
EXTENDS Integers, Sequences, FiniteSets, SequencesExt, FiniteSetsExt

CONSTANTS
    Marks,          \* what tells two headers of one height apart
    Origin,         \* the height of the wallet's checkpoint
    WINDOW,         \* headers the median is taken of
    Returns,        \* whether the node may return to a chain it left
    MaxHeight,      \* bound: the longest chain explored
    MaxMoves,       \* bound: moves of the node's tip
    MaxFaults       \* bound: dead streams, malformed announcements, fatal errors

ASSUME FollowAssumption ==
    /\ Marks # {}
    /\ WINDOW \in Nat \ {0}
    /\ {Origin, MaxHeight, MaxMoves, MaxFaults} \subseteq Nat
    /\ Origin + 2 <= MaxHeight
    /\ Returns \in BOOLEAN

VARIABLES
    chain,          \* the node's best chain
    left,           \* the chains it left
    applied,        \* the chain the mint applied
    window,         \* MtpTracker
    stream,         \* TipStream: "open", "dead" or "closed"
    pushes,         \* announcements on their way
    phase,          \* where the mint is
    best,           \* best_height of this pass
    cursor,         \* the walk's height, or the next header to backfill
    missed,         \* the tip moved and nobody will be told
    moves, faults

node == <<chain, left, moves, missed>>
vars == <<chain, left, applied, window, stream, pushes, phase, best, cursor, missed,
          moves, faults>>

Top == Len(applied)
LastOf(s, n) == SubSeq(s, IF Len(s) > n THEN Len(s) - n + 1 ELSE 1, Len(s))

(* MtpTracker::update *)
Slide(w, mark) == LastOf(Append(w, mark), WINDOW)

-----------------------------------------------------------------------------
(***************************************************************************)
(* The node                                                                *)
(***************************************************************************)

Shared(c, d) == Len(LongestCommonPrefix({c, d}))

(* A better chain, not always a longer one, that shares the checkpoint *)
Better(c) ==
    /\ ~IsPrefix(c, chain)
    /\ Len(c) >= Len(chain) - 1
    /\ SubSeq(c, 1, Origin) = SubSeq(chain, 1, Origin)
    /\ Returns \/ \A d \in left : Shared(c, d) <= Shared(chain, d)

Chains == {c \in BoundedSeq(Marks, MaxHeight) : Len(c) > Origin}

(* Every change is announced on an open stream; a slow reader may be told  *)
(* of the last one only.                                                   *)
Move(c, told, ok) ==
    /\ moves < MaxMoves
    /\ Better(c)
    /\ ok \/ (stream = "open" /\ faults < MaxFaults)
    /\ chain' = c
    /\ left' = IF IsPrefix(chain, c) THEN left ELSE left \cup {chain}
    /\ moves' = moves + 1
    /\ faults' = IF ok THEN faults ELSE faults + 1
    /\ pushes' = IF stream # "open" THEN pushes
                 ELSE Append(IF told THEN pushes ELSE << >>, [height |-> Len(c), ok |-> ok])
    /\ missed' = IF stream = "open" THEN FALSE ELSE missed \/ phase \in {"boot", "repair"}
    /\ UNCHANGED <<applied, window, stream, phase, best, cursor>>

StreamDies ==
    /\ faults < MaxFaults
    /\ stream = "open"
    /\ stream' = "dead"
    /\ pushes' = << >>
    /\ faults' = faults + 1
    /\ UNCHANGED <<node, applied, window, phase, best, cursor>>

-----------------------------------------------------------------------------
(***************************************************************************)
(* What an answer that is none does to its caller                          *)
(***************************************************************************)
Errors == {"timeout", "bad_data", "unavailable", "not_found", "refused"}

is_retryable(e) == e \in {"timeout", "bad_data", "unavailable"}
not_on_best_chain(e) == e = "not_found"

(* A retried error changes nothing.  A height that is gone sends a walk    *)
(* and a catch-up back to the stream and makes a backfill wait; any other  *)
(* verdict ends the process, except after the catch-up, where it skips the *)
(* rules.  Boot survives no error.                                         *)
AfterError(e) ==
    IF phase = "boot" THEN "down"
    ELSE IF is_retryable(e) THEN phase
    ELSE IF phase = "check" THEN "wait"
    ELSE IF not_on_best_chain(e) /\ phase \in {"walk", "apply"} THEN "wait"
    ELSE IF not_on_best_chain(e) /\ phase = "backfill" THEN phase
    ELSE "down"

Asked == IF phase \in {"apply", "boot"} THEN Top + 1 ELSE cursor

Fails(e) ==
    /\ phase \in {"walk", "backfill", "apply", "check", "boot"} \/ (phase = "wait" /\ stream = "dead")
    /\ phase \in {"apply", "boot"} => Top < best
    /\ IF not_on_best_chain(e) THEN phase \notin {"check", "wait"} /\ Asked > Len(chain) /\ UNCHANGED faults
       ELSE faults < MaxFaults /\ faults' = faults + 1
    /\ phase' = AfterError(e)
    /\ phase' # phase
    /\ stream' = IF phase' = "down" THEN "closed" ELSE stream
    /\ pushes' = IF phase' = "down" THEN << >> ELSE pushes
    /\ UNCHANGED <<node, applied, window, best, cursor>>

-----------------------------------------------------------------------------
(***************************************************************************)
(* TipSession::next_tip: an announcement, or the tip as it is now          *)
(***************************************************************************)

WalkFrom(height) == Min({height, Top})

StartWalk(height) ==
    /\ best' = height
    /\ cursor' = WalkFrom(height)

Announced ==
    /\ phase = "wait" /\ stream = "open" /\ pushes # << >>
    /\ phase' = "walk"
    /\ pushes' = Tail(pushes)
    /\ StartWalk(IF Head(pushes).ok THEN Head(pushes).height ELSE Len(chain))
    /\ missed' = IF Head(pushes).ok THEN missed ELSE FALSE
    /\ UNCHANGED <<chain, left, moves, applied, window, stream, faults>>

(* The stream died: the tip is read first, then the stream reopened. *)
StreamFailed ==
    /\ phase = "wait" /\ stream = "dead"
    /\ phase' = "repair"
    /\ best' = Len(chain)
    /\ missed' = FALSE
    /\ UNCHANGED <<chain, left, moves, applied, window, stream, pushes, cursor, faults>>

(* Fault: the tip that was read is not followed. *)
RepairOnly ==
    /\ phase = "repair"
    /\ phase' = "wait"
    /\ stream' = "open"
    /\ UNCHANGED <<node, applied, window, pushes, best, cursor, faults>>

Repair ==
    /\ phase = "repair"
    /\ phase' = "walk"
    /\ stream' = "open"
    /\ StartWalk(best)
    /\ UNCHANGED <<node, applied, window, pushes, faults>>

-----------------------------------------------------------------------------
(***************************************************************************)
(* The pass                                                                *)
(***************************************************************************)

(* wallet.block_hash_at(h) = source.get_block_hash(h) *)
HashesAgree(h) == SubSeq(applied, 1, h) = SubSeq(chain, 1, h)

WalkBack ==
    /\ phase = "walk"
    /\ cursor <= Len(chain) /\ ~HashesAgree(cursor)
    /\ cursor' = cursor - 1
    /\ UNCHANGED <<node, applied, window, stream, pushes, phase, best, faults>>

(* Fault: the end is left out. *)
HeadersBelow(till) == Max({till - WINDOW + 1, 1}) .. till - 1

(* MtpTracker::backfill: the heights of the window that ends at one *)
HeadersTo(till) == Max({till - WINDOW + 1, 1}) .. till

(* The common ancestor.  The wallet rewinds to it, or to its checkpoint,   *)
(* and the whole window is read again.                                     *)
WalkEnds(rewound) ==
    /\ phase = "walk"
    /\ cursor <= Len(chain) /\ HashesAgree(cursor)
    /\ IF cursor < Top
       THEN /\ applied' = SubSeq(applied, 1, rewound)
            /\ window' = << >>
            /\ phase' = "backfill"
            /\ cursor' = Min(HeadersTo(rewound) \cup {rewound})
       ELSE /\ phase' = "apply"
            /\ UNCHANGED <<applied, window, cursor>>
    /\ UNCHANGED <<node, stream, pushes, best, faults>>

(* MtpTracker::backfill: one header at a time, from the node as it is *)
Backfill ==
    /\ phase = "backfill"
    /\ cursor \in HeadersTo(Top) /\ cursor <= Len(chain)
    /\ window' = Slide(window, chain[cursor])
    /\ cursor' = cursor + 1
    /\ UNCHANGED <<node, applied, stream, pushes, phase, best, faults>>

BackfillDone ==
    /\ phase = "backfill" /\ cursor \notin HeadersTo(Top)
    /\ phase' = "apply"
    /\ UNCHANGED <<node, applied, window, stream, pushes, best, cursor, faults>>

(* One canonical block, of this pass or of the boot scan *)
Apply ==
    /\ phase \in {"apply", "boot"}
    /\ Top < best /\ Top < Len(chain)
    /\ IsPrefix(applied, chain)
    /\ applied' = Append(applied, chain[Top + 1])
    /\ window' = Slide(window, chain[Top + 1])
    /\ UNCHANGED <<node, stream, pushes, phase, best, cursor, faults>>

(* The block does not extend what was applied. *)
Discard ==
    /\ phase \in {"apply", "boot"}
    /\ Top < best /\ Top < Len(chain)
    /\ ~IsPrefix(applied, chain)
    /\ phase' = IF phase = "boot" THEN "down" ELSE "wait"
    /\ UNCHANGED <<node, applied, window, stream, pushes, best, cursor, faults>>

Scanned ==
    /\ phase = "apply" /\ Top >= best
    /\ phase' = "check"
    /\ UNCHANGED <<node, applied, window, stream, pushes, best, cursor, faults>>

(* The exact tip, read once more: the rules, or the next announcement *)
Check ==
    /\ phase = "check"
    /\ phase' = IF chain = applied THEN "rules" ELSE "wait"
    /\ UNCHANGED <<node, applied, window, stream, pushes, best, cursor, faults>>

Ruled ==
    /\ phase = "rules"
    /\ phase' = "wait"
    /\ UNCHANGED <<node, applied, window, stream, pushes, best, cursor, faults>>

-----------------------------------------------------------------------------
(***************************************************************************)
(* Boot::start: the checkpoint, one read of the tip, the scan; then the    *)
(* stream, which tells of changes only.                                    *)
(***************************************************************************)
BootStart ==
    /\ phase = "down"
    /\ phase' = "boot"
    /\ applied' = SubSeq(chain, 1, Origin)
    /\ window' = LastOf(applied', WINDOW)
    /\ best' = Len(chain)
    /\ cursor' = Origin
    /\ missed' = FALSE
    /\ UNCHANGED <<chain, left, moves, stream, pushes, faults>>

BootDone ==
    /\ phase = "boot" /\ Top >= best
    /\ phase' = "wait"
    /\ stream' = "open"
    /\ UNCHANGED <<node, applied, window, pushes, best, cursor, faults>>

-----------------------------------------------------------------------------
Init ==
    /\ chain = [i \in 1 .. Origin + 2 |-> CHOOSE m \in Marks : TRUE]
    /\ left = {}
    /\ applied = SubSeq(chain, 1, Origin)
    /\ window = LastOf(applied, WINDOW)
    /\ stream = "closed"
    /\ pushes = << >>
    /\ phase = "down"
    /\ best = 0
    /\ cursor = 0
    /\ missed = FALSE
    /\ moves = 0 /\ faults = 0

Mint ==
    \/ Announced
    \/ StreamFailed
    \/ Repair
    \/ WalkBack
    \/ \E rewound \in {cursor, Origin} : WalkEnds(rewound)
    \/ Backfill
    \/ BackfillDone
    \/ Apply
    \/ Discard
    \/ Scanned
    \/ Check
    \/ Ruled
    \/ BootStart
    \/ BootDone
    \/ Fails("not_found")

Next ==
    \/ \E c \in Chains, told, ok \in BOOLEAN : Move(c, told, ok)
    \/ StreamDies
    \/ \E e \in Errors : Fails(e)
    \/ Mint

Spec == Init /\ [][Next]_vars

(* The process runs and is restarted, and the node answers in the end. *)
FairSpec == Spec /\ WF_vars(Mint)

-----------------------------------------------------------------------------
(***************************************************************************)
(* Properties                                                              *)
(***************************************************************************)

(* The variables have their types, and the window never holds more headers  *)
(* than the median is taken of (MtpTracker).                                *)
FollowTypeOK ==
    /\ chain \in Chains
    /\ applied \in BoundedSeq(Marks, MaxHeight)
    /\ window \in BoundedSeq(Marks, WINDOW)
    /\ stream \in {"open", "dead", "closed"}
    /\ phase \in {"down", "boot", "wait", "repair", "walk", "backfill", "apply", "check", "rules"}
    /\ {best, cursor} \subseteq 0 .. MaxHeight + 1
    /\ phase \in {"down", "boot"} <=> stream = "closed"

(* The rules run on the clock of the chain that was applied: the window is  *)
(* its last headers, whatever the node did while they were read (the        *)
(* rewind: the entire window is rebuilt, no histories are mixed).           *)
ClockOfChain == FollowTypeOK /\ (phase = "rules" => window = LastOf(applied, WINDOW))

(* The mint never settles away from the node's tip, unless the tip moved    *)
(* while a boot scan or a repair left nobody listening (the run loop).      *)
ReachesTip == []<>(applied = chain \/ missed)
=============================================================================

------------------------------ MODULE OtpQueue ------------------------------
(***************************************************************************)
(* The OTP challenges of src/mint/treasury/otp.rs, as operators on the     *)
(* queue.  A request is a record with name, action, ua and term; a         *)
(* response has a name, action, ua and code, but no term.                  *)
(***************************************************************************)
EXTENDS Queues, SequencesExt

CONSTANTS
    D_OTP,          \* how long a challenge lives
    MAX_ATTEMPTS    \* wrong responses that end a challenge

ASSUME OtpAssumption == {D_OTP, MAX_ATTEMPTS} \subseteq Nat \ {0}

SameKey(a, b) == a.name = b.name /\ a.action = b.action /\ a.ua = b.ua

(* A code of another challenge that the same response would name *)
CodeTaken(queue, request, code) ==
    \E i \in DOMAIN queue : SameKey(queue[i].request, request) /\ queue[i].code = code

(* OtpQueue::admit, once for each request *)
AdmitChallenge(queue, request, code, mtp) ==
    IF \E i \in DOMAIN queue : queue[i].request = request THEN queue
    ELSE Append(queue, [request |-> request, code |-> code, expires_at |-> mtp + D_OTP,
                        attempts |-> 0, state |-> "requested"])

(* OtpQueue::challenge_issued *)
ChallengeIssued(queue, request) ==
    [i \in DOMAIN queue |->
        IF queue[i].request = request THEN [queue[i] EXCEPT !.state = "relayed"] ELSE queue[i]]

(* OtpQueue::requested *)
Requested(queue) ==
    Retain(queue, {i \in DOMAIN queue : queue[i].state = "requested"})

(* OtpQueue::expire *)
ExpireChallenges(queue, mtp) ==
    Retain(queue, {i \in DOMAIN queue : mtp < queue[i].expires_at})

(* OtpQueue::drop_challenges *)
DropChallenges(queue, name) ==
    Retain(queue, {i \in DOMAIN queue : queue[i].request.name # name})

(* What a response names: challenges that were sent, whatever their term *)
Named(c, response) == c.state = "relayed" /\ SameKey(c.request, response)

RightOnes(queue, response) ==
    {i \in DOMAIN queue : Named(queue[i], response) /\ queue[i].code = response.code}

(* OtpQueue::complete, a wrong code: it counts against all it names *)
CountWrong(queue, response) ==
    LET tried == [i \in DOMAIN queue |->
                    IF Named(queue[i], response)
                    THEN [queue[i] EXCEPT !.attempts = @ + 1] ELSE queue[i]]
    IN  Retain(tried, {i \in DOMAIN tried :
                        Named(tried[i], response) => tried[i].attempts < MAX_ATTEMPTS})

(* OtpQueue::complete: the challenge the code answers leaves the queue *)
Complete(queue, response) ==
    LET right == RightOnes(queue, response)
        first == CHOOSE i \in right : \A j \in right : i <= j
    IN  IF right = {} THEN [queue |-> CountWrong(queue, response), done |-> << >>]
        ELSE [queue |-> RemoveAt(queue, first), done |-> <<queue[first]>>]
=============================================================================

---------------------------- MODULE X402Gateway ----------------------------
(***************************************************************************)
(* The x402 payment gateway (packages/x402-gateway/src/gateway.ts) over the *)
(* replay-protected payment ledger (packages/payment-ledger/src/ledger.ts)  *)
(* and an external facilitator, which checks authorizations and settles     *)
(* them on chain.                                                           *)
(*                                                                          *)
(* verify() and settle() await the facilitator; its answer may come late,   *)
(* in any order, or not at all (a network error or a non-2xx answer makes   *)
(* the call throw).  After the answer the gateway's ledger calls run in     *)
(* turn; they commute with every other call except through the row they     *)
(* write, so they are one step with it.                                     *)
(***************************************************************************)
EXTENDS Integers, FiniteSets

CONSTANTS
    Auths,        \* signed authorizations; each stands for its payload hash
    Nonces,       \* (nonce, payer, asset) triples
    NonceOf,      \* the triple of each authorization
    Slots,        \* calls that may be in flight at a time
    MaxCalls,     \* bound on the calls made for one authorization
    VerifyFirst   \* callers settle only what verify() accepted

ASSUME GatewayAssumption ==
    /\ NonceOf \in [Auths -> Nonces]
    /\ MaxCalls \in Nat
    /\ VerifyFirst \in BOOLEAN

VARIABLES
    payment,    \* authorization -> its ledger row, or NoRow
    call,       \* slot -> the call it serves, or Idle
    charged,    \* external: nonces whose authorization was settled on chain
    accepted,   \* history: verify() answers isValid, per authorization
    calls       \* calls made so far per authorization

gatewayVars == <<payment, call, charged, accepted, calls>>

NoRow == [state |-> "none"]
Recorded(a) == payment[a] # NoRow
Idle == [op |-> "idle", answer |-> "none"]
(* On the wire an answer is a success or a refusal, told apart by one field. *)
Answers == {"pending", "yes", "no"}
CallOf(op, a, answer) == [op |-> op, auth |-> a, answer |-> answer]

GatewayInit ==
    /\ payment = [a \in Auths |-> NoRow]
    /\ call = [s \in Slots |-> Idle]
    /\ charged = {}
    /\ accepted = [a \in Auths |-> 0]
    /\ calls = [a \in Auths |-> 0]

-----------------------------------------------------------------------------
Begin(s, op, a) ==
    /\ call[s] = Idle
    /\ calls[a] < MaxCalls
    /\ calls' = [calls EXCEPT ![a] = @ + 1]
    /\ call' = [call EXCEPT ![s] = CallOf(op, a, "pending")]
    /\ UNCHANGED <<payment, charged, accepted>>

VerifyCalled(s, a) == Begin(s, "verify", a)

SettleCalled(s, a) ==
    /\ VerifyFirst => accepted[a] > 0
    /\ Begin(s, "settle", a)

Done(s) == call' = [call EXCEPT ![s] = Idle]

(* What the answer says, once its two wire shapes are normalized. *)
Answered(s, op, answer) == call[s].op = op /\ call[s].answer = answer

(* Mutated form: the ledger is unique on the payload hash only. *)
SeenBefore(a) == Recorded(a)

(* insertVerified(): both UNIQUE constraints, on the nonce triple and on the *)
(* payload hash.                                                             *)
Replayed(a) ==
    \/ Recorded(a)
    \/ \E b \in Auths : Recorded(b) /\ NonceOf[b] = NonceOf[a]

(* verify() with the facilitator's positive answer. *)
VerifyAccepts(s) ==
    LET a == call[s].auth IN
    /\ Answered(s, "verify", "yes")
    /\ ~ Replayed(a)
    /\ payment' = [payment EXCEPT ![a] = [state |-> "verified"]]
    /\ accepted' = [accepted EXCEPT ![a] = @ + 1]
    /\ Done(s)
    /\ UNCHANGED <<charged, calls>>

(* ... or with a negative one, or a replay: nothing is written. *)
VerifyRefuses(s) ==
    /\ \/ Answered(s, "verify", "no")
       \/ Answered(s, "verify", "yes") /\ Replayed(call[s].auth)
    /\ Done(s)
    /\ UNCHANGED <<payment, charged, accepted, calls>>

(* Mutated form: a failed settlement forgets the row, so it can be retried. *)
MarkOrForget(a, newState) ==
    payment' = [payment EXCEPT ![a] =
        IF newState = "failed" THEN NoRow ELSE [state |-> newState]]

(* markSettled() and markFailed() name only the row, whatever its state. *)
Mark(a, newState) ==
    payment' = IF Recorded(a) THEN [payment EXCEPT ![a] = [state |-> newState]] ELSE payment

(* Mutated form: any answer settles. *)
AnyAnswerSettles(s) ==
    /\ Answered(s, "settle", "yes") \/ Answered(s, "settle", "no")
    /\ Mark(call[s].auth, "settled")
    /\ Done(s)
    /\ UNCHANGED <<charged, accepted, calls>>

SettleAnswered(s) ==
    /\ \/ Answered(s, "settle", "yes") /\ Mark(call[s].auth, "settled")
       \/ Answered(s, "settle", "no") /\ Mark(call[s].auth, "failed")
    /\ Done(s)
    /\ UNCHANGED <<charged, accepted, calls>>

(* The facilitator cannot be reached, its answer is lost or is of neither     *)
(* shape: the call throws.                                                   *)
AnswerLost(s) ==
    /\ call[s] # Idle
    /\ Done(s)
    /\ UNCHANGED <<payment, charged, accepted, calls>>

(* The process restarts: the calls are gone, the SQLite ledger stays. *)
GatewayRestart ==
    /\ call' = [s \in Slots |-> Idle]
    /\ UNCHANGED <<payment, charged, accepted, calls>>

-----------------------------------------------------------------------------
(* The facilitator: it may refuse anything, it vouches only for an           *)
(* authorization whose nonce has not been used on chain, and it charges a    *)
(* nonce at most once.                                                       *)
Refuses(s) ==
    /\ call[s].answer = "pending"
    /\ call' = [call EXCEPT ![s].answer = "no"]
    /\ UNCHANGED <<payment, charged, accepted, calls>>

Vouches(s) ==
    /\ Answered(s, "verify", "pending")
    /\ NonceOf[call[s].auth] \notin charged
    /\ call' = [call EXCEPT ![s].answer = "yes"]
    /\ UNCHANGED <<payment, charged, accepted, calls>>

Charges(s) ==
    /\ Answered(s, "settle", "pending")
    /\ NonceOf[call[s].auth] \notin charged
    /\ charged' = charged \cup {NonceOf[call[s].auth]}
    /\ call' = [call EXCEPT ![s].answer = "yes"]
    /\ UNCHANGED <<payment, accepted, calls>>

GatewayNext ==
    \/ \E s \in Slots, a \in Auths : VerifyCalled(s, a) \/ SettleCalled(s, a)
    \/ \E s \in Slots :
        \/ VerifyAccepts(s) \/ VerifyRefuses(s) \/ SettleAnswered(s)
        \/ AnswerLost(s)
        \/ Refuses(s) \/ Vouches(s) \/ Charges(s)
    \/ GatewayRestart

GatewaySpec == GatewayInit /\ [][GatewayNext]_gatewayVars

-----------------------------------------------------------------------------
(* Ledger rows, calls and histories are well formed. *)
GatewayTypeOK ==
    /\ payment \in [Auths -> {NoRow} \cup [state : {"verified", "settled", "failed"}]]
    /\ call \in [Slots -> {Idle} \cup
            [op : {"verify", "settle"}, auth : Auths, answer : Answers]]
    /\ charged \subseteq Nonces
    /\ accepted \in [Auths -> Nat]
    /\ calls \in [Auths -> 0 .. MaxCalls]

(* However verifications race, are retried or answered late, and whatever    *)
(* was lost in a restart, at most one authorization per (nonce, payer,       *)
(* asset) is ever accepted, and at most once.                                *)
AcceptedOnce ==
    \A a, b \in Auths : accepted[a] > 0 /\ accepted[b] > 0 /\ NonceOf[a] = NonceOf[b] =>
        a = b /\ accepted[a] = 1

(* With callers that verify first, whatever is charged on chain has its row  *)
(* in the ledger, even if the answer to the settlement was lost.             *)
ChargedIsRecorded ==
    \A n \in charged : \E a \in Auths : NonceOf[a] = n /\ Recorded(a)

(* A row says settled only if the payment really was charged. *)
SettledWasCharged ==
    \A a \in Auths : payment[a].state = "settled" => NonceOf[a] \in charged

(* The ledger reconciles settle outcomes (docs/development-status.md:14): no *)
(* answer, however late or repeated, marks a payment failed that has already *)
(* been charged.                                                             *)
FailedWasNotCharged ==
    [][\A a \in Auths : payment[a].state # "failed" /\ payment'[a].state = "failed" =>
            NonceOf[a] \notin charged]_gatewayVars
=============================================================================

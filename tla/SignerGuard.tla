---------------------------- MODULE SignerGuard ----------------------------
(***************************************************************************)
(* The signing gate (packages/signer-guard/src/guard.ts): authorize() makes *)
(* a reservation in the spend ledger before it asks the signer for a        *)
(* signature, and gives it back when the signer fails.                      *)
(*                                                                          *)
(* The signer may take any time, fail, or be cut off by a restart.  Calls   *)
(* run concurrently between their awaits; the ledger's own work is          *)
(* synchronous.  Every request brings the policy it is to be judged by, so  *)
(* the cap is the request's and not the ledger's.                           *)
(***************************************************************************)
EXTENDS Integers, FiniteSets, FiniteSetsExt

CONSTANTS
    Intents, Amounts,
    Caps,          \* perDayCapAtomic of the policies in use
    SingleCap,     \* maxSinglePaymentAtomic
    Slots,         \* calls that may wait for the signer at a time
    MaxTime, DayLen

ASSUME GuardAssumption ==
    /\ IsFiniteSet(Intents)
    /\ Amounts \subseteq Nat
    /\ Caps \subseteq Nat
    /\ SingleCap \in Nat
    /\ MaxTime \in Nat
    /\ DayLen \in Nat \ {0}

VARIABLES
    rows,      \* the spend ledger's table
    now,       \* the clock
    signing,   \* slot -> the request whose signature it awaits, or Idle
    signed,    \* history: signatures made, per intent
    cutOff     \* history: intents whose call a restart ended

vars == <<rows, now, signing, signed, cutOff>>

Signer == "local_dev"
Ledger(cap) == INSTANCE SpendLedger WITH Signers <- {Signer}, DayCap <- cap
Table == INSTANCE SpendLedger WITH Signers <- {Signer}, DayCap <- Max(Caps)

Idle == [idle |-> TRUE]
(* What the guard reads of a request: whether its role and key are those of  *)
(* the policy and of the signer, whether the allowlists and the receiver     *)
(* policy let it through, its amount and its policy's daily cap.             *)
Request == [intent : Intents, amount : Amounts, cap : Caps,
            roleMatches : BOOLEAN, listed : BOOLEAN]

-----------------------------------------------------------------------------
(* The refusals before the ledger is touched, in their order. *)
Denial(req) ==
    IF ~ req.roleMatches THEN "signer_role_mismatch"
    ELSE IF ~ req.listed THEN "not_allowed"
    ELSE IF req.amount > SingleCap THEN "amount_above_single_cap"
    ELSE "none"

(* Mutated forms: the cap in force is not the request's; the reservation is  *)
(* released whether or not the signer failed; or in no case.                 *)
AuthorizeByLaxestCap(s, req) ==
    LET day == Table!DayOf(now) IN
    /\ signing[s] = Idle
    /\ Denial(req) = "none"
    /\ Table!ReserveResult(req.intent, Signer, day, req.amount) = "ok"
    /\ Table!InsertReserved(req.intent, Signer, day, req.amount)
    /\ signing' = [signing EXCEPT ![s] = req]
    /\ UNCHANGED <<now, signed, cutOff>>

SignerSignsFinally(s) ==
    /\ signing[s] # Idle
    /\ signed' = [signed EXCEPT ![signing[s].intent] = @ + 1]
    /\ Table!Release(signing[s].intent)
    /\ signing' = [signing EXCEPT ![s] = Idle]
    /\ UNCHANGED <<now, cutOff>>

SignerFailsKeeping(s) ==
    /\ signing[s] # Idle
    /\ signing' = [signing EXCEPT ![s] = Idle]
    /\ UNCHANGED <<rows, now, signed, cutOff>>

(* A refused request writes nothing, so only one that passes every check and *)
(* gets its reservation is a step.  The reservation is dated by the clock of *)
(* the moment it is made.                                                    *)
Authorize(s, req) ==
    LET day == Table!DayOf(now) IN
    /\ signing[s] = Idle
    /\ Denial(req) = "none"
    /\ Ledger(req.cap)!ReserveResult(req.intent, Signer, day, req.amount) = "ok"
    /\ Ledger(req.cap)!InsertReserved(req.intent, Signer, day, req.amount)
    /\ signing' = [signing EXCEPT ![s] = req]
    /\ UNCHANGED <<now, signed, cutOff>>

SignerSigns(s) ==
    /\ signing[s] # Idle
    /\ signed' = [signed EXCEPT ![signing[s].intent] = @ + 1]
    /\ signing' = [signing EXCEPT ![s] = Idle]
    /\ UNCHANGED <<rows, now, cutOff>>

(* sign() throws: the reservation is released and "signer_failed" returned. *)
SignerFails(s) ==
    /\ signing[s] # Idle
    /\ Table!Release(signing[s].intent)
    /\ signing' = [signing EXCEPT ![s] = Idle]
    /\ UNCHANGED <<now, signed, cutOff>>

(* The caller broadcasts what was signed and commits its reservation. *)
CallerCommits(i) ==
    /\ signed[i] > 0
    /\ Table!Commit(i)
    /\ UNCHANGED <<now, signing, signed, cutOff>>

Restart ==
    /\ cutOff' = cutOff \cup {signing[s].intent : s \in {t \in Slots : signing[t] # Idle}}
    /\ signing' = [s \in Slots |-> Idle]
    /\ UNCHANGED <<rows, now, signed>>

Tick ==
    /\ now < MaxTime
    /\ now' = now + 1
    /\ UNCHANGED <<rows, signing, signed, cutOff>>

Init ==
    /\ rows = [i \in Intents |-> Table!NoRow]
    /\ now = 0
    /\ signing = [s \in Slots |-> Idle]
    /\ signed = [i \in Intents |-> 0]
    /\ cutOff = {}

Next ==
    \/ \E s \in Slots, req \in Request : Authorize(s, req)
    \/ \E s \in Slots : SignerSigns(s) \/ SignerFails(s)
    \/ \E i \in Intents : CallerCommits(i)
    \/ Restart
    \/ Tick

Spec == Init /\ [][Next]_vars

-----------------------------------------------------------------------------
(* The table, the calls and the histories are well formed. *)
TypeOK ==
    /\ Table!TypeOK
    /\ signing \in [Slots -> {Idle} \cup Request]
    /\ signed \in [Intents -> Nat]
    /\ cutOff \subseteq Intents

(* An intent is signed at most once in its life: not by concurrent calls,    *)
(* not by a retry after a failed signature or a restart ("duplicate intent   *)
(* id cannot reserve and sign twice", guard.test.ts).                        *)
SignedOnce == \A i \in Intents : signed[i] <= 1

(* Budget stands behind every signature: from the moment it is made its      *)
(* row is reserved or committed and never given back.                        *)
SignedHoldsBudget == \A i \in Intents : signed[i] > 0 => Table!Live(i)

(* Open budget is accounted for: it backs a signature, or one being made, or *)
(* the call that held it was cut off by a restart.  No failure of the signer *)
(* leaks it.                                                                 *)
HeldForSignature ==
    \A i \in Intents : Table!IsReserved(i) =>
        \/ signed[i] > 0
        \/ i \in cutOff
        \/ \E s \in Slots : signing[s] # Idle /\ signing[s].intent = i

(* A stricter policy is never overrun by a call it is the policy of: the     *)
(* step that reserves under it leaves the day within that policy's cap, also *)
(* when other requests reserved under laxer ones.                            *)
OwnCapRespected ==
    [][\A s \in Slots : signing[s] = Idle /\ signing'[s] # Idle =>
        Table!UsedOnDay(Signer, Table!DayOf(now))' <= signing'[s].cap]_vars
=============================================================================

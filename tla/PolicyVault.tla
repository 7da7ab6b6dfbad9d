---------------------------- MODULE PolicyVault ----------------------------
(***************************************************************************)
(* The on-chain spending vault (contracts/policy-vault/src/lib.rs): a       *)
(* CEP-18 token account whose owner names agents, receivers, a cap per      *)
(* payment, a cap per day and an expiry, and whose agents may pay within    *)
(* them.                                                                    *)
(*                                                                          *)
(* A call that reverts leaves no trace: the host rolls every write back.    *)
(* It is therefore a stuttering step here, and an action is a call that     *)
(* goes through.  What a refused call answers is the state function         *)
(* PayVerdict.  The token is a plain CEP-18 contract: it calls nothing      *)
(* back, so pay() is one step.                                              *)
(***************************************************************************)
EXTENDS Integers

CONSTANTS
    Addresses,     \* accounts and contracts that can call, hold and receive
    Vault,         \* the vault's own address
    Agents,        \* addresses the owner may name as agents
    Receivers,     \* addresses the owner may name as receivers
    Hashes,        \* payload hashes
    MaxU256,       \* largest U256 (amounts, limits, balances)
    MaxTime,       \* bound on block time, in ms
    DayLen,        \* length of a day in ms (86_400_000 in the code)
    InitBalance    \* who holds the tokens when the vault is installed

ASSUME VaultAssumption ==
    /\ Vault \in Addresses
    /\ Agents \subseteq Addresses
    /\ Receivers \subseteq Addresses
    /\ MaxU256 \in Nat
    /\ MaxTime \in Nat
    /\ DayLen \in Nat \ {0}
    /\ InitBalance \in [Addresses -> 0 .. MaxU256]
    /\ InitBalance[Vault] = 0

U256 == 0 .. MaxU256
Time == 0 .. MaxTime
DayOf(t) == t \div DayLen
Days == 0 .. DayOf(MaxTime)

VARIABLES
    owner, agents, receivers, maxSingle, dailyLimit, validUntil,
    dayIndex, daySpend, paidTotal, usedHashes,
    now,           \* block time
    balance,       \* CEP-18 balances
    \* What really happened, kept apart from the vault's own books:
    spentOn,       \* amount that left the vault on each day
    timesPaid,     \* payments made under each payload hash
    deposited,     \* amount that ever entered the vault
    stopped        \* the owner's last word on validity was expire_now()

adminVars == <<owner, agents, receivers, maxSingle, dailyLimit, validUntil, stopped>>
spendVars == <<dayIndex, daySpend, paidTotal, usedHashes, spentOn, timesPaid>>
tokenVars == <<balance, deposited>>
vars == <<adminVars, spendVars, tokenVars, now>>

-----------------------------------------------------------------------------
Today == DayOf(now)

(* The two input checks of init, set_limits and set_valid_until. *)
ValidLimits(single, daily) == single # 0 /\ daily # 0 /\ single <= daily
IsFuture(t) == t > now

(* init(): the deployer becomes the owner; every mapping reads false. *)
Init ==
    /\ now \in Time
    /\ owner \in Addresses \ {Vault}
    /\ agents = {}
    /\ receivers = {}
    /\ maxSingle \in U256 /\ dailyLimit \in U256
    /\ ValidLimits(maxSingle, dailyLimit)
    /\ validUntil \in Time /\ IsFuture(validUntil)
    /\ dayIndex = 0
    /\ daySpend = 0
    /\ paidTotal = 0
    /\ usedHashes = {}
    /\ balance = InitBalance
    /\ spentOn = [d \in Days |-> 0]
    /\ timesPaid = [h \in Hashes |-> 0]
    /\ deposited = 0
    /\ stopped = FALSE

-----------------------------------------------------------------------------
(* Owner calls: each begins with require_owner(). *)
IsOwner(caller) == caller = owner

AllowAgent(caller, a) ==
    /\ IsOwner(caller)
    /\ agents' = agents \cup {a}
    /\ UNCHANGED <<owner, receivers, maxSingle, dailyLimit, validUntil, stopped>>
    /\ UNCHANGED <<spendVars, tokenVars, now>>

RevokeAgent(caller, a) ==
    /\ IsOwner(caller)
    /\ agents' = agents \ {a}
    /\ UNCHANGED <<owner, receivers, maxSingle, dailyLimit, validUntil, stopped>>
    /\ UNCHANGED <<spendVars, tokenVars, now>>

AllowReceiver(caller, r) ==
    /\ IsOwner(caller)
    /\ receivers' = receivers \cup {r}
    /\ UNCHANGED <<owner, agents, maxSingle, dailyLimit, validUntil, stopped>>
    /\ UNCHANGED <<spendVars, tokenVars, now>>

RevokeReceiver(caller, r) ==
    /\ IsOwner(caller)
    /\ receivers' = receivers \ {r}
    /\ UNCHANGED <<owner, agents, maxSingle, dailyLimit, validUntil, stopped>>
    /\ UNCHANGED <<spendVars, tokenVars, now>>

(* The day's spend so far is left alone, so a lowered limit may be below it. *)
SetLimits(caller, single, daily) ==
    /\ IsOwner(caller)
    /\ ValidLimits(single, daily)
    /\ maxSingle' = single
    /\ dailyLimit' = daily
    /\ UNCHANGED <<owner, agents, receivers, validUntil, stopped>>
    /\ UNCHANGED <<spendVars, tokenVars, now>>

SetValidUntil(caller, t) ==
    /\ IsOwner(caller)
    /\ IsFuture(t)
    /\ validUntil' = t
    /\ stopped' = FALSE
    /\ UNCHANGED <<owner, agents, receivers, maxSingle, dailyLimit>>
    /\ UNCHANGED <<spendVars, tokenVars, now>>

ExpireNow(caller) ==
    /\ IsOwner(caller)
    /\ validUntil' = now
    /\ stopped' = TRUE
    /\ UNCHANGED <<owner, agents, receivers, maxSingle, dailyLimit>>
    /\ UNCHANGED <<spendVars, tokenVars, now>>

-----------------------------------------------------------------------------
(* Mutated forms: the counter is never reset; expiry is off by one moment; a *)
(* hash is remembered for a day; the token lets an account pay itself.       *)
CarriedOverSpend == daySpend
ExpiredAfterwards == now > validUntil
UsedToday(hash) == hash \in usedHashes /\ dayIndex = Today
NeverReverts(receiver) == FALSE

(* The day counter is reset lazily: only a payment on another day clears it. *)
CurrentDaySpend == IF Today # dayIndex THEN 0 ELSE daySpend

Expired == now >= validUntil
AboveDayLimit(amount) == CurrentDaySpend + amount > dailyLimit
HashUsed(hash) == hash \in usedHashes

(* The checked additions of pay(). *)
Overflows(x, y) == x + y > MaxU256

(* The CEP-18 token refuses a transfer from an account to itself. *)
TransferReverts(receiver) == receiver = Vault

(* The first refusal pay() meets, in the order of its checks, or "Ok". *)
PayVerdict(caller, receiver, amount, hash) ==
    IF caller \notin agents THEN "AgentNotAllowed"
    ELSE IF receiver \notin receivers THEN "ReceiverNotAllowed"
    ELSE IF Expired THEN "VaultExpired"
    ELSE IF amount > maxSingle THEN "AmountAboveMax"
    ELSE IF Overflows(CurrentDaySpend, amount) THEN "ArithmeticOverflow"
    ELSE IF AboveDayLimit(amount) THEN "DayLimitExceeded"
    ELSE IF HashUsed(hash) THEN "NonceAlreadyUsed"
    ELSE IF Overflows(paidTotal, amount) THEN "ArithmeticOverflow"
    ELSE IF balance[Vault] < amount THEN "InsufficientVaultBalance"
    ELSE IF TransferReverts(receiver) THEN "TokenError"
    ELSE "Ok"

Pay(caller, receiver, amount, hash) ==
    /\ PayVerdict(caller, receiver, amount, hash) = "Ok"
    /\ balance' = [balance EXCEPT ![Vault] = @ - amount, ![receiver] = @ + amount]
    /\ dayIndex' = Today
    /\ daySpend' = CurrentDaySpend + amount
    /\ paidTotal' = paidTotal + amount
    /\ usedHashes' = usedHashes \cup {hash}
    /\ spentOn' = [spentOn EXCEPT ![Today] = @ + amount]
    /\ timesPaid' = [timesPaid EXCEPT ![hash] = @ + 1]
    /\ UNCHANGED <<adminVars, deposited, now>>

-----------------------------------------------------------------------------
(* The world: anyone may send the vault tokens, and blocks advance time. *)
Deposit(from, amount) ==
    /\ from # Vault
    /\ amount <= balance[from]
    /\ balance' = [balance EXCEPT ![from] = @ - amount, ![Vault] = @ + amount]
    /\ deposited' = deposited + amount
    /\ UNCHANGED <<adminVars, spendVars, now>>

Tick ==
    /\ \E t \in Time : t > now /\ now' = t
    /\ UNCHANGED <<adminVars, spendVars, tokenVars>>

OwnerCall(caller) ==
    \/ \E a \in Agents : AllowAgent(caller, a) \/ RevokeAgent(caller, a)
    \/ \E r \in Receivers : AllowReceiver(caller, r) \/ RevokeReceiver(caller, r)
    \/ \E single, daily \in U256 : SetLimits(caller, single, daily)
    \/ \E t \in Time : SetValidUntil(caller, t)
    \/ ExpireNow(caller)

Next ==
    \/ \E caller \in Addresses : OwnerCall(caller)
    \/ \E caller \in Addresses, receiver \in Addresses, amount \in U256, hash \in Hashes :
            Pay(caller, receiver, amount, hash)
    \/ \E from \in Addresses, amount \in U256 : Deposit(from, amount)
    \/ Tick

Spec == Init /\ [][Next]_vars

-----------------------------------------------------------------------------
(* Every variable has its type, and the limits in force are a legal pair     *)
(* (what validate_limits guards in init and set_limits).                     *)
TypeOK ==
    /\ owner \in Addresses \ {Vault}
    /\ agents \subseteq Agents
    /\ receivers \subseteq Receivers
    /\ maxSingle \in U256 /\ dailyLimit \in U256
    /\ ValidLimits(maxSingle, dailyLimit)
    /\ validUntil \in Time
    /\ dayIndex \in Days
    /\ daySpend \in U256
    /\ paidTotal \in U256
    /\ usedHashes \subseteq Hashes
    /\ now \in Time
    /\ balance \in [Addresses -> Nat]
    /\ spentOn \in [Days -> Nat]
    /\ timesPaid \in [Hashes -> Nat]
    /\ deposited \in Nat
    /\ stopped \in BOOLEAN

(* The lazily reset counter of pay() is always exactly what left the vault   *)
(* today: no spend of today is forgotten, and none of an earlier day is      *)
(* charged to today.                                                         *)
DayBookExact == CurrentDaySpend = spentOn[Today]

(* A payment is only ever made when the whole day's outflow, itself          *)
(* included, is within the daily limit in force, however the limits were     *)
(* changed during the day (pay()'s DayLimitExceeded check).                  *)
PaysWithinDailyLimit ==
    [][\A d \in Days : spentOn'[d] > spentOn[d] =>
            d = Today /\ spentOn'[d] <= dailyLimit]_vars

(* A payload hash pays at most once over the vault's whole life, across days *)
(* and changes of limits, and the replay map records exactly the hashes that *)
(* paid (used_payload_hashes).                                               *)
NonceOnce ==
    \A h \in Hashes : timesPaid[h] = IF h \in usedHashes THEN 1 ELSE 0

(* The vault's total paid and the tokens it still holds account for all that *)
(* was ever deposited: paid_total never drifts from the token contract.      *)
FundsAccounted == balance[Vault] + paidTotal = deposited

(* After expire_now() nothing is paid until the owner calls                  *)
(* set_valid_until() again: time alone never reopens the vault.              *)
StopHolds == [][stopped /\ stopped' => UNCHANGED <<timesPaid, spentOn>>]_vars

(* What an induction needs beyond the properties above: the day on the books *)
(* is not in the future, it holds that day's outflow, nothing has been spent *)
(* on a later day, and a stopped vault's expiry has passed.                  *)
BooksInv ==
    /\ dayIndex <= Today
    /\ spentOn[dayIndex] = daySpend
    /\ \A d \in Days : d > dayIndex => spentOn[d] = 0
    /\ stopped => validUntil <= now

(* The inductive invariant of the vault: every part above at once. *)
IInv == TypeOK /\ BooksInv /\ NonceOnce /\ FundsAccounted

(* The vault implements the budget its documentation promises: a counter     *)
(* reset at the first payment of a day behaves as one reset at midnight.     *)
Budget == INSTANCE DailyBudget WITH
    Amounts <- U256, Payloads <- Hashes,
    today <- Today, spent <- CurrentDaySpend, limit <- dailyLimit, paid <- usedHashes

ImplementsDailyBudget == Budget!Spec
=============================================================================

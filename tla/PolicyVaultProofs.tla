------------------------- MODULE PolicyVaultProofs -------------------------
(***************************************************************************)
(* The vault's guarantees, proved for every set of addresses and hashes,    *)
(* every integer width, day length and horizon.                             *)
(***************************************************************************)
EXTENDS PolicyVault, TLAPS

(* A later instant is not on an earlier day. *)
LEMMA DayMonotonic ==
    ASSUME NEW s \in Nat, NEW t \in Nat, s <= t
    PROVE  DayOf(s) \in Nat /\ DayOf(t) \in Nat /\ DayOf(s) <= DayOf(t)
<1>1. DayLen \in Nat /\ DayLen > 0
  BY VaultAssumption
<1>2. DayOf(s) \in Nat /\ DayOf(t) \in Nat
  BY <1>1 DEF DayOf
<1>3. DayOf(s) <= DayOf(t)
  BY <1>1 DEF DayOf
<1>4. QED
  BY <1>2, <1>3

(* Every instant the model reaches is on one of its days. *)
LEMMA DayInDays ==
    ASSUME NEW t \in Time
    PROVE  DayOf(t) \in Days
<1>1. MaxTime \in Nat /\ t \in Nat /\ t <= MaxTime
  BY VaultAssumption DEF Time
<1>2. QED
  BY <1>1, DayMonotonic DEF Days

(* What a payment that goes through has passed. *)
LEMMA VerdictOk ==
    ASSUME NEW caller, NEW receiver, NEW amount, NEW hash,
           PayVerdict(caller, receiver, amount, hash) = "Ok"
    PROVE  /\ caller \in agents /\ receiver \in receivers /\ receiver # Vault
           /\ ~ (now >= validUntil)
           /\ ~ (CurrentDaySpend + amount > MaxU256)
           /\ ~ (CurrentDaySpend + amount > dailyLimit)
           /\ hash \notin usedHashes
           /\ ~ (paidTotal + amount > MaxU256)
           /\ ~ (balance[Vault] < amount)
  BY DEF PayVerdict, Expired, AboveDayLimit, HashUsed, Overflows, TransferReverts

-----------------------------------------------------------------------------
(* The types hold in every state: amounts stay within U256 and balances stay *)
(* non-negative although pay() subtracts and adds without limit checks of    *)
(* its own in the token.                                                     *)
THEOREM TypeCorrect == Spec => []TypeOK
<1>1. Init => TypeOK
  <2> SUFFICES ASSUME Init PROVE TypeOK
    OBVIOUS
  <2>1. 0 \in Days
    BY VaultAssumption, DayMonotonic DEF Days
  <2>2. 0 \in U256
    BY VaultAssumption DEF U256
  <2>3. balance \in [Addresses -> Nat]
    BY VaultAssumption DEF Init
  <2>4. QED
    BY <2>1, <2>2, <2>3 DEF Init, TypeOK
<1>2. TypeOK /\ [Next]_vars => TypeOK'
  <2> SUFFICES ASSUME TypeOK, [Next]_vars PROVE TypeOK'
    OBVIOUS
  <2>1. ASSUME NEW caller \in Addresses, OwnerCall(caller) PROVE TypeOK'
    <3>1. ASSUME NEW a \in Agents, AllowAgent(caller, a) \/ RevokeAgent(caller, a)
          PROVE  TypeOK'
      BY <3>1 DEF TypeOK, AllowAgent, RevokeAgent, spendVars, tokenVars, ValidLimits
    <3>2. ASSUME NEW r \in Receivers, AllowReceiver(caller, r) \/ RevokeReceiver(caller, r)
          PROVE  TypeOK'
      BY <3>2 DEF TypeOK, AllowReceiver, RevokeReceiver, spendVars, tokenVars, ValidLimits
    <3>3. ASSUME NEW single \in U256, NEW daily \in U256, SetLimits(caller, single, daily)
          PROVE  TypeOK'
      BY <3>3 DEF TypeOK, SetLimits, spendVars, tokenVars, ValidLimits
    <3>4. ASSUME NEW t \in Time, SetValidUntil(caller, t)
          PROVE  TypeOK'
      BY <3>4 DEF TypeOK, SetValidUntil, spendVars, tokenVars, ValidLimits
    <3>5. CASE ExpireNow(caller)
      BY <3>5 DEF TypeOK, ExpireNow, spendVars, tokenVars, ValidLimits
    <3>6. QED
      BY <2>1, <3>1, <3>2, <3>3, <3>4, <3>5 DEF OwnerCall
  <2>2. ASSUME NEW caller \in Addresses, NEW receiver \in Addresses,
               NEW amount \in U256, NEW hash \in Hashes,
               Pay(caller, receiver, amount, hash)
        PROVE  TypeOK'
    <3>1. amount \in Nat /\ MaxU256 \in Nat
      BY VaultAssumption DEF U256
    <3>2. PayVerdict(caller, receiver, amount, hash) = "Ok"
      BY <2>2 DEF Pay
    <3>3. dayIndex' \in Days
      BY <2>2, DayInDays DEF Pay, TypeOK, Today
    <3>4. CurrentDaySpend \in Nat
      BY DEF TypeOK, CurrentDaySpend, U256
    <3>5. daySpend' \in U256 /\ paidTotal' \in U256
      BY <2>2, <3>1, <3>2, <3>4, VerdictOk DEF Pay, TypeOK, U256
    <3>6. balance' \in [Addresses -> Nat]
      <4>1. balance[Vault] - amount \in Nat
        BY <3>1, <3>2, VerdictOk, VaultAssumption DEF TypeOK
      <4>2. QED
        BY <2>2, <3>1, <4>1, <3>2, VerdictOk, VaultAssumption DEF Pay, TypeOK
    <3>7. spentOn' \in [Days -> Nat] /\ timesPaid' \in [Hashes -> Nat]
      <4>1. spentOn' = [spentOn EXCEPT ![Today] = @ + amount]
        BY <2>2 DEF Pay
      <4>2. timesPaid' = [timesPaid EXCEPT ![hash] = @ + 1]
        BY <2>2 DEF Pay
      <4>3. spentOn \in [Days -> Nat] /\ timesPaid \in [Hashes -> Nat]
        BY DEF TypeOK
      <4>4. spentOn' \in [Days -> Nat]
        <5>1. Today \in Days /\ amount \in Nat
          BY <3>1, DayInDays DEF TypeOK, Today
        <5>2. spentOn[Today] + amount \in Nat
          BY <5>1, <4>3
        <5>3. QED
          BY <5>2, <4>1, <4>3
      <4>5. timesPaid' \in [Hashes -> Nat]
        BY <4>2, <4>3
      <4>6. QED
        BY <4>4, <4>5
    <3>8. QED
      BY <2>2, <3>3, <3>5, <3>6, <3>7 DEF Pay, TypeOK, adminVars, ValidLimits
  <2>3. ASSUME NEW from \in Addresses, NEW amount \in U256, Deposit(from, amount)
        PROVE  TypeOK'
    <3>1. amount \in Nat
      BY VaultAssumption DEF U256
    <3>2. balance' \in [Addresses -> Nat] /\ deposited' \in Nat
      BY <2>3, <3>1, VaultAssumption DEF Deposit, TypeOK
    <3>3. QED
      BY <2>3, <3>2 DEF Deposit, TypeOK, adminVars, spendVars, ValidLimits
  <2>4. CASE Tick
    BY <2>4 DEF Tick, TypeOK, adminVars, spendVars, tokenVars, ValidLimits
  <2>5. CASE UNCHANGED vars
    BY <2>5 DEF vars, TypeOK, adminVars, spendVars, tokenVars, ValidLimits
  <2>6. QED
    BY <2>1, <2>2, <2>3, <2>4, <2>5 DEF Next
<1>3. QED
  BY <1>1, <1>2, PTL DEF Spec

-----------------------------------------------------------------------------
(* The state the induction starts from keeps the books balanced. *)
LEMMA InitIInv == Init => IInv
<1> SUFFICES ASSUME Init PROVE IInv
  OBVIOUS
<1>1. TypeOK
  <2>1. 0 \in Days
    BY VaultAssumption, DayMonotonic DEF Days
  <2>2. 0 \in U256 /\ balance \in [Addresses -> Nat]
    BY VaultAssumption DEF U256, Init
  <2>3. QED
    BY <2>1, <2>2 DEF Init, TypeOK
<1>2. BooksInv
  <2>1. Today \in Days /\ Today \in Nat
    BY <1>1, DayInDays DEF TypeOK, Today, Days
  <2>2. 0 \in Days
    BY <1>1 DEF TypeOK, Init
  <2>3. QED
    BY <2>1, <2>2 DEF Init, BooksInv
<1>3. NonceOnce
  BY DEF Init, NonceOnce
<1>4. FundsAccounted
  BY VaultAssumption DEF Init, FundsAccounted
<1>5. QED
  BY <1>1, <1>2, <1>3, <1>4 DEF IInv

(* The books agree with what happened on the day of any payment: the counter *)
(* is either that of today or stale, and then nothing has left today.        *)
LEMMA BooksExact ==
    ASSUME TypeOK, BooksInv
    PROVE  DayBookExact
<1>1. Today \in Days /\ Today \in Nat /\ dayIndex \in Nat
  BY DayInDays DEF TypeOK, Today, Days
<1>2. QED
  BY <1>1 DEF BooksInv, DayBookExact, CurrentDaySpend

(* An owner call touches neither the spending records nor the tokens. *)
LEMMA OwnerCallFrame ==
    ASSUME NEW caller, OwnerCall(caller)
    PROVE  UNCHANGED <<spendVars, tokenVars, now, owner>>
  BY DEF OwnerCall, AllowAgent, RevokeAgent, AllowReceiver, RevokeReceiver,
         SetLimits, SetValidUntil, ExpireNow

(* Whatever an owner call does to the expiry, a stopped vault has expired. *)
LEMMA OwnerCallStopped ==
    ASSUME NEW caller, OwnerCall(caller), now \in Nat, stopped => validUntil <= now
    PROVE  stopped' => validUntil' <= now'
<1>1. now' = now
  BY OwnerCallFrame
<1>2. \/ UNCHANGED <<stopped, validUntil>>
      \/ stopped' = FALSE
      \/ validUntil' = now
  BY DEF OwnerCall, AllowAgent, RevokeAgent, AllowReceiver, RevokeReceiver,
         SetLimits, SetValidUntil, ExpireNow
<1>3. CASE UNCHANGED <<stopped, validUntil>>
  BY <1>1, <1>3
<1>4. CASE validUntil' = now
  BY <1>1, <1>4
<1>5. QED
  BY <1>2, <1>3, <1>4

(* A payment keeps the day's books, the replay map and the totals in step. *)
LEMMA PayIInv ==
    ASSUME TypeOK, BooksInv, NonceOnce, FundsAccounted,
           NEW caller \in Addresses, NEW receiver \in Addresses,
           NEW amount \in U256, NEW hash \in Hashes,
           Pay(caller, receiver, amount, hash)
    PROVE  BooksInv' /\ NonceOnce' /\ FundsAccounted'
<1>1. amount \in Nat /\ Today \in Days /\ Today \in Nat /\ dayIndex \in Nat
  BY VaultAssumption, DayInDays DEF U256, TypeOK, Today, Days
<1>2. PayVerdict(caller, receiver, amount, hash) = "Ok"
  BY DEF Pay
<1>3. Today' = Today
  BY DEF Pay, Today
<1>4. spentOn \in [Days -> Nat] /\ spentOn' = [spentOn EXCEPT ![Today] = @ + amount]
  BY DEF Pay, TypeOK
<1>5. BooksInv'
  <2>1. dayIndex' <= Today'
    BY <1>1, <1>3 DEF Pay
  <2>2. spentOn'[dayIndex'] = daySpend'
    <3>1. CurrentDaySpend = spentOn[Today]
      BY BooksExact DEF DayBookExact
    <3>2. QED
      BY <1>1, <1>4, <3>1 DEF Pay
  <2>3. \A d \in Days : d > dayIndex' => spentOn'[d] = 0
    <3> SUFFICES ASSUME NEW d \in Days, d > Today PROVE spentOn'[d] = 0
      BY DEF Pay
    <3>1. d \in Nat /\ d # Today /\ d > dayIndex
      BY <1>1 DEF Days, BooksInv
    <3>2. spentOn'[d] = spentOn[d]
      BY <1>1, <1>4, <3>1
    <3>3. QED
      BY <3>1, <3>2 DEF BooksInv
  <2>4. stopped' => validUntil' <= now'
    BY DEF Pay, BooksInv, adminVars
  <2>5. QED
    BY <2>1, <2>2, <2>3, <2>4 DEF BooksInv
<1>6. NonceOnce'
  <2>1. hash \notin usedHashes
    BY <1>2, VerdictOk
  <2>2. timesPaid[hash] = 0
    BY <2>1 DEF NonceOnce
  <2>3. timesPaid' = [timesPaid EXCEPT ![hash] = 1]
    BY <2>2 DEF Pay
  <2>4. timesPaid \in [Hashes -> Nat] /\ usedHashes' = usedHashes \cup {hash}
    BY DEF Pay, TypeOK
  <2>5. QED
    BY <2>3, <2>4 DEF NonceOnce
<1>7. FundsAccounted'
  <2>1. receiver # Vault
    BY <1>2, VerdictOk
  <2>2. balance' = [balance EXCEPT ![Vault] = @ - amount, ![receiver] = @ + amount]
    BY DEF Pay
  <2>3. balance'[Vault] = balance[Vault] - amount
    BY <2>1, <2>2, VaultAssumption DEF TypeOK
  <2>4. balance[Vault] \in Nat /\ paidTotal \in Nat /\ deposited \in Nat
    BY VaultAssumption DEF TypeOK, U256
  <2>5. paidTotal' = paidTotal + amount /\ deposited' = deposited
    BY DEF Pay
  <2>6. balance[Vault] + paidTotal = deposited
    BY DEF FundsAccounted
  <2>7. balance'[Vault] + paidTotal' = deposited'
    BY <1>1, <2>3, <2>4, <2>5, <2>6
  <2>8. QED
    BY <2>7 DEF FundsAccounted
<1>8. QED
  BY <1>5, <1>6, <1>7

(* Every step keeps the books right: the strengthening the theorems rest on. *)
THEOREM BooksCorrect == Spec => []IInv
<1>1. TypeOK /\ BooksInv /\ NonceOnce /\ FundsAccounted /\ [Next]_vars
      => BooksInv' /\ NonceOnce' /\ FundsAccounted'
  <2> SUFFICES ASSUME TypeOK, BooksInv, NonceOnce, FundsAccounted, [Next]_vars
               PROVE  BooksInv' /\ NonceOnce' /\ FundsAccounted'
    OBVIOUS
  <2>0. now \in Nat
    BY VaultAssumption DEF TypeOK, Time
  <2>1. ASSUME NEW caller \in Addresses, OwnerCall(caller)
        PROVE  BooksInv' /\ NonceOnce' /\ FundsAccounted'
    <3>1. UNCHANGED <<spendVars, tokenVars, now, owner>>
      BY <2>1, OwnerCallFrame
    <3>2. stopped' => validUntil' <= now'
      BY <2>0, <2>1, OwnerCallStopped DEF BooksInv
    <3>3. QED
      BY <3>1, <3>2 DEF spendVars, tokenVars, BooksInv, NonceOnce, FundsAccounted, Today
  <2>2. ASSUME NEW caller \in Addresses, NEW receiver \in Addresses,
               NEW amount \in U256, NEW hash \in Hashes,
               Pay(caller, receiver, amount, hash)
        PROVE  BooksInv' /\ NonceOnce' /\ FundsAccounted'
    BY <2>2, PayIInv
  <2>3. ASSUME NEW from \in Addresses, NEW amount \in U256, Deposit(from, amount)
        PROVE  BooksInv' /\ NonceOnce' /\ FundsAccounted'
    <3>1. BooksInv' /\ NonceOnce'
      BY <2>3 DEF Deposit, adminVars, spendVars, BooksInv, NonceOnce, Today
    <3>2. amount \in Nat /\ balance[Vault] \in Nat /\ paidTotal \in Nat /\ deposited \in Nat
      BY VaultAssumption DEF TypeOK, U256
    <3>3. balance'[Vault] = balance[Vault] + amount
      BY <2>3, VaultAssumption DEF Deposit, TypeOK
    <3>4. paidTotal' = paidTotal /\ deposited' = deposited + amount
      BY <2>3 DEF Deposit, spendVars
    <3>5. FundsAccounted'
      BY <3>2, <3>3, <3>4 DEF FundsAccounted
    <3>6. QED
      BY <3>1, <3>5
  <2>4. CASE Tick
    <3>1. PICK t \in Time : t > now /\ now' = t
      BY <2>4 DEF Tick
    <3>2. t \in Nat /\ now <= t
      BY <2>0, <3>1, VaultAssumption DEF Time
    <3>3. Today \in Nat /\ Today' \in Nat /\ Today <= Today'
      BY <2>0, <3>1, <3>2, DayMonotonic DEF Today
    <3>4. dayIndex \in Nat /\ validUntil \in Nat
      BY VaultAssumption DEF TypeOK, Days, Time
    <3>5. UNCHANGED <<spendVars, adminVars, tokenVars>>
      BY <2>4 DEF Tick
    <3>6. dayIndex' <= Today'
      BY <3>3, <3>4, <3>5 DEF BooksInv, spendVars
    <3>7. stopped' => validUntil' <= now'
      BY <2>0, <3>1, <3>2, <3>4, <3>5 DEF BooksInv, adminVars
    <3>8. QED
      BY <3>5, <3>6, <3>7 DEF spendVars, tokenVars, BooksInv, NonceOnce, FundsAccounted
  <2>5. CASE UNCHANGED vars
    BY <2>5 DEF vars, adminVars, spendVars, tokenVars, BooksInv, NonceOnce, FundsAccounted, Today
  <2>6. QED
    BY <2>1, <2>2, <2>3, <2>4, <2>5 DEF Next
<1>2. Init => BooksInv /\ NonceOnce /\ FundsAccounted
  BY InitIInv DEF IInv
<1>3. Spec => [](BooksInv /\ NonceOnce /\ FundsAccounted)
  BY <1>1, <1>2, TypeCorrect, PTL DEF Spec
<1>4. QED
  BY <1>3, TypeCorrect, PTL DEF IInv

-----------------------------------------------------------------------------
(* pay()'s lazily reset counter never forgets or carries over a day's spend. *)
THEOREM DayBook == Spec => []DayBookExact
<1>1. IInv => DayBookExact
  BY BooksExact DEF IInv
<1>2. QED
  BY <1>1, BooksCorrect, PTL

(* No payload hash ever pays twice. *)
THEOREM NonceOnlyOnce == Spec => []NonceOnce
<1>1. IInv => NonceOnce
  BY DEF IInv
<1>2. QED
  BY <1>1, BooksCorrect, PTL

(* The vault's paid total and its token balance account for every deposit. *)
THEOREM FundsAreAccounted == Spec => []FundsAccounted
<1>1. IInv => FundsAccounted
  BY DEF IInv
<1>2. QED
  BY <1>1, BooksCorrect, PTL

-----------------------------------------------------------------------------
(* Only a payment changes what left the vault. *)
LEMMA OnlyPaySpends ==
    ASSUME [Next]_vars
    PROVE  \/ UNCHANGED <<spendVars, dailyLimit, now>>
           \/ UNCHANGED <<spendVars, now>>
           \/ UNCHANGED <<spendVars, dailyLimit>>
           \/ \E caller \in Addresses, receiver \in Addresses, amount \in U256, hash \in Hashes :
                  Pay(caller, receiver, amount, hash)
<1>1. ASSUME NEW caller \in Addresses, OwnerCall(caller)
      PROVE  UNCHANGED <<spendVars, now>>
  BY <1>1, OwnerCallFrame
<1>2. ASSUME NEW from \in Addresses, NEW amount \in U256, Deposit(from, amount)
      PROVE  UNCHANGED <<spendVars, dailyLimit, now>>
  BY <1>2 DEF Deposit, adminVars
<1>3. CASE Tick
  BY <1>3 DEF Tick, adminVars
<1>4. CASE UNCHANGED vars
  BY <1>4 DEF vars, adminVars
<1>5. QED
  BY <1>1, <1>2, <1>3, <1>4 DEF Next

(* No day's outflow ever grows beyond the daily limit in force. *)
THEOREM DailyLimitHolds == Spec => PaysWithinDailyLimit
<1>1. IInv /\ [Next]_vars =>
        [\A d \in Days : spentOn'[d] > spentOn[d] =>
            d = Today /\ spentOn'[d] <= dailyLimit]_vars
  <2> SUFFICES ASSUME IInv, [Next]_vars, NEW d \in Days, spentOn'[d] > spentOn[d]
               PROVE  d = Today /\ spentOn'[d] <= dailyLimit
    OBVIOUS
  <2>1. spentOn \in [Days -> Nat] /\ Today \in Days
    BY DayInDays DEF IInv, TypeOK, Today
  <2>2. spentOn' # spentOn
    BY <2>1
  <2>3. PICK caller \in Addresses, receiver \in Addresses, amount \in U256, hash \in Hashes :
           Pay(caller, receiver, amount, hash)
    BY <2>2, OnlyPaySpends DEF spendVars
  <2>4. spentOn' = [spentOn EXCEPT ![Today] = @ + amount]
    BY <2>3 DEF Pay
  <2>5. d = Today
    BY <2>1, <2>4
  <2>6. CurrentDaySpend = spentOn[Today]
    BY BooksExact DEF IInv, DayBookExact
  <2>7. ~ (CurrentDaySpend + amount > dailyLimit)
    BY <2>3, VerdictOk DEF Pay
  <2>8. amount \in Nat /\ dailyLimit \in Nat
    BY VaultAssumption DEF IInv, TypeOK, U256
  <2>9. spentOn'[d] = CurrentDaySpend + amount
    BY <2>1, <2>4, <2>5, <2>6
  <2>10. CurrentDaySpend \in Nat
    BY <2>1, <2>6
  <2>11. QED
    BY <2>5, <2>7, <2>8, <2>9, <2>10
<1>2. QED
  BY <1>1, BooksCorrect, PTL DEF Spec, PaysWithinDailyLimit

(* Once stopped, the vault pays nothing until its owner reopens it. *)
THEOREM StopIsKept == Spec => StopHolds
<1>1. IInv /\ [Next]_vars =>
        [stopped /\ stopped' => UNCHANGED <<timesPaid, spentOn>>]_vars
  <2> SUFFICES ASSUME IInv, [Next]_vars, stopped
               PROVE  UNCHANGED <<timesPaid, spentOn>>
    OBVIOUS
  <2>1. validUntil <= now /\ validUntil \in Nat /\ now \in Nat
    BY VaultAssumption DEF IInv, BooksInv, TypeOK, Time
  <2>2. ASSUME NEW caller \in Addresses, NEW receiver \in Addresses,
               NEW amount \in U256, NEW hash \in Hashes,
               Pay(caller, receiver, amount, hash)
        PROVE  FALSE
    <3>1. ~ (now >= validUntil)
      BY <2>2, VerdictOk DEF Pay
    <3>2. QED
      BY <2>1, <3>1
  <2>3. UNCHANGED spendVars
    BY <2>2, OnlyPaySpends
  <2>4. QED
    BY <2>3 DEF spendVars
<1>2. QED
  BY <1>1, BooksCorrect, PTL DEF Spec, StopHolds

-----------------------------------------------------------------------------
(* The vault implements the daily budget: each of its steps is a step of the *)
(* abstract budget, or leaves the budget unchanged.                          *)
THEOREM Refinement == Spec => ImplementsDailyBudget
<1>1. Init => Budget!Init
  <2> SUFFICES ASSUME Init PROVE Budget!Init
    OBVIOUS
  <2>1. Today \in Days
    BY DayInDays DEF Init, Today
  <2>2. CurrentDaySpend = 0
    BY DEF Init, CurrentDaySpend
  <2>3. QED
    BY <2>1, <2>2 DEF Init, Budget!Init
<1>2. IInv /\ [Next]_vars => [Budget!Next]_(Budget!budget)
  <2> SUFFICES ASSUME IInv, [Next]_vars PROVE [Budget!Next]_(Budget!budget)
    OBVIOUS
  <2>1. ASSUME NEW caller \in Addresses, OwnerCall(caller)
        PROVE  [Budget!Next]_(Budget!budget)
    <3>1. UNCHANGED <<spendVars, now>>
      BY <2>1, OwnerCallFrame
    <3>2. UNCHANGED <<Today, CurrentDaySpend, usedHashes>>
      BY <3>1 DEF spendVars, Today, CurrentDaySpend
    <3>3. dailyLimit' \in U256
      BY <2>1 DEF OwnerCall, AllowAgent, RevokeAgent, AllowReceiver, RevokeReceiver,
                  SetLimits, SetValidUntil, ExpireNow, IInv, TypeOK
    <3>4. QED
      BY <3>2, <3>3 DEF Budget!Next, Budget!SetLimit
  <2>2. ASSUME NEW caller \in Addresses, NEW receiver \in Addresses,
               NEW amount \in U256, NEW hash \in Hashes,
               Pay(caller, receiver, amount, hash)
        PROVE  [Budget!Next]_(Budget!budget)
    <3>1. Today' = Today /\ dailyLimit' = dailyLimit
      BY <2>2 DEF Pay, Today, adminVars
    <3>2. CurrentDaySpend' = CurrentDaySpend + amount
      BY <2>2, <3>1 DEF Pay, CurrentDaySpend
    <3>3. hash \notin usedHashes /\ ~ (CurrentDaySpend + amount > dailyLimit)
      BY <2>2, VerdictOk DEF Pay
    <3>4. CurrentDaySpend \in Nat /\ amount \in Nat /\ dailyLimit \in Nat
      BY VaultAssumption DEF IInv, TypeOK, U256, CurrentDaySpend
    <3>5. CurrentDaySpend + amount <= dailyLimit
      BY <3>3, <3>4
    <3>6. Budget!Pay(hash, amount)
      BY <2>2, <3>1, <3>2, <3>3, <3>5 DEF Budget!Pay, Pay
    <3>7. QED
      BY <3>6 DEF Budget!Next
  <2>3. ASSUME NEW from \in Addresses, NEW amount \in U256, Deposit(from, amount)
        PROVE  [Budget!Next]_(Budget!budget)
    BY <2>3 DEF Deposit, adminVars, spendVars, Budget!budget, Today, CurrentDaySpend
  <2>4. CASE Tick
    <3>1. PICK t \in Time : t > now /\ now' = t
      BY <2>4 DEF Tick
    <3>2. now \in Nat /\ t \in Nat /\ now <= t
      BY <3>1, VaultAssumption DEF IInv, TypeOK, Time
    <3>3. Today \in Nat /\ Today' \in Nat /\ Today <= Today'
      BY <3>1, <3>2, DayMonotonic DEF Today
    <3>4. UNCHANGED <<dailyLimit, usedHashes, dayIndex, daySpend>>
      BY <2>4 DEF Tick, adminVars, spendVars
    <3>5. dayIndex <= Today /\ dayIndex \in Nat
      BY VaultAssumption DEF IInv, BooksInv, TypeOK, Days
    <3>6. CASE Today' = Today
      BY <3>4, <3>6 DEF Budget!budget, CurrentDaySpend
    <3>7. CASE Today' # Today
      <4>1. Today' \in Days /\ Today' > Today
        BY <3>1, <3>3, <3>7, DayInDays DEF Today
      <4>2. CurrentDaySpend' = 0
        BY <3>3, <3>4, <3>5, <4>1 DEF CurrentDaySpend
      <4>3. QED
        BY <3>4, <4>1, <4>2 DEF Budget!Next, Budget!NewDay
    <3>8. QED
      BY <3>6, <3>7
  <2>5. CASE UNCHANGED vars
    BY <2>5 DEF vars, adminVars, spendVars, Budget!budget, Today, CurrentDaySpend
  <2>6. QED
    BY <2>1, <2>2, <2>3, <2>4, <2>5 DEF Next
<1>3. QED
  BY <1>1, <1>2, BooksCorrect, PTL DEF Spec, ImplementsDailyBudget, Budget!Spec

=============================================================================

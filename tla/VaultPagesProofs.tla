--------------------------- MODULE VaultPagesProofs ---------------------------
(***************************************************************************)
(* The ledger alone, used in any order by any callers, and the ledger under *)
(* the vault pages, for any intents, keys, amounts, caps and list lengths.  *)
(*                                                                          *)
(* The cap is inductive with the rows' types: only a reservation adds a     *)
(* term to a day's sum, after the check, and every other step drops terms   *)
(* or keeps them (SumLaws).  The vault on screen adds up because it did     *)
(* when it was read: the debits listed are part of the rows counted, and    *)
(* all of today's when a row of an earlier day made the list, because a row *)
(* is filed under the day it was made on.  A debit once shown as committed   *)
(* stays counted because its row is settled, whatever policy of its key the *)
(* API is restarted with (KeptInv).                                         *)
(***************************************************************************)
EXTENDS VaultPages, SumLaws, TLAPS

(* The days of the clock are days. *)
LEMMA DayInDays == \A t \in Time : DayOf(t) \in Days
BY LedgerAssumption DEF LedgerAssumption, Time, Days, DayOf

LEMMA TypeInit == Init => TypeOK
BY DEF Init, TypeOK

LEMMA SettleTypes ==
    ASSUME TypeOK, NEW i \in Intents, NEW status \in {"committed", "released"},
           Settle(i, status), UNCHANGED now
    PROVE  TypeOK'
<1>1. CASE IsReserved(i)
    <2>1. rows[i] \in Row
        BY <1>1 DEF TypeOK, IsReserved, HasStatus, NoRow
    <2>2. [rows[i] EXCEPT !.status = status] \in Row
        BY <2>1 DEF Row
    <2>. QED BY <1>1, <2>2 DEF TypeOK, Settle
<1>2. CASE ~ IsReserved(i)
    BY <1>2 DEF TypeOK, Settle
<1>. QED BY <1>1, <1>2

LEMMA TypeStep == TypeOK /\ [Next]_ledgerVars => TypeOK'
<1> SUFFICES ASSUME TypeOK, [Next]_ledgerVars PROVE TypeOK'
    OBVIOUS
<1>1. ASSUME NEW i \in Intents, NEW signer \in Signers, NEW amount \in Amounts,
             Reserve(i, signer, DayOf(now), amount), UNCHANGED now
      PROVE  TypeOK'
    <2>1. DayOf(now) \in Days
        BY DayInDays DEF TypeOK
    <2>2. [status |-> "reserved", signer |-> signer, day |-> DayOf(now),
           amount |-> amount, createdAt |-> now] \in Row
        BY <2>1 DEF TypeOK, Row
    <2>. QED BY <1>1, <2>2 DEF TypeOK, Reserve, InsertReserved
<1>2. ASSUME NEW i \in Intents, Commit(i) \/ Release(i), UNCHANGED now PROVE TypeOK'
    BY <1>2, SettleTypes DEF Commit, Release
<1>3. ASSUME NEW ttl \in Time, ReleaseExpired(ttl), UNCHANGED now PROVE TypeOK'
    <2>1. ASSUME NEW i \in Intents PROVE rows'[i] \in Row \cup {NoRow}
        <3>1. CASE Expired(i, ttl)
            <4>1. rows[i] \in Row
                BY <3>1 DEF TypeOK, Expired, IsReserved, HasStatus, NoRow
            <4>2. [rows[i] EXCEPT !.status = "released"] \in Row
                BY <4>1 DEF Row
            <4>. QED BY <1>3, <3>1, <4>2 DEF ReleaseExpired
        <3>2. CASE ~ Expired(i, ttl)
            BY <1>3, <3>2 DEF TypeOK, ReleaseExpired
        <3>. QED BY <3>1, <3>2
    <2>. QED BY <1>3, <2>1 DEF TypeOK, ReleaseExpired
<1>4. CASE Tick
    BY <1>4 DEF TypeOK, Tick
<1>5. CASE UNCHANGED ledgerVars
    BY <1>5 DEF TypeOK, ledgerVars
<1>. QED BY <1>1, <1>2, <1>3, <1>4, <1>5 DEF Next

(* Every row stays well formed: with a known status, a signer and the day of *)
(* some reading of the clock.                                                *)
THEOREM TypeCorrect == Spec => []TypeOK
BY TypeInit, TypeStep, PTL DEF Spec

-----------------------------------------------------------------------------
Settled(i) == HasStatus(i, {"committed", "released"})

LEMMA SettledStep ==
    ASSUME TypeOK, [Next]_ledgerVars, NEW i \in Intents, Settled(i)
    PROVE  UNCHANGED rows[i]
<1> USE DEF TypeOK, Settled, HasStatus
<1>1. ASSUME NEW j \in Intents, NEW signer \in Signers, NEW amount \in Amounts,
             Reserve(j, signer, DayOf(now), amount)
      PROVE  UNCHANGED rows[i]
    <2>1. ReserveResult(j, signer, DayOf(now), amount) = "ok" => rows[j] = NoRow
        BY DEF ReserveResult
    <2>2. rows[i] # NoRow
        BY DEF NoRow
    <2>. QED BY <1>1, <2>1, <2>2 DEF Reserve, InsertReserved
<1>2. ASSUME NEW j \in Intents, Commit(j) \/ Release(j) PROVE UNCHANGED rows[i]
    BY <1>2 DEF Commit, Release, Settle, IsReserved
<1>3. ASSUME NEW ttl \in Time, ReleaseExpired(ttl) PROVE UNCHANGED rows[i]
    BY <1>3 DEF ReleaseExpired, Expired, IsReserved
<1>4. CASE Tick
    BY <1>4 DEF Tick
<1>5. CASE UNCHANGED ledgerVars
    BY <1>5 DEF ledgerVars
<1>. QED BY <1>1, <1>2, <1>3, <1>4, <1>5 DEF Next

(* No commit, release, sweep or second reservation ever changes a settled    *)
(* row, in whatever order they come.                                         *)
THEOREM SettlementIsFinal == Spec => SettledIsFinal
<1>1. TypeOK /\ [Next]_ledgerVars =>
        [\A i \in Intents : HasStatus(i, {"committed", "released"}) => UNCHANGED rows[i]]_ledgerVars
    BY SettledStep DEF Settled
<1>. QED BY <1>1, TypeInit, TypeStep, PTL DEF Spec, SettledIsFinal

-----------------------------------------------------------------------------
(* The budget of a day is a finite sum of natural numbers. *)
LEMMA CountedAmounts ==
    ASSUME TypeOK, NEW signer, NEW day
    PROVE  /\ IsFiniteSet(Counted(signer, day))
           /\ \A i \in Counted(signer, day) : rows[i] \in Row /\ rows[i].amount \in Nat
           /\ UsedOnDay(signer, day) =
                SumFunctionOnSet([i \in Counted(signer, day) |-> rows[i].amount],
                                 Counted(signer, day))
           /\ UsedOnDay(signer, day) \in Nat
<1>1. IsFiniteSet(Counted(signer, day))
    BY LedgerAssumption, FS_Subset DEF LedgerAssumption, Counted
<1>2. ASSUME NEW i \in Counted(signer, day)
      PROVE  rows[i] \in Row /\ rows[i].amount \in Nat
    <2>1. rows[i] \in Row
        BY DEF Counted, Live, HasStatus, TypeOK, NoRow
    <2>2. rows[i].amount \in Amounts
        BY <2>1 DEF Row
    <2>. QED BY <2>1, <2>2, LedgerAssumption DEF LedgerAssumption
<1>3. UsedOnDay(signer, day) =
        SumFunctionOnSet([i \in Counted(signer, day) |-> rows[i].amount], Counted(signer, day))
    BY DEF UsedOnDay, SumFunction
<1>. QED BY <1>1, <1>2, <1>3, SumType

(* A step that drops rows from the count, and changes no amount of those that *)
(* stay, does not raise the day's spend.                                      *)
LEMMA UsedShrinks ==
    ASSUME TypeOK, NEW signer, NEW day,
           Counted(signer, day)' \subseteq Counted(signer, day),
           \A i \in Counted(signer, day)' : rows'[i].amount = rows[i].amount
    PROVE  UsedOnDay(signer, day)' \in Nat /\ UsedOnDay(signer, day)' <= UsedOnDay(signer, day)
<1> DEFINE S == Counted(signer, day)
           R == Counted(signer, day)'
           f == [i \in S |-> rows[i].amount]
           g == [i \in R |-> rows'[i].amount]
<1>1. UsedOnDay(signer, day)' = SumFunctionOnSet(g, R)
    BY DEF UsedOnDay, SumFunction
<1>2. UsedOnDay(signer, day) = SumFunctionOnSet(f, S)
    BY DEF UsedOnDay, SumFunction
<1>3. /\ IsFiniteSet(S) /\ R \in SUBSET S
      /\ \A i \in S : f[i] \in Nat
      /\ \A i \in R : g[i] = f[i]
    BY CountedAmounts
<1>. HIDE DEF S, R, f, g
<1>. QED BY <1>1, <1>2, <1>3, SumShrinks

(* A step that counts one more row raises it by the amount of that row. *)
LEMMA UsedGrows ==
    ASSUME TypeOK, NEW signer, NEW day, NEW i, i \notin Counted(signer, day),
           Counted(signer, day)' = Counted(signer, day) \cup {i},
           rows'[i].amount \in Nat,
           \A k \in Counted(signer, day) : rows'[k] = rows[k]
    PROVE  UsedOnDay(signer, day)' = UsedOnDay(signer, day) + rows'[i].amount
<1> DEFINE S == Counted(signer, day)
           R == Counted(signer, day)'
           f == [k \in S |-> rows[k].amount]
           g == [k \in R |-> rows'[k].amount]
<1>1. UsedOnDay(signer, day)' = SumFunctionOnSet(g, R)
    BY DEF UsedOnDay, SumFunction
<1>2. UsedOnDay(signer, day) = SumFunctionOnSet(f, S)
    BY DEF UsedOnDay, SumFunction
<1>3. /\ IsFiniteSet(S) /\ i \notin S /\ R = S \cup {i}
      /\ \A k \in S : f[k] \in Nat
      /\ \A k \in S : g[k] = f[k]
      /\ g[i] = rows'[i].amount /\ g[i] \in Nat
    BY CountedAmounts
<1>. HIDE DEF S, R, f, g
<1>4. SumFunctionOnSet(g, R) = SumFunctionOnSet(f, S) + g[i]
    BY <1>3, SumGrows
<1>. QED BY <1>1, <1>2, <1>3, <1>4

LEMMA SettleShrinks ==
    ASSUME TypeOK, NEW i \in Intents, NEW status \in {"committed", "released"},
           Settle(i, status), NEW signer, NEW day
    PROVE  UsedOnDay(signer, day)' \in Nat /\ UsedOnDay(signer, day)' <= UsedOnDay(signer, day)
<1>1. CASE IsReserved(i)
    <2>1. rows[i] \in Row /\ rows[i].status = "reserved"
        BY <1>1 DEF TypeOK, IsReserved, HasStatus, NoRow
    <2>2. /\ \A k \in Intents \ {i} : rows'[k] = rows[k]
          /\ rows'[i] = [rows[i] EXCEPT !.status = status]
        BY <1>1 DEF TypeOK, Settle
    <2>3. /\ rows'[i].signer = rows[i].signer /\ rows'[i].day = rows[i].day
          /\ rows'[i].amount = rows[i].amount
        BY <2>1, <2>2 DEF Row
    <2>. QED BY <2>1, <2>2, <2>3, UsedShrinks DEF Counted, Live, HasStatus
<1>2. CASE ~ IsReserved(i)
    <2>1. rows' = rows
        BY <1>2 DEF Settle
    <2>. QED BY <2>1, UsedShrinks DEF Counted, Live, HasStatus
<1>. QED BY <1>1, <1>2

LEMMA SweepShrinks ==
    ASSUME TypeOK, NEW ttl, ReleaseExpired(ttl), NEW signer, NEW day
    PROVE  UsedOnDay(signer, day)' \in Nat /\ UsedOnDay(signer, day)' <= UsedOnDay(signer, day)
<1>1. ASSUME NEW i \in Intents, Live(i)'
      PROVE  rows'[i] = rows[i]
    <2>1. CASE Expired(i, ttl)
        <3>1. rows[i] \in Row
            BY <2>1 DEF TypeOK, Expired, IsReserved, HasStatus, NoRow
        <3>2. rows'[i].status = "released"
            BY <2>1, <3>1 DEF ReleaseExpired, Row
        <3>. QED BY <1>1, <3>2 DEF Live, HasStatus
    <2>2. CASE ~ Expired(i, ttl)
        BY <2>2 DEF ReleaseExpired
    <2>. QED BY <2>1, <2>2
<1>. QED BY <1>1, UsedShrinks DEF Counted, Live, HasStatus

LEMMA ReserveKeepsCap ==
    ASSUME TypeOK, CapHolds, NEW i \in Intents, NEW key \in Signers, NEW amount \in Amounts,
           Reserve(i, key, DayOf(now), amount), NEW signer \in Signers, NEW day \in Days
    PROVE  UsedOnDay(signer, day)' <= DayCap
<1> DEFINE row == [status |-> "reserved", signer |-> key, day |-> DayOf(now),
                   amount |-> amount, createdAt |-> now]
           result == ReserveResult(i, key, DayOf(now), amount)
<1>0. UsedOnDay(signer, day) \in Nat /\ UsedOnDay(signer, day) <= DayCap /\ DayCap \in Nat
    BY CountedAmounts, LedgerAssumption DEF CapHolds, LedgerAssumption
<1>1. CASE result = "ok"
    <2>1. /\ UsedOnDay(key, DayOf(now)) + amount <= DayCap
          /\ rows[i] = NoRow
        <3>1. UsedOnDay(key, DayOf(now)) \in Nat /\ amount \in Nat /\ DayCap \in Nat
            BY CountedAmounts, LedgerAssumption DEF LedgerAssumption
        <3>. QED BY <1>1, <3>1 DEF ReserveResult
    <2>2. rows' = [rows EXCEPT ![i] = row]
        BY <1>1 DEF Reserve, InsertReserved
    <2>3. rows'[i] = row /\ \A k \in Intents \ {i} : rows'[k] = rows[k]
        BY <2>2 DEF TypeOK
    <2>4. i \notin Counted(signer, day)
        BY <2>1 DEF Counted, Live, HasStatus, NoRow
    <2>5. CASE signer = key /\ day = DayOf(now)
        <3>1. Counted(signer, day)' = Counted(signer, day) \cup {i}
            BY <2>3, <2>4, <2>5 DEF Counted, Live, HasStatus
        <3>2. rows'[i].amount = amount /\ amount \in Nat
            BY <2>3, LedgerAssumption DEF LedgerAssumption
        <3>3. \A k \in Counted(signer, day) : rows'[k] = rows[k]
            BY <2>3, <2>4 DEF Counted
        <3>4. UsedOnDay(signer, day)' = UsedOnDay(signer, day) + amount
            BY <2>4, <3>1, <3>2, <3>3, UsedGrows
        <3>. QED BY <2>1, <2>5, <3>4
    <2>6. CASE ~ (signer = key /\ day = DayOf(now))
        <3>1. Counted(signer, day)' \subseteq Counted(signer, day) /\ i \notin Counted(signer, day)'
            BY <2>3, <2>6 DEF Counted, Live, HasStatus
        <3>2. \A k \in Counted(signer, day)' : rows'[k].amount = rows[k].amount
            BY <2>3, <3>1 DEF Counted
        <3>3. UsedOnDay(signer, day)' \in Nat /\ UsedOnDay(signer, day)' <= UsedOnDay(signer, day)
            BY <3>1, <3>2, UsedShrinks
        <3>. QED BY <1>0, <3>3
    <2>. QED BY <2>5, <2>6
<1>2. CASE result # "ok"
    <2>1. rows' = rows
        BY <1>2 DEF Reserve
    <2>. QED BY <1>0, <2>1 DEF UsedOnDay, Counted, Live, HasStatus
<1>. QED BY <1>1, <1>2

LEMMA CapStep == TypeOK /\ CapHolds /\ [Next]_ledgerVars => CapHolds'
<1> SUFFICES ASSUME TypeOK, CapHolds, [Next]_ledgerVars, NEW signer \in Signers, NEW day \in Days
             PROVE  UsedOnDay(signer, day)' <= DayCap
    BY DEF CapHolds
<1>0. UsedOnDay(signer, day) \in Nat /\ UsedOnDay(signer, day) <= DayCap /\ DayCap \in Nat
    BY CountedAmounts, LedgerAssumption DEF CapHolds, LedgerAssumption
<1>1. ASSUME NEW i \in Intents, NEW key \in Signers, NEW amount \in Amounts,
             Reserve(i, key, DayOf(now), amount)
      PROVE  UsedOnDay(signer, day)' <= DayCap
    BY <1>1, ReserveKeepsCap
<1>2. ASSUME NEW i \in Intents, Commit(i) \/ Release(i)
      PROVE  UsedOnDay(signer, day)' <= DayCap
    BY <1>0, <1>2, SettleShrinks DEF Commit, Release
<1>3. ASSUME NEW ttl \in Time, ReleaseExpired(ttl)
      PROVE  UsedOnDay(signer, day)' <= DayCap
    BY <1>0, <1>3, SweepShrinks
<1>4. CASE UNCHANGED rows
    BY <1>0, <1>4 DEF UsedOnDay, Counted, Live, HasStatus
<1>. QED BY <1>1, <1>2, <1>3, <1>4 DEF Next, Tick, ledgerVars

LEMMA CapInit == Init => CapHolds
<1> SUFFICES ASSUME Init, NEW signer \in Signers, NEW day \in Days
             PROVE  UsedOnDay(signer, day) <= DayCap
    BY DEF CapHolds
<1>1. Counted(signer, day) = {}
    BY DEF Init, Counted, Live, HasStatus, NoRow
<1>2. UsedOnDay(signer, day) = 0
    BY <1>1, SumEmpty DEF UsedOnDay, SumFunction
<1>. QED BY <1>2, LedgerAssumption DEF LedgerAssumption

(* However reservations, commits, releases, late settlements and sweeps       *)
(* interleave, no day's reserved and committed amounts pass the cap.          *)
THEOREM CapIsNeverPassed == Spec => []CapHolds
BY TypeInit, TypeStep, CapInit, CapStep, PTL DEF Spec


-----------------------------------------------------------------------------
(* What the meters draw. *)
LEMMA TimesMonotone ==
    ASSUME NEW x \in Nat, NEW y \in Nat, NEW b \in Nat, x <= y PROVE x * b <= y * b
<1>1. PICK d \in Nat : y = x + d
    <2>1. y - x \in Nat /\ y = x + (y - x)
        OBVIOUS
    <2>. QED BY <2>1
<1>2. y * b = x * b + d * b
    BY <1>1
<1>3. x * b \in Nat /\ d * b \in Nat
    BY <1>1
<1>. QED BY <1>2, <1>3

(* Rounding down reaches a whole number when the dividend does. *)
LEMMA DivAtLeast ==
    ASSUME NEW a \in Nat, NEW b \in Nat \ {0}, NEW k \in Nat
    PROVE  a \div b \in Nat /\ (a \div b >= k <=> a >= k * b)
<1> DEFINE q == a \div b
           r == a % b
<1>1. q \in Nat /\ r \in Nat /\ r < b /\ a = q * b + r
    BY SMT
<1>. HIDE DEF q, r
<1>2. q >= k => q * b >= k * b
    BY <1>1, TimesMonotone
<1>3. q < k => (q + 1) * b <= k * b
    BY <1>1, TimesMonotone
<1>4. (q + 1) * b = q * b + b /\ q * b \in Nat /\ k * b \in Nat
    BY <1>1
<1>5. q \in Nat /\ (q >= k <=> a >= k * b)
    BY <1>1, <1>2, <1>3, <1>4
<1>. QED BY <1>5 DEF q

LEMMA MinOfTwo ==
    ASSUME NEW a \in Nat, NEW b \in Nat
    PROVE  Min({a, b}) = IF a <= b THEN a ELSE b
BY DEF Min

(* A meter is full at the cap, and shows an amount within the cap rounded    *)
(* down to a tenth of a percent.                                             *)
LEMMA RatioRoundsDown ==
    ASSUME NEW amount \in Nat, NEW whole \in Nat \ {0}, NEW k \in Nat, k <= 1000
    PROVE  /\ Ratio(amount, whole) \in Nat
           /\ Ratio(amount, whole) >= k <=> amount * 1000 >= k * whole
<1> DEFINE a == amount * 1000
<1>1. a \in Nat
    OBVIOUS
<1>2. a \div whole \in Nat /\ (a \div whole >= k <=> a >= k * whole)
    <2>. HIDE DEF a
    <2>. QED BY <1>1, DivAtLeast
<1>3. Ratio(amount, whole) = IF 1000 <= a \div whole THEN 1000 ELSE a \div whole
    <2>1. Ratio(amount, whole) = Min({1000, a \div whole})
        BY DEF Ratio
    <2>. HIDE DEF a
    <2>. QED BY <1>2, <2>1, MinOfTwo
<1>. HIDE DEF a
<1>4. Ratio(amount, whole) \in Nat /\ (Ratio(amount, whole) >= k <=> a >= k * whole)
    BY <1>2, <1>3
<1>. QED BY <1>4 DEF a

LEMMA RatioWithin ==
    ASSUME NEW amount \in Nat, NEW whole \in Nat \ {0}
    PROVE  /\ Ratio(amount, whole) \in Nat
           /\ Ratio(amount, whole) * whole <= amount * 1000
<1> DEFINE a == amount * 1000
           q == a \div whole
<1>1. a \in Nat
    OBVIOUS
<1>2. q \in Nat /\ a >= q * whole
    <2>1. a \div whole \in Nat
        <3>. HIDE DEF a
        <3>. QED BY <1>1, DivAtLeast
    <2>. HIDE DEF a
    <2>. QED BY <1>1, <2>1, DivAtLeast
<1>3. Ratio(amount, whole) = IF 1000 <= q THEN 1000 ELSE q
    <2>1. Ratio(amount, whole) = Min({1000, q})
        BY DEF Ratio
    <2>. HIDE DEF q
    <2>. QED BY <1>2, <2>1, MinOfTwo
<1>4. 1000 <= q => 1000 * whole <= q * whole
    <2>. HIDE DEF q
    <2>. QED BY <1>2, TimesMonotone
<1>. HIDE DEF q
<1>5. Ratio(amount, whole) \in Nat /\ Ratio(amount, whole) * whole <= a
    <2>1. CASE 1000 <= q
        <3>1. 1000 * whole <= q * whole /\ 1000 * whole \in Nat /\ q * whole \in Nat
            BY <1>2, <1>4, <2>1
        <3>. HIDE DEF a
        <3>. QED BY <1>1, <1>2, <1>3, <2>1, <3>1
    <2>2. CASE ~ 1000 <= q
        BY <1>2, <1>3, <2>2
    <2>. QED BY <2>1, <2>2
<1>. QED BY <1>5 DEF a

(* A card warns from the unit that reaches its threshold. *)
LEMMA CardsWarn == ASSUME NEW vault, vault.used \in Nat PROVE CardWarns(vault)
<1> DEFINE ratio == Ratio(vault.used, DayCap)
<1> SUFFICES ASSUME DayCap > 0
             PROVE  /\ Card(vault).level = "crit" <=> vault.used * 10 >= 9 * DayCap
                    /\ Card(vault).nearCap <=> vault.used * 10 >= 8 * DayCap
    BY DEF CardWarns
<1>1. DayCap \in Nat \ {0}
    BY LedgerAssumption DEF LedgerAssumption
<1>2. ASSUME NEW k \in Nat, k <= 1000
      PROVE  ratio \in Nat /\ (ratio >= k <=> vault.used * 1000 >= k * DayCap)
    BY <1>1, <1>2, RatioRoundsDown
<1>3. /\ Card(vault).level = MeterClass(ratio)
      /\ Card(vault).nearCap <=> ratio >= 800
    BY DEF Card
<1>. HIDE DEF ratio
<1>4. /\ ratio \in Nat
      /\ ratio >= 900 <=> vault.used * 10 >= 9 * DayCap
      /\ ratio >= 800 <=> vault.used * 10 >= 8 * DayCap
    <2>1. /\ ratio \in Nat
          /\ ratio >= 900 <=> vault.used * 1000 >= 900 * DayCap
          /\ ratio >= 800 <=> vault.used * 1000 >= 800 * DayCap
        BY <1>2
    <2>2. PICK u \in Nat : u = vault.used
        OBVIOUS
    <2>. QED BY <1>1, <2>1, <2>2
<1>5. MeterClass(ratio) = "crit" <=> ratio >= 900
    BY <1>4 DEF MeterClass
<1>. QED BY <1>3, <1>4, <1>5

-----------------------------------------------------------------------------
(* A row is filed under the day it was made on, which is not in the future:  *)
(* so a list cut off by age is cut off by day.                               *)
RowDays ==
    \A i \in Intents : rows[i] # NoRow =>
        rows[i].day = DayOf(rows[i].createdAt) /\ rows[i].createdAt <= now

LEMMA RowDaysInit == Init => RowDays
BY DEF Init, RowDays

LEMMA RowDaysStep == TypeOK /\ RowDays /\ [Next]_ledgerVars => RowDays'
<1> SUFFICES ASSUME TypeOK, RowDays, [Next]_ledgerVars,
                    NEW i \in Intents, rows'[i] # NoRow
             PROVE  rows'[i].day = DayOf(rows'[i].createdAt) /\ rows'[i].createdAt <= now'
    BY DEF RowDays, DayOf
<1> DEFINE Goal == rows'[i].day = DayOf(rows'[i].createdAt) /\ rows'[i].createdAt <= now'
<1>0. now \in Nat /\ now' \in Nat /\ now <= now'
    BY TypeStep, LedgerAssumption
       DEF LedgerAssumption, TypeOK, Time, Next, Tick, ledgerVars
<1>1. ASSUME rows[i] # NoRow,
             rows'[i] = rows[i] \/ rows'[i] = [rows[i] EXCEPT !.status = "released"]
                              \/ rows'[i] = [rows[i] EXCEPT !.status = "committed"]
      PROVE  Goal
    <2>1. rows[i] \in Row
        BY <1>1 DEF TypeOK
    <2>2. rows'[i].day = rows[i].day /\ rows'[i].createdAt = rows[i].createdAt
        BY <1>1, <2>1 DEF Row
    <2>3. rows[i].createdAt \in Nat
        BY <2>1, LedgerAssumption DEF Row, Time, LedgerAssumption
    <2>. QED BY <1>0, <1>1, <2>2, <2>3 DEF RowDays
<1>2. ASSUME NEW j \in Intents, NEW signer \in Signers, NEW amount \in Amounts,
             Reserve(j, signer, DayOf(now), amount), UNCHANGED now
      PROVE  Goal
    <2>1. CASE rows'[i] = rows[i]
        BY <1>1, <2>1
    <2>2. CASE rows'[i] # rows[i]
        <3>1. rows'[i] = [status |-> "reserved", signer |-> signer, day |-> DayOf(now),
                          amount |-> amount, createdAt |-> now]
            BY <1>2, <2>2 DEF Reserve, InsertReserved, TypeOK
        <3>. QED BY <1>0, <1>2, <3>1
    <2>. QED BY <2>1, <2>2
<1>3. ASSUME NEW j \in Intents, Commit(j) \/ Release(j) PROVE Goal
    <2>1. \/ rows'[i] = rows[i]
          \/ rows'[i] = [rows[i] EXCEPT !.status = "released"]
          \/ rows'[i] = [rows[i] EXCEPT !.status = "committed"]
        BY <1>3 DEF Commit, Release, Settle, TypeOK
    <2>2. rows[i] # NoRow
        BY <1>3 DEF Commit, Release, Settle, TypeOK, IsReserved, HasStatus, NoRow
    <2>. QED BY <1>1, <2>1, <2>2
<1>4. ASSUME NEW ttl \in Time, ReleaseExpired(ttl) PROVE Goal
    <2>1. rows'[i] = rows[i] \/ rows'[i] = [rows[i] EXCEPT !.status = "released"]
        BY <1>4 DEF ReleaseExpired
    <2>2. rows[i] # NoRow
        BY <1>4 DEF ReleaseExpired, Expired, IsReserved, HasStatus, NoRow
    <2>. QED BY <1>1, <2>1, <2>2
<1>5. CASE UNCHANGED rows
    BY <1>1, <1>5
<1>. QED BY <1>2, <1>3, <1>4, <1>5 DEF Next, Tick, ledgerVars

(* The days follow the clock. *)
LEMMA DaysFollow ==
    ASSUME NEW s \in Nat, NEW t \in Nat, s <= t PROVE DayOf(s) \in Nat /\ DayOf(s) <= DayOf(t)
<1>1. DayLen \in Nat \ {0}
    BY LedgerAssumption DEF LedgerAssumption
<1>2. /\ s \div DayLen \in Nat
      /\ t \div DayLen \in Nat
    BY <1>1, DivAtLeast
<1>3. s >= (s \div DayLen) * DayLen
    BY <1>1, <1>2, DivAtLeast
<1>4. (s \div DayLen) * DayLen \in Nat
    BY <1>1, <1>2
<1>5. t >= (s \div DayLen) * DayLen
    BY <1>3, <1>4
<1>6. t \div DayLen >= s \div DayLen
    BY <1>1, <1>2, <1>5, DivAtLeast
<1>. QED BY <1>2, <1>6 DEF DayOf

LEMMA LiveRow ==
    ASSUME TypeOK, RowDays, NEW i \in Intents, Live(i)
    PROVE  /\ rows[i] \in Row /\ rows[i].amount \in Nat
           /\ rows[i].createdAt \in Nat /\ rows[i].createdAt <= now
           /\ rows[i].day = DayOf(rows[i].createdAt)
           /\ now \in Nat
<1>1. rows[i] \in Row /\ rows[i] # NoRow
    BY DEF Live, HasStatus, TypeOK, NoRow
<1>2. rows[i].amount \in Amounts /\ rows[i].createdAt \in Time /\ now \in Time
    BY <1>1 DEF Row, TypeOK
<1>3. rows[i].amount \in Nat /\ rows[i].createdAt \in Nat /\ now \in Nat
    <2>1. Amounts \subseteq Nat /\ Time \subseteq Nat
        BY LedgerAssumption DEF LedgerAssumption, Time
    <2>. QED BY <1>2, <2>1
<1>4. rows[i].day = DayOf(rows[i].createdAt) /\ rows[i].createdAt <= now
    BY <1>1 DEF RowDays
<1>. QED BY <1>1, <1>3, <1>4

LiveRows(signer) == {i \in Intents : Live(i) /\ rows[i].signer = signer}

(* The newest rows, when they are fewer than the page lists or reach back to *)
(* an earlier day, have all of today's.                                      *)
LEMMA NewestAreComplete ==
    ASSUME TypeOK, RowDays, NEW signer, NEW S \in Newest(signer),
           \/ Cardinality(S) < RecentLimit
           \/ \E k \in S : DayOf(rows[k].createdAt) # DayOf(now)
    PROVE  Counted(signer, DayOf(now)) \subseteq S
<1> DEFINE L == LiveRows(signer)
<1>1. /\ S \in SUBSET L
      /\ Cardinality(S) = Min({RecentLimit, Cardinality(L)})
      /\ \A i \in S, j \in L \ S : rows[j].createdAt <= rows[i].createdAt
    BY DEF Newest, LiveRows
<1>2. Counted(signer, DayOf(now)) \subseteq L
    BY DEF Counted, LiveRows
<1>3. IsFiniteSet(L)
    BY LedgerAssumption, FS_Subset DEF LedgerAssumption, LiveRows
<1>4. CASE Cardinality(S) < RecentLimit
    <2>1. Cardinality(L) \in Nat /\ RecentLimit \in Nat
        BY <1>3, FS_CardinalityType, PagesAssumption DEF PagesAssumption
    <2>. HIDE DEF L
    <2>2. Cardinality(S) = Cardinality(L)
        BY <1>1, <1>4, <2>1, MinOfTwo
    <2>3. S = L
        BY <1>1, <1>3, <2>2, FS_Subset
    <2>. QED BY <1>2, <2>3
<1>5. ASSUME NEW k \in S, DayOf(rows[k].createdAt) # DayOf(now)
      PROVE  Counted(signer, DayOf(now)) \subseteq S
    <2>1. k \in Intents /\ Live(k)
        BY <1>1 DEF LiveRows
    <2>2. SUFFICES ASSUME NEW j \in Counted(signer, DayOf(now)), j \notin S PROVE FALSE
        OBVIOUS
    <2>3. j \in Intents /\ Live(j) /\ rows[j].day = DayOf(now) /\ j \in L
        BY <1>2, <2>2 DEF Counted
    <2>4. rows[j].createdAt <= rows[k].createdAt
        BY <1>1, <2>2, <2>3
    <2>5. /\ rows[k].createdAt \in Nat /\ rows[k].createdAt <= now /\ now \in Nat
          /\ rows[j].createdAt \in Nat /\ rows[j].day = DayOf(rows[j].createdAt)
        BY <2>1, <2>3, LiveRow
    <2>6. /\ DayOf(rows[k].createdAt) \in Nat /\ DayOf(now) \in Nat
          /\ DayOf(rows[j].createdAt) <= DayOf(rows[k].createdAt)
          /\ DayOf(rows[k].createdAt) <= DayOf(now)
        BY <2>4, <2>5, DaysFollow
    <2>. QED BY <1>5, <2>3, <2>5, <2>6
<1>. QED BY <1>4, <1>5

(* The widths of the day's segments, each rounded down, fit the meter filled *)
(* with their sum, since the sum is within the cap.                          *)
LEMMA WidthsFit ==
    ASSUME NEW O, IsFiniteSet(O), NEW amounts, \A i \in O : amounts[i] \in Nat,
           NEW widths, \A i \in O : widths[i] = Ratio(amounts[i], DayCap),
           NEW used \in Nat, used <= DayCap, SumFunctionOnSet(amounts, O) <= used
    PROVE  SumFunctionOnSet(widths, O) <= Ratio(used, DayCap)
<1> DEFINE W == SumFunctionOnSet(widths, O)
           A == SumFunctionOnSet(amounts, O)
<1>0. DayCap \in Nat /\ A \in Nat
    BY LedgerAssumption, SumType DEF LedgerAssumption
<1>1. CASE DayCap = 0
    <2>1. \A i \in O : widths[i] = 0 /\ widths[i] \in Nat
        BY <1>1 DEF Ratio
    <2>2. \A i \in O : amounts[i] \in Nat /\ widths[i] \in Nat /\ widths[i] * 1 <= amounts[i] * 0
        BY <2>1
    <2>3. W * 1 <= A * 0 /\ W \in Nat
        BY <2>1, <2>2, SumScaled, SumType
    <2>4. Ratio(used, DayCap) = 0
        BY <1>1 DEF Ratio
    <2>. QED BY <1>0, <2>3, <2>4
<1>2. CASE DayCap # 0
    <2>1. DayCap \in Nat \ {0}
        BY <1>0, <1>2
    <2>2. \A i \in O : widths[i] \in Nat /\ amounts[i] \in Nat
                        /\ widths[i] * DayCap <= amounts[i] * 1000
        <3>1. ASSUME NEW i \in O
              PROVE  /\ Ratio(amounts[i], DayCap) \in Nat
                     /\ Ratio(amounts[i], DayCap) * DayCap <= amounts[i] * 1000
            BY <2>1, RatioWithin
        <3>. QED BY <3>1
    <2>3. W * DayCap <= A * 1000
        BY <2>1, <2>2, SumScaled
    <2>4. W \in Nat
        BY <2>2, SumType
    <2>. HIDE DEF W, A
    <2>5. A * 1000 <= used * 1000 /\ used * 1000 <= DayCap * 1000 /\ A <= used
        BY <1>0 DEF A
    <2>6. W * DayCap \in Nat
        BY <1>0, <2>4
    <2>7. W * DayCap <= used * 1000 /\ W * DayCap <= DayCap * 1000
        BY <1>0, <2>3, <2>5, <2>6
    <2>8. W <= 1000
        <3>1. SUFFICES ASSUME W >= 1001 PROVE FALSE
            BY <2>4
        <3>2. 1001 * DayCap <= W * DayCap
            BY <1>0, <2>4, <3>1, TimesMonotone
        <3>. QED BY <2>1, <2>6, <2>7, <3>2
    <2>9. Ratio(used, DayCap) >= W /\ Ratio(used, DayCap) \in Nat
        BY <2>1, <2>4, <2>7, <2>8, RatioRoundsDown
    <2>. QED BY <2>4, <2>9 DEF W
<1>. QED BY <1>1, <1>2

(* What is answered for a vault adds up at the moment it is read. *)
LEMMA AnswerAddsUp ==
    ASSUME TypeOK, CapHolds, RowDays, policy \in Policies, NEW S \in Newest(policy.signer),
           NEW vault, vault = ProjectVault(policy, AsDebits(S))
    PROVE  AddsUp(vault)
<1> DEFINE today == DayOf(now)
           key == policy.signer
           C == Counted(key, today)
           O == OfItsDay(vault)
           amounts == [i \in O |-> vault.debits[i].amount]
           widths == [i \in O |-> SpendMeter(vault).segments[i]]
           counts == [i \in C |-> rows[i].amount]
<1>1. /\ vault.used = UsedOnDay(key, today) /\ vault.day = today
      /\ vault.debits = AsDebits(S) /\ DOMAIN vault.debits = S
    BY DEF ProjectVault, AsDebits
<1>2. S \in SUBSET LiveRows(key)
    BY DEF Newest, LiveRows
<1>3. \A i \in S : /\ i \in Intents /\ Live(i) /\ rows[i].signer = key
                   /\ rows[i].amount \in Nat
                   /\ vault.debits[i].amount = rows[i].amount
                   /\ vault.debits[i].at = rows[i].createdAt
                   /\ DayOf(vault.debits[i].at) = rows[i].day
    BY <1>1, <1>2, LiveRow DEF LiveRows, AsDebits
<1>4. O = {i \in S : rows[i].day = today}
    BY <1>1, <1>3 DEF OfItsDay
<1>5. O \in SUBSET C
    BY <1>3, <1>4 DEF Counted
<1>6. /\ IsFiniteSet(C) /\ \A i \in C : counts[i] \in Nat
      /\ vault.used = SumFunctionOnSet(counts, C) /\ vault.used \in Nat
    BY <1>1, CountedAmounts
<1>7. IsFiniteSet(O)
    BY <1>5, <1>6, FS_Subset
<1>8. \A i \in O : amounts[i] = counts[i]
    BY <1>3, <1>4, <1>5
<1>9. \A i \in O : amounts[i] \in Nat
    BY <1>3, <1>4
<1>10. \A i \in O : widths[i] = Ratio(amounts[i], DayCap)
    BY <1>1, <1>4 DEF SpendMeter
<1>11. SpendMeter(vault).used = Ratio(vault.used, DayCap)
    BY DEF SpendMeter
<1>12. /\ SumFunction(amounts) = SumFunctionOnSet(amounts, O)
       /\ SumFunction(widths) = SumFunctionOnSet(widths, O)
    BY DEF SumFunction
<1>13. vault.used <= DayCap
    <2>1. today \in Days
        BY DayInDays DEF TypeOK
    <2>2. key \in Signers
        BY DEF Policies
    <2>. QED BY <1>1, <2>1, <2>2 DEF CapHolds
<1>14. (Cardinality(DOMAIN vault.debits) < RecentLimit \/ O # DOMAIN vault.debits) => O = C
    <2>1. SUFFICES ASSUME Cardinality(S) < RecentLimit \/ O # S PROVE C \subseteq O
        BY <1>1, <1>5
    <2>2. O # S => \E k \in S : DayOf(rows[k].createdAt) # today
        BY <1>3, <1>4
    <2>3. C \subseteq S
        BY <2>1, <2>2, NewestAreComplete
    <2>. QED BY <1>4, <2>3 DEF Counted
<1>15. AddsUp(vault) <=>
        /\ SumFunction(amounts) <= vault.used
        /\ (\/ Cardinality(DOMAIN vault.debits) < RecentLimit
            \/ O # DOMAIN vault.debits) => SumFunction(amounts) = vault.used
        /\ SumFunction(widths) <= SpendMeter(vault).used
    BY DEF AddsUp
<1>. HIDE DEF C, O, amounts, widths, counts
<1>16. SumFunctionOnSet(amounts, O) <= vault.used
    BY <1>5, <1>6, <1>8, SumShrinks
<1>17. O = C => SumFunctionOnSet(amounts, O) = vault.used
    BY <1>6, <1>8, SumSame
<1>18. SumFunctionOnSet(widths, O) <= Ratio(vault.used, DayCap)
    BY <1>6, <1>7, <1>9, <1>10, <1>13, <1>16, WidthsFit
<1>. QED BY <1>11, <1>12, <1>14, <1>15, <1>16, <1>17, <1>18

-----------------------------------------------------------------------------
(* Every step of the pages is a step of the ledger or leaves it alone. *)
LEMMA PagesStepIsLedgerStep == policy \in Policies /\ [PagesNext]_allVars => [Next]_ledgerVars
<1> SUFFICES ASSUME policy \in Policies, [PagesNext]_allVars PROVE [Next]_ledgerVars
    OBVIOUS
<1>0. policy.signer \in Signers
    BY DEF Policies
<1>1. CASE ApiReserves
    BY <1>0, <1>1 DEF ApiReserves, Next
<1>2. CASE ApiSettles
    BY <1>2 DEF ApiSettles, Next
<1>3. CASE Sweep
    BY <1>3 DEF Sweep, Next
<1>4. CASE TimePasses
    BY <1>4 DEF TimePasses, Next
<1>5. CASE Restart \/ Serve \/ Lose \/ Leave \/ Deliver
    BY <1>5 DEF Restart, Serve, Lose, Leave, Deliver, ledgerVars
<1>6. CASE \E view \in Pages, id \in Ids : Open(view, id)
    BY <1>6 DEF Open, ledgerVars
<1>7. CASE UNCHANGED allVars
    BY <1>7 DEF allVars, ledgerVars
<1>. QED BY <1>1, <1>2, <1>3, <1>4, <1>5, <1>6, <1>7 DEF PagesNext

-----------------------------------------------------------------------------
(* A page on screen is a record with its four fields, and not a closed one. *)
PageForm ==
    page # NoPage =>
        /\ page = [status |-> page.status, view |-> page.view, id |-> page.id,
                   answer |-> page.answer]
        /\ page.status # "closed"

PagesInv == PagesTypeOK /\ PageForm

LEMMA PagesInitInv == PagesInit => PagesInv
BY TypeInit DEF PagesInit, PagesInv, PagesTypeOK, PageForm, NoPage

(* A vault is answered with some live debits of its key: none of them to the *)
(* list, and to a detail page the newest.                                    *)
LEMMA AnswerForm ==
    ASSUME NEW p, p.view \in Pages, NEW answer \in AnswersTo(p), answer.kind = "vault"
    PROVE  \E S \in SUBSET LiveRows(policy.signer) :
                answer = Found(ProjectVault(policy, AsDebits(S)))
<1>1. CASE p.view = "list"
    <2>1. answer = Found(ProjectVault(policy, AsDebits({})))
        BY <1>1 DEF AnswersTo, ListAnswer
    <2>. QED BY <2>1
<1>2. CASE p.view = "detail"
    <2>1. answer # NotFound
        BY DEF NotFound
    <2>2. PICK S \in Newest(policy.signer) : answer = Found(ProjectVault(policy, AsDebits(S)))
        BY <1>2, <2>1 DEF AnswersTo, DetailAnswer
    <2>3. S \in SUBSET LiveRows(policy.signer)
        BY DEF Newest, LiveRows
    <2>. QED BY <2>2, <2>3
<1>. QED BY <1>1, <1>2 DEF Pages

(* Whatever the API answers is well formed. *)
LEMMA AnswersAreRight ==
    ASSUME TypeOK, policy \in Policies, NEW p, p.view \in Pages, NEW answer \in AnswersTo(p)
    PROVE  AnswerOK(answer) /\ answer # NoAnswer
<1>1. CASE answer.kind = "vault"
    <2>1. DayOf(now) \in Days
        BY DayInDays DEF TypeOK
    <2>2. PICK S \in SUBSET LiveRows(policy.signer) :
                answer = Found(ProjectVault(policy, AsDebits(S)))
        BY <1>1, AnswerForm
    <2>3. VaultId(policy) \in Ids /\ policy.signer \in Signers
        BY PagesAssumption DEF PagesAssumption, VaultId, Policies
    <2>4. S \subseteq Intents
        BY DEF LiveRows
    <2>. QED BY <1>1, <2>1, <2>2, <2>3, <2>4
             DEF AnswerOK, Found, ProjectVault, AsDebits, NoAnswer
<1>2. CASE answer.kind # "vault"
    <2>1. p.view # "list"
        BY <1>2 DEF AnswersTo, ListAnswer, Found
    <2>2. answer = NotFound
        BY <1>2, <2>1 DEF AnswersTo, DetailAnswer, Found
    <2>. QED BY <2>2 DEF NotFound, NoAnswer, AnswerOK
<1>. QED BY <1>1, <1>2

LEMMA PagesStep == PagesInv /\ [PagesNext]_allVars => PagesInv'
<1> SUFFICES ASSUME PagesInv, [PagesNext]_allVars PROVE PagesInv'
    OBVIOUS
<1>0. TypeOK'
    BY TypeStep, PagesStepIsLedgerStep DEF PagesInv, PagesTypeOK
<1> USE DEF PagesInv, PagesTypeOK, PageForm
<1>1. CASE ApiReserves \/ ApiSettles \/ Sweep \/ TimePasses \/ UNCHANGED allVars
    BY <1>0, <1>1 DEF ApiReserves, ApiSettles, Sweep, TimePasses, pageVars, allVars,
        AnswerOK
<1>2. CASE Restart
    BY <1>0, <1>2 DEF Restart, AnswerOK
<1>3. CASE Serve
    <2>1. page # NoPage
        BY <1>3 DEF Serve, NoPage
    <2>2. PICK answer \in AnswersTo(page) : page' = [page EXCEPT !.answer = answer]
        BY <1>3 DEF Serve
    <2>3. AnswerOK(answer)
        BY <2>1, AnswersAreRight
    <2>4. page' = [status |-> page.status, view |-> page.view, id |-> page.id,
                   answer |-> answer]
        BY <2>1, <2>2
    <2>. QED BY <1>0, <1>3, <2>1, <2>3, <2>4 DEF Serve, NoPage, AnswerOK
<1>4. CASE Lose
    <2>1. page # NoPage
        BY <1>4 DEF Lose, NoPage
    <2>2. page' = [status |-> page.status, view |-> page.view, id |-> page.id,
                   answer |-> Lost]
        BY <1>4, <2>1 DEF Lose
    <2>. QED BY <1>0, <1>4, <2>1, <2>2 DEF Lose, Lost, NoPage, AnswerOK
<1>5. CASE Deliver
    <2>1. page # NoPage
        BY <1>5 DEF Deliver, NoPage
    <2>2. page' = [status |-> StatusOf(page), view |-> page.view, id |-> page.id,
                   answer |-> page.answer]
        BY <1>5, <2>1 DEF Deliver
    <2>3. /\ StatusOf(page) \in {"shown", "notFound", "error"}
          /\ StatusOf(page) = "shown" <=> page.answer.kind = "vault"
        BY DEF StatusOf, NotFound
    <2>4. CommittedOf(page.answer) \subseteq Intents
        BY <2>1 DEF CommittedOf, AnswerOK
    <2>. QED BY <1>0, <1>5, <2>1, <2>2, <2>3, <2>4 DEF Deliver, NoPage, AnswerOK
<1>6. CASE Leave
    BY <1>0, <1>6 DEF Leave, NoPage
<1>7. ASSUME NEW view \in Pages, NEW id \in Ids, Open(view, id) PROVE PagesInv'
    BY <1>0, <1>7 DEF Open, NoPage, NoAnswer, AnswerOK
<1>. QED BY <1>1, <1>2, <1>3, <1>4, <1>5, <1>6, <1>7 DEF PagesNext

(* The rows, the request and the page on screen stay well formed. *)
THEOREM PagesTypeCorrect == PagesSpec => []PagesTypeOK
<1>1. PagesInv => PagesTypeOK
    BY DEF PagesInv
<1>. QED BY <1>1, PagesInitInv, PagesStep, PTL DEF PagesSpec

(* The API, its restarts and the pages keep to the ledger's specification,   *)
(* so everything the ledger promises any caller holds under them.            *)
THEOREM PagesKeepTheLedger == PagesSpec => Spec
<1>1. PagesInit => Init
    BY DEF PagesInit
<1>2. PagesInv /\ [PagesNext]_allVars => [Next]_ledgerVars
    BY PagesStepIsLedgerStep DEF PagesInv, PagesTypeOK
<1>. QED BY <1>1, <1>2, PagesInitInv, PagesStep, PTL DEF PagesSpec, Spec

(* A settled row stays as it is under the API and its restarts. *)
THEOREM SettledUnderPages == PagesSpec => SettledIsFinal
BY PagesKeepTheLedger, SettlementIsFinal

(* The cap holds under the API and its restarts, whatever policy they bring. *)
THEOREM CapUnderPages == PagesSpec => []CapHolds
BY PagesKeepTheLedger, CapIsNeverPassed

-----------------------------------------------------------------------------
(* An answer keeps adding up: it is not touched after it was given. *)
MeterInv ==
    page # NoPage /\ page.answer.kind = "vault" =>
        /\ page.view = "detail" => AddsUp(page.answer.vault)
        /\ CardWarns(page.answer.vault)

(* The ledger's side of it holds of any callers. *)
LedgerInv == CapHolds /\ RowDays

LEMMA ServedMeter ==
    ASSUME TypeOK, LedgerInv, policy \in Policies, NEW p, NEW view \in Pages, p.view = view,
           NEW answer \in AnswersTo(p), answer.kind = "vault"
    PROVE  /\ view = "detail" => AddsUp(answer.vault)
           /\ CardWarns(answer.vault)
<1>1. ASSUME NEW S, answer = Found(ProjectVault(policy, AsDebits(S)))
      PROVE  /\ answer.vault = ProjectVault(policy, AsDebits(S))
             /\ CardWarns(answer.vault)
    <2>1. answer.vault = ProjectVault(policy, AsDebits(S))
        BY <1>1 DEF Found
    <2>2. answer.vault.used = UsedOnDay(policy.signer, DayOf(now))
        BY <2>1 DEF ProjectVault
    <2>3. answer.vault.used \in Nat
        BY <2>2, CountedAmounts
    <2>. QED BY <2>1, <2>3, CardsWarn
<1>2. CASE view = "list"
    BY <1>1, <1>2 DEF AnswersTo, ListAnswer
<1>3. CASE view = "detail"
    <2>1. answer # NotFound
        BY DEF NotFound
    <2>2. PICK S \in Newest(policy.signer) : answer = Found(ProjectVault(policy, AsDebits(S)))
        BY <1>3, <2>1 DEF AnswersTo, DetailAnswer
    <2>3. AddsUp(answer.vault)
        BY <1>1, <2>2, AnswerAddsUp DEF LedgerInv
    <2>. QED BY <1>1, <1>3, <2>2, <2>3
<1>. QED BY <1>2, <1>3 DEF Pages

LEMMA MeterStep == PagesInv /\ LedgerInv /\ MeterInv /\ [PagesNext]_allVars => MeterInv'
<1> SUFFICES ASSUME PagesInv, LedgerInv, MeterInv, [PagesNext]_allVars PROVE MeterInv'
    OBVIOUS
<1>1. CASE UNCHANGED page
    BY <1>1 DEF MeterInv, AddsUp, CardWarns, OfItsDay, SpendMeter, Card
<1>2. ASSUME NEW p, page' = p, p = NoPage \/ p.answer.kind # "vault" PROVE MeterInv'
    BY <1>2 DEF MeterInv
<1>3. ASSUME page # NoPage, NEW status,
             page' = [status |-> status, view |-> page.view, id |-> page.id,
                      answer |-> page.answer]
      PROVE  MeterInv'
    <2>1. page'.answer = page.answer /\ page'.view = page.view
        BY <1>3
    <2>. QED BY <1>3, <2>1 DEF MeterInv, AddsUp, CardWarns, OfItsDay, SpendMeter, Card
<1>4. CASE Serve
    <2>1. page # NoPage
        BY <1>4 DEF Serve, NoPage
    <2>2. PICK answer \in AnswersTo(page) : page' = [page EXCEPT !.answer = answer]
        BY <1>4 DEF Serve
    <2>3. page'.answer = answer /\ page'.view = page.view
        BY <2>1, <2>2 DEF PagesInv, PageForm
    <2>4. answer.kind = "vault" =>
            /\ page.view = "detail" => AddsUp(answer.vault)
            /\ CardWarns(answer.vault)
        BY <2>1, ServedMeter DEF PagesInv, PagesTypeOK
    <2>. QED BY <2>3, <2>4 DEF MeterInv, AddsUp, CardWarns, OfItsDay, SpendMeter, Card
<1>5. CASE Lose
    <2>1. page # NoPage
        BY <1>5 DEF Lose, NoPage
    <2>2. page'.answer = Lost
        BY <1>5, <2>1 DEF Lose, PagesInv, PageForm
    <2>. QED BY <1>2, <2>2 DEF Lost
<1>6. CASE Deliver
    <2>1. page # NoPage
        BY <1>6 DEF Deliver, NoPage
    <2>2. page' = [status |-> StatusOf(page), view |-> page.view, id |-> page.id,
                   answer |-> page.answer]
        BY <1>6, <2>1 DEF Deliver, PagesInv, PageForm
    <2>. QED BY <1>3, <2>1, <2>2
<1>7. CASE Leave
    BY <1>2, <1>7 DEF Leave
<1>8. ASSUME NEW view \in Pages, NEW id \in Ids, Open(view, id) PROVE MeterInv'
    BY <1>2, <1>8 DEF Open, NoAnswer
<1>. QED BY <1>1, <1>4, <1>5, <1>6, <1>7, <1>8
         DEF PagesNext, ApiReserves, ApiSettles, Sweep, TimePasses, Restart, allVars, pageVars

(* What is on screen adds up: the debits and their segments never come to    *)
(* more than the spend shown above them, nor to less when no debit of the    *)
(* day can be missing from the list, and a card warns from its threshold on. *)
THEOREM MetersMatchDebits == PagesSpec => []MeterMatchesDebits
<1>1. PagesInit => LedgerInv /\ MeterInv
    BY CapInit, RowDaysInit DEF PagesInit, LedgerInv, MeterInv
<1>2. PagesInv /\ LedgerInv /\ [PagesNext]_allVars => LedgerInv'
    BY CapStep, RowDaysStep, PagesStepIsLedgerStep DEF PagesInv, PagesTypeOK, LedgerInv
<1>3. PagesInv /\ MeterInv => MeterMatchesDebits
    <2> SUFFICES ASSUME PagesInv, MeterInv, page # NoPage
                 PROVE  /\ "meter" \in Screen(page) => AddsUp(page.answer.vault)
                        /\ "card" \in Screen(page) => CardWarns(page.answer.vault)
        BY DEF MeterMatchesDebits, Screen
    <2>1. page.view \in Pages /\ page.status \in {"loading", "shown", "notFound", "error"}
        BY DEF PagesInv, PagesTypeOK, PageForm
    <2>2. page.status = "shown" => page.answer.kind = "vault"
        BY DEF PagesInv, PagesTypeOK
    <2>3. "meter" \in Screen(page) => page.view = "detail" /\ page.status = "shown"
        BY <2>1 DEF Screen, ListScreen, DetailScreen, Pages
    <2>4. "card" \in Screen(page) => page.status = "shown"
        BY <2>1 DEF Screen, ListScreen, DetailScreen, Pages
    <2>. QED BY <2>2, <2>3, <2>4 DEF MeterInv
<1>. QED BY <1>1, <1>2, <1>3, PagesInitInv, PagesStep, MeterStep, PTL DEF PagesSpec

-----------------------------------------------------------------------------
(* The part of S that counts for a vault, and what it comes to. *)
Under(S, vault) == {i \in S : rows[i].signer = vault.signer /\ rows[i].day = vault.day}

SpentUnder(S, vault) ==
    SumFunctionOnSet([i \in Under(S, vault) |-> rows[i].amount], Under(S, vault))

Committed(i) == i \in Intents /\ HasStatus(i, {"committed"})

(* What was ever shown as committed is so for good, and together with what   *)
(* the page is about to show it is within the spend the page was answered.   *)
KeptInv ==
    /\ \A i \in seen : Committed(i)
    /\ page # NoPage /\ page.answer.kind = "vault" =>
            /\ \A i \in CommittedOf(page.answer) : Committed(i)
            /\ SpentUnder(seen \cup CommittedOf(page.answer), page.answer.vault)
                    <= page.answer.vault.used
            /\ page.answer.vault.used \in Nat

(* Committed rows are changed by nothing the ledger does. *)
LEMMA CommittedStays ==
    ASSUME TypeOK, [Next]_ledgerVars, NEW i, Committed(i)
    PROVE  Committed(i)' /\ rows'[i] = rows[i]
<1>1. i \in Intents /\ Settled(i)
    BY DEF Committed, Settled, HasStatus
<1>2. rows'[i] = rows[i]
    BY <1>1, SettledStep
<1>. QED BY <1>1, <1>2 DEF Committed, HasStatus

LEMMA SpentStays ==
    ASSUME TypeOK, [Next]_ledgerVars, NEW S, \A i \in S : Committed(i), NEW vault
    PROVE  SpentUnder(S, vault)' = SpentUnder(S, vault)
<1>1. \A i \in S : rows'[i] = rows[i]
    BY CommittedStays
<1>2. Under(S, vault)' = Under(S, vault)
    BY <1>1 DEF Under
<1>3. [i \in Under(S, vault)' |-> rows'[i].amount] = [i \in Under(S, vault) |-> rows[i].amount]
    BY <1>1, <1>2 DEF Under
<1>. QED BY <1>2, <1>3 DEF SpentUnder

(* An answer counts all that was seen and all that it lists itself. *)
LEMMA ServedKeeps ==
    ASSUME TypeOK, policy \in Policies, \A i \in seen : Committed(i),
           NEW p, p.view \in Pages, NEW answer \in AnswersTo(p), answer.kind = "vault"
    PROVE  /\ \A i \in CommittedOf(answer) : Committed(i)
           /\ SpentUnder(seen \cup CommittedOf(answer), answer.vault) <= answer.vault.used
           /\ answer.vault.used \in Nat
<1> DEFINE key == policy.signer
           today == DayOf(now)
           C == Counted(key, today)
           f == [i \in C |-> rows[i].amount]
           U == Under(seen \cup CommittedOf(answer), answer.vault)
           g == [i \in U |-> rows[i].amount]
<1>1. PICK S \in SUBSET LiveRows(key) : answer = Found(ProjectVault(policy, AsDebits(S)))
    BY AnswerForm
<1>2. /\ answer.vault.signer = key /\ answer.vault.day = today
      /\ answer.vault.used = UsedOnDay(key, today) /\ answer.vault.debits = AsDebits(S)
    BY <1>1 DEF Found, ProjectVault
<1>3. \A i \in CommittedOf(answer) : Committed(i)
    BY <1>2 DEF CommittedOf, AsDebits, LiveRows, Committed, HasStatus
<1>4. U \subseteq C
    BY <1>2, <1>3 DEF Under, Counted, Committed, Live, HasStatus
<1>5. /\ IsFiniteSet(C) /\ \A i \in C : f[i] \in Nat
      /\ answer.vault.used = SumFunctionOnSet(f, C) /\ answer.vault.used \in Nat
    BY <1>2, CountedAmounts
<1>6. \A i \in U : g[i] = f[i]
    BY <1>4
<1>7. SpentUnder(seen \cup CommittedOf(answer), answer.vault) = SumFunctionOnSet(g, U)
    BY DEF SpentUnder
<1>. HIDE DEF C, U, f, g
<1>8. SumFunctionOnSet(g, U) <= SumFunctionOnSet(f, C)
    BY <1>4, <1>5, <1>6, SumShrinks
<1>. QED BY <1>3, <1>5, <1>7, <1>8

LEMMA KeptStep == PagesInv /\ KeptInv /\ [PagesNext]_allVars => KeptInv'
<1> SUFFICES ASSUME PagesInv, KeptInv, [PagesNext]_allVars PROVE KeptInv'
    OBVIOUS
<1>0. TypeOK /\ policy \in Policies /\ [Next]_ledgerVars
    BY PagesStepIsLedgerStep DEF PagesInv, PagesTypeOK
<1>1. \A i \in seen : Committed(i)'
    BY <1>0, CommittedStays DEF KeptInv
<1>2. CASE UNCHANGED <<page, seen>>
    <2>1. PICK S : S = seen \cup CommittedOf(page.answer)
        OBVIOUS
    <2>2. PICK answer : answer = page.answer
        OBVIOUS
    <2>3. SUFFICES ASSUME page # NoPage, answer.kind = "vault"
                   PROVE  /\ \A i \in CommittedOf(answer) : Committed(i)'
                          /\ SpentUnder(S, answer.vault)' <= answer.vault.used
                          /\ answer.vault.used \in Nat
        BY <1>1, <1>2, <2>1, <2>2 DEF KeptInv, CommittedOf
    <2>4. \A i \in S : Committed(i)
        BY <2>1, <2>2, <2>3 DEF KeptInv
    <2>5. SpentUnder(S, answer.vault)' = SpentUnder(S, answer.vault)
        BY <1>0, <2>4, SpentStays
    <2>. QED BY <1>0, <2>1, <2>2, <2>3, <2>4, <2>5, CommittedStays DEF KeptInv
<1>3. ASSUME UNCHANGED seen, NEW p, page' = p, p = NoPage \/ p.answer.kind # "vault"
      PROVE  KeptInv'
    BY <1>1, <1>3 DEF KeptInv
<1>4. CASE Serve
    <2>1. page # NoPage /\ UNCHANGED <<rows, seen>>
        BY <1>4 DEF Serve, NoPage
    <2>2. PICK answer \in AnswersTo(page) : page' = [page EXCEPT !.answer = answer]
        BY <1>4 DEF Serve
    <2>3. page'.answer = answer /\ page.view \in Pages
        BY <2>1, <2>2 DEF PagesInv, PageForm, PagesTypeOK
    <2>4. answer.kind = "vault" =>
            /\ \A i \in CommittedOf(answer) : Committed(i)
            /\ SpentUnder(seen \cup CommittedOf(answer), answer.vault) <= answer.vault.used
            /\ answer.vault.used \in Nat
        BY <1>0, <2>3, ServedKeeps DEF KeptInv
    <2>. QED BY <1>1, <2>1, <2>3, <2>4
             DEF KeptInv, CommittedOf, Committed, HasStatus, SpentUnder, Under
<1>5. CASE Lose
    <2>1. page # NoPage /\ UNCHANGED seen
        BY <1>5 DEF Lose, NoPage
    <2>2. page'.answer = Lost
        BY <1>5, <2>1 DEF Lose, PagesInv, PageForm
    <2>. QED BY <1>3, <2>1, <2>2 DEF Lost
<1>6. CASE Deliver
    <2>1. page # NoPage /\ UNCHANGED rows /\ seen' = seen \cup CommittedOf(page.answer)
        BY <1>6 DEF Deliver, NoPage
    <2>2. page'.answer = page.answer
        BY <1>6, <2>1 DEF Deliver, PagesInv, PageForm
    <2>3. CommittedOf(page.answer)' = CommittedOf(page.answer)
        BY <2>2 DEF CommittedOf
    <2>4. seen' \cup CommittedOf(page.answer)' = seen \cup CommittedOf(page.answer)
        BY <2>1, <2>3
    <2>5. page.answer.kind # "vault" => CommittedOf(page.answer) = {}
        BY DEF CommittedOf
    <2>6. PICK S : S = seen \cup CommittedOf(page.answer)
        OBVIOUS
    <2>7. \A i \in S : Committed(i)'
        BY <2>1, <2>5, <2>6 DEF KeptInv, Committed, HasStatus
    <2>. QED BY <2>1, <2>2, <2>3, <2>4, <2>6, <2>7 DEF KeptInv, SpentUnder, Under
<1>7. CASE Leave
    BY <1>3, <1>7 DEF Leave
<1>8. ASSUME NEW view \in Pages, NEW id \in Ids, Open(view, id) PROVE KeptInv'
    BY <1>3, <1>8 DEF Open, NoAnswer
<1>. QED BY <1>2, <1>4, <1>5, <1>6, <1>7, <1>8
         DEF PagesNext, ApiReserves, ApiSettles, Sweep, TimePasses, Restart, allVars, pageVars

(* What a page has shown as committed is counted by every vault of its key   *)
(* that is shown for that day from then on, for any rows, pages, sweeps and  *)
(* restarts with any policies.                                               *)
THEOREM WhatWasShownIsKept == PagesSpec => []ShownCommitsStay
<1>1. PagesInit => KeptInv
    BY DEF PagesInit, KeptInv
<1>2. PagesInv /\ KeptInv => ShownCommitsStay
    <2> SUFFICES ASSUME PagesInv, KeptInv, page.status = "shown"
                 PROVE  LET vault == page.answer.vault
                        IN  SumFunction([i \in SeenUnder(vault) |-> rows[i].amount])
                                <= vault.used
        BY DEF ShownCommitsStay
    <2> DEFINE vault == page.answer.vault
               T == seen \cup CommittedOf(page.answer)
               U == Under(T, vault)
               R == SeenUnder(vault)
               f == [i \in U |-> rows[i].amount]
               g == [i \in R |-> rows[i].amount]
    <2>1. page # NoPage /\ page.answer.kind = "vault"
        BY DEF PagesInv, PagesTypeOK, NoPage
    <2>2. /\ SumFunctionOnSet(f, U) <= vault.used /\ vault.used \in Nat
          /\ \A i \in T : Committed(i)
        BY <2>1 DEF KeptInv, SpentUnder
    <2>3. R \in SUBSET U
        BY DEF SeenUnder, Under
    <2>4. \A i \in U : i \in Intents /\ rows[i].amount \in Nat
        <3>1. ASSUME NEW i \in U PROVE rows[i].amount \in Amounts /\ i \in Intents
            BY <2>2 DEF Under, Committed, HasStatus, PagesInv, PagesTypeOK, TypeOK, Row, NoRow
        <3>. QED BY <3>1, LedgerAssumption DEF LedgerAssumption
    <2>5. IsFiniteSet(U)
        <3>1. U \in SUBSET Intents
            BY <2>4
        <3>. QED BY <3>1, LedgerAssumption, FS_Subset DEF LedgerAssumption
    <2>6. SumFunction(g) = SumFunctionOnSet(g, R)
        BY DEF SumFunction
    <2>7. (\A i \in U : f[i] \in Nat) /\ (\A i \in R : g[i] = f[i])
        BY <2>3, <2>4
    <2>8. SumFunctionOnSet(f, U) \in Nat
        BY <2>5, <2>7, SumType
    <2>. HIDE DEF U, R, f, g, vault
    <2>9. SumFunctionOnSet(g, R) \in Nat /\ SumFunctionOnSet(g, R) <= SumFunctionOnSet(f, U)
        BY <2>3, <2>5, <2>7, SumShrinks
    <2>. QED BY <2>2, <2>6, <2>8, <2>9 DEF g, R, vault
<1>. QED BY <1>1, <1>2, PagesInitInv, PagesStep, KeptStep, PTL DEF PagesSpec

=============================================================================

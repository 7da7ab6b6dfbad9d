------------------------- MODULE SignerGuardProofs -------------------------
(***************************************************************************)
(* The guard's promises about signatures, for any intents, policies and     *)
(* slots.  The inductive invariant says that a call waiting for the signer  *)
(* is the only one for its intent, holds its open reservation, and that the *)
(* intent has not been signed yet: what excludes a second signature is the  *)
(* one row an intent ever gets.  That a policy's own cap is respected is a  *)
(* property of one step: a reservation adds its amount to a sum (SumLaws)   *)
(* that was checked with it.                                                *)
(***************************************************************************)
EXTENDS SignerGuard, SumLaws, TLAPS

InUse(s) == signing[s] # Idle
NewRow(req) == [status |-> "reserved", signer |-> Signer, day |-> Table!DayOf(now),
                amount |-> req.amount, createdAt |-> now]

(* What a step of the guard does to the table, whatever the cap. *)
LEMMA AuthorizeEffect ==
    ASSUME NEW s \in Slots, NEW req \in Request, Authorize(s, req)
    PROVE  /\ rows[req.intent] = Table!NoRow
           /\ rows' = [rows EXCEPT ![req.intent] = NewRow(req)]
           /\ ~ InUse(s) /\ signing' = [signing EXCEPT ![s] = req]
           /\ UNCHANGED <<now, signed, cutOff>>
<1>1. rows[req.intent] = Table!NoRow
    BY DEF Authorize, Ledger!ReserveResult, Table!NoRow, Ledger!NoRow
<1>2. rows' = [rows EXCEPT ![req.intent] = NewRow(req)]
    BY DEF Authorize, Ledger!InsertReserved, NewRow
<1>. QED BY <1>1, <1>2 DEF Authorize, InUse

LEMMA RequestIntent ==
    \A req \in Request : req # Idle /\ req.intent \in Intents /\ req.amount \in Amounts
BY DEF Request, Idle

LEMMA CallIntent ==
    ASSUME TypeOK, NEW s \in Slots, InUse(s) PROVE signing[s].intent \in Intents
BY RequestIntent DEF TypeOK, InUse

LEMMA SettleEffect ==
    ASSUME TypeOK, NEW i \in Intents, NEW status \in {"committed", "released"},
           Table!Settle(i, status)
    PROVE  /\ \A k \in Intents \ {i} : rows'[k] = rows[k]
           /\ Table!IsReserved(i) => rows'[i].status = status
           /\ ~ Table!IsReserved(i) => rows'[i] = rows[i]
           /\ rows' \in [Intents -> Table!Row \cup {Table!NoRow}]
<1>1. CASE Table!IsReserved(i)
    <2>1. rows[i] \in Table!Row
        BY <1>1 DEF TypeOK, Table!TypeOK, Table!IsReserved, Table!HasStatus, Table!NoRow
    <2>2. /\ [rows[i] EXCEPT !.status = status] \in Table!Row
          /\ [rows[i] EXCEPT !.status = status].status = status
        BY <2>1 DEF Table!Row
    <2>. QED BY <1>1, <2>2 DEF TypeOK, Table!TypeOK, Table!Settle
<1>2. CASE ~ Table!IsReserved(i)
    BY <1>2 DEF TypeOK, Table!TypeOK, Table!Settle
<1>. QED BY <1>1, <1>2

-----------------------------------------------------------------------------
LEMMA TypeInit == Init => TypeOK
BY GuardAssumption DEF GuardAssumption, Init, TypeOK, Table!TypeOK, Table!Time

LEMMA TypeStep == TypeOK /\ [Next]_vars => TypeOK'
<1> SUFFICES ASSUME TypeOK, [Next]_vars PROVE TypeOK'
    OBVIOUS
<1>1. ASSUME NEW s \in Slots, NEW req \in Request, Authorize(s, req) PROVE TypeOK'
    <2>1. NewRow(req) \in Table!Row
        <3>1. now \in Table!Time /\ Table!DayOf(now) \in Table!Days
            BY GuardAssumption
               DEF GuardAssumption, TypeOK, Table!TypeOK, Table!Time, Table!Days, Table!DayOf
        <3>. QED BY <3>1, RequestIntent DEF NewRow, Table!Row
    <2>. QED BY <1>1, <2>1, AuthorizeEffect, RequestIntent DEF TypeOK, Table!TypeOK
<1>2. ASSUME NEW s \in Slots, SignerSigns(s) PROVE TypeOK'
    BY <1>2, CallIntent DEF SignerSigns, TypeOK, Table!TypeOK, InUse
<1>3. ASSUME NEW s \in Slots, SignerFails(s) PROVE TypeOK'
    <2>1. Table!Settle(signing[s].intent, "released") /\ signing[s].intent \in Intents
        BY <1>3, CallIntent DEF SignerFails, Table!Release, InUse
    <2>. QED BY <1>3, <2>1, SettleEffect DEF SignerFails, TypeOK, Table!TypeOK
<1>4. ASSUME NEW i \in Intents, CallerCommits(i) PROVE TypeOK'
    BY <1>4, SettleEffect DEF CallerCommits, Table!Commit, TypeOK, Table!TypeOK
<1>5. CASE Restart
    <2>1. cutOff' \subseteq Intents
        BY <1>5, CallIntent DEF Restart, TypeOK, InUse
    <2>. QED BY <1>5, <2>1 DEF Restart, TypeOK, Table!TypeOK
<1>6. CASE Tick
    BY <1>6, GuardAssumption DEF GuardAssumption, Tick, TypeOK, Table!TypeOK, Table!Time
<1>7. CASE UNCHANGED vars
    BY <1>7 DEF vars, TypeOK, Table!TypeOK
<1>. QED BY <1>1, <1>2, <1>3, <1>4, <1>5, <1>6, <1>7 DEF Next

(* The table, the calls and the histories stay well formed. *)
THEOREM TypeCorrect == Spec => []TypeOK
BY TypeInit, TypeStep, PTL DEF Spec

-----------------------------------------------------------------------------
(* A waiting call is the only one for its intent, has its budget reserved,   *)
(* and its intent has no signature yet.                                      *)
WaitingInv ==
    /\ \A s \in Slots : InUse(s) =>
        Table!IsReserved(signing[s].intent) /\ signed[signing[s].intent] = 0
    /\ \A s, t \in Slots :
        InUse(s) /\ InUse(t) /\ signing[s].intent = signing[t].intent => s = t

IInv == TypeOK /\ WaitingInv /\ SignedOnce /\ SignedHoldsBudget /\ HeldForSignature

LEMMA InvInit == Init => IInv
BY TypeInit DEF Init, IInv, WaitingInv, InUse, SignedOnce, SignedHoldsBudget, HeldForSignature,
                Table!IsReserved, Table!HasStatus, Table!NoRow

LEMMA InvStep == IInv /\ [Next]_vars => IInv'
<1> SUFFICES ASSUME IInv, [Next]_vars
             PROVE  (WaitingInv /\ SignedOnce /\ SignedHoldsBudget /\ HeldForSignature)'
    BY TypeStep DEF IInv
<1> USE DEF IInv, TypeOK, Table!TypeOK, WaitingInv, SignedOnce, SignedHoldsBudget, HeldForSignature,
            InUse, Table!IsReserved, Table!Live, Table!HasStatus
<1> DEFINE Goal == WaitingInv /\ SignedOnce /\ SignedHoldsBudget /\ HeldForSignature
<1>1. ASSUME NEW s \in Slots, NEW req \in Request, Authorize(s, req) PROVE Goal'
    <2>1. /\ rows[req.intent] = Table!NoRow
          /\ rows' = [rows EXCEPT ![req.intent] = NewRow(req)]
          /\ ~ InUse(s) /\ signing' = [signing EXCEPT ![s] = req]
          /\ UNCHANGED <<now, signed, cutOff>>
          /\ req # Idle /\ req.intent \in Intents
        BY <1>1, AuthorizeEffect, RequestIntent
    <2>2. signed[req.intent] = 0 /\ \A t \in Slots : InUse(t) => signing[t].intent # req.intent
        BY <2>1 DEF Table!NoRow
    <2>3. NewRow(req).status = "reserved"
        BY DEF NewRow
    <2>. QED BY <2>1, <2>2, <2>3
<1>2. ASSUME NEW s \in Slots, SignerSigns(s) PROVE Goal'
    <2>1. signing[s].intent \in Intents
        BY <1>2, CallIntent DEF SignerSigns
    <2>. QED BY <1>2, <2>1 DEF SignerSigns
<1>3. ASSUME NEW s \in Slots, SignerFails(s) PROVE Goal'
    <2>1. PICK i \in Intents :
            i = signing[s].intent /\ Table!Settle(i, "released")
        BY <1>3, CallIntent DEF SignerFails, Table!Release
    <2>2. rows'[i].status = "released" /\ \A k \in Intents \ {i} : rows'[k] = rows[k]
        BY <1>3, <2>1, SettleEffect DEF SignerFails
    <2>3. /\ signing' = [signing EXCEPT ![s] = Idle] /\ UNCHANGED <<signed, cutOff>>
          /\ signed[i] = 0 /\ \A t \in Slots \ {s} : InUse(t) => signing[t].intent # i
        BY <1>3, <2>1 DEF SignerFails
    <2>4. WaitingInv'
        BY <2>2, <2>3, CallIntent
    <2>5. SignedHoldsBudget' /\ SignedOnce'
        BY <2>2, <2>3
    <2>6. HeldForSignature'
        BY <2>1, <2>2, <2>3
    <2>. QED BY <2>4, <2>5, <2>6
<1>4. ASSUME NEW i \in Intents, CallerCommits(i) PROVE Goal'
    <2>1. /\ \A k \in Intents \ {i} : rows'[k] = rows[k]
          /\ Table!IsReserved(i) => rows'[i].status = "committed"
          /\ ~ Table!IsReserved(i) => rows'[i] = rows[i]
        BY <1>4, SettleEffect DEF CallerCommits, Table!Commit
    <2>2. signed[i] > 0 /\ UNCHANGED <<signing, signed, cutOff>>
        BY <1>4 DEF CallerCommits
    <2>3. WaitingInv'
        BY <2>1, <2>2, CallIntent
    <2>4. SignedHoldsBudget' /\ SignedOnce'
        BY <2>1, <2>2
    <2>5. HeldForSignature'
        BY <2>1, <2>2
    <2>. QED BY <2>3, <2>4, <2>5
<1>5. CASE Restart
    BY <1>5 DEF Restart
<1>6. CASE Tick
    BY <1>6 DEF Tick
<1>7. CASE UNCHANGED vars
    BY <1>7 DEF vars
<1>. QED BY <1>1, <1>2, <1>3, <1>4, <1>5, <1>6, <1>7 DEF Next

(* No intent is ever signed twice: not by racing calls, not by a retry after *)
(* a failure, not after a restart.                                           *)
THEOREM NeverSignedTwice == Spec => []SignedOnce
<1>1. IInv => SignedOnce
    BY DEF IInv
<1>. QED BY <1>1, InvInit, InvStep, PTL DEF Spec

(* A signature's reservation is never given back. *)
THEOREM SignaturesHoldBudget == Spec => []SignedHoldsBudget
<1>1. IInv => SignedHoldsBudget
    BY DEF IInv
<1>. QED BY <1>1, InvInit, InvStep, PTL DEF Spec

(* No open reservation is left behind but by a restart. *)
THEOREM NoBudgetLeaks == Spec => []HeldForSignature
<1>1. IInv => HeldForSignature
    BY DEF IInv
<1>. QED BY <1>1, InvInit, InvStep, PTL DEF Spec

-----------------------------------------------------------------------------
(* The sums of the two instances of the ledger are the same sum. *)
LEMMA TableSum ==
    ASSUME NEW f PROVE Table!SumFunction(f) = SumFunctionOnSet(f, DOMAIN f)
BY DEF Table!SumFunction, Table!SumFunctionOnSet, Table!FoldFunctionOnSet, Table!MapThenFoldSet,
       SumFunctionOnSet, FoldFunctionOnSet, MapThenFoldSet

LEMMA LedgerSum ==
    ASSUME NEW cap, NEW f PROVE Ledger(cap)!SumFunction(f) = SumFunctionOnSet(f, DOMAIN f)
BY DEF Ledger!SumFunction, Ledger!SumFunctionOnSet, Ledger!FoldFunctionOnSet,
       Ledger!MapThenFoldSet, SumFunctionOnSet, FoldFunctionOnSet, MapThenFoldSet

(* The rows counted against a day, and their amounts. *)
LEMMA CountedAmounts ==
    ASSUME TypeOK, NEW day
    PROVE  /\ IsFiniteSet(Table!Counted(Signer, day))
           /\ \A i \in Table!Counted(Signer, day) : rows[i].amount \in Nat
           /\ Table!UsedOnDay(Signer, day) \in Nat
<1>1. IsFiniteSet(Table!Counted(Signer, day))
    BY GuardAssumption, FS_Subset DEF GuardAssumption, Table!Counted
<1>2. ASSUME NEW i \in Table!Counted(Signer, day)
      PROVE  rows[i].amount \in Nat
    <2>1. rows[i] \in Table!Row
        BY DEF Table!Counted, Table!Live, Table!HasStatus, TypeOK, Table!TypeOK, Table!NoRow
    <2>2. rows[i].amount \in Amounts
        BY <2>1 DEF Table!Row
    <2>. QED BY <2>2, GuardAssumption DEF GuardAssumption
<1>3. Table!UsedOnDay(Signer, day) \in Nat
    <2> DEFINE C == Table!Counted(Signer, day)
               f == [i \in C |-> rows[i].amount]
    <2>1. Table!UsedOnDay(Signer, day) = SumFunctionOnSet(f, C)
        BY TableSum DEF Table!UsedOnDay
    <2>2. IsFiniteSet(C) /\ \A i \in C : f[i] \in Nat
        BY <1>1, <1>2
    <2>. HIDE DEF C, f
    <2>. QED BY <2>1, <2>2, SumType
<1>. QED BY <1>1, <1>2, <1>3

(* The reservation of a call raises the day's spend by the call's amount. *)
LEMMA AuthorizeAdds ==
    ASSUME TypeOK, NEW s \in Slots, NEW req \in Request, Authorize(s, req)
    PROVE  Table!UsedOnDay(Signer, Table!DayOf(now))'
                = Table!UsedOnDay(Signer, Table!DayOf(now)) + req.amount
<1> DEFINE day == Table!DayOf(now)
           C == Table!Counted(Signer, day)
           D == Table!Counted(Signer, day)'
           f == [i \in C |-> rows[i].amount]
           g == [i \in D |-> rows'[i].amount]
           k == req.intent
<1>1. /\ rows[k] = Table!NoRow /\ k \in Intents
      /\ rows'[k] = NewRow(req) /\ \A i \in Intents \ {k} : rows'[i] = rows[i]
      /\ now' = now /\ req.amount \in Nat
    BY AuthorizeEffect, RequestIntent, GuardAssumption
       DEF TypeOK, Table!TypeOK, GuardAssumption
<1>2. k \notin C
    BY <1>1 DEF Table!Counted, Table!Live, Table!HasStatus, Table!NoRow
<1>3. /\ rows'[k].status = "reserved" /\ rows'[k].signer = Signer
      /\ rows'[k].day = day /\ rows'[k].amount = req.amount
    BY <1>1 DEF NewRow
<1>4. \A i \in Intents : i \in D <=> i \in C \/ i = k
    BY <1>1, <1>3 DEF Table!Counted, Table!Live, Table!HasStatus
<1>5. D = C \cup {k}
    BY <1>1, <1>4 DEF Table!Counted
<1>6. /\ IsFiniteSet(C)
      /\ \A i \in C : f[i] \in Nat
    BY CountedAmounts
<1>7. \A i \in C : g[i] = f[i]
    BY <1>1, <1>2, <1>5 DEF Table!Counted
<1>8. g[k] = req.amount /\ g[k] \in Nat
    BY <1>1, <1>3, <1>5
<1>9. Table!UsedOnDay(Signer, day) = SumFunctionOnSet(f, C)
    BY TableSum DEF Table!UsedOnDay
<1>10. Table!UsedOnDay(Signer, day)' = SumFunctionOnSet(g, D)
    BY <1>1, TableSum DEF Table!UsedOnDay
<1>. HIDE DEF C, D, f, g, k
<1>11. SumFunctionOnSet(g, D) = SumFunctionOnSet(f, C) + g[k]
    BY <1>2, <1>5, <1>6, <1>7, <1>8, SumGrows
<1>. QED BY <1>8, <1>9, <1>10, <1>11

LEMMA OwnCapStep ==
    ASSUME TypeOK, [Next]_vars, NEW s \in Slots, signing[s] = Idle, signing'[s] # Idle
    PROVE  Table!UsedOnDay(Signer, Table!DayOf(now))' <= signing'[s].cap
<1>1. PICK t \in Slots, req \in Request : Authorize(t, req)
    <2>1. ASSUME ~ \E t \in Slots, req \in Request : Authorize(t, req) PROVE FALSE
        BY <2>1 DEF Next, SignerSigns, SignerFails, CallerCommits, Restart, Tick, vars, TypeOK
    <2>. QED BY <2>1
<1>2. signing'[s] = req
    BY <1>1 DEF Authorize, TypeOK
<1>3. Ledger(req.cap)!UsedOnDay(Signer, Table!DayOf(now))
        = Table!UsedOnDay(Signer, Table!DayOf(now))
    BY TableSum, LedgerSum
       DEF Ledger!UsedOnDay, Ledger!Counted, Ledger!Live, Ledger!HasStatus,
           Table!UsedOnDay, Table!Counted, Table!Live, Table!HasStatus
<1>4. Ledger(req.cap)!UsedOnDay(Signer, Table!DayOf(now)) + req.amount <= req.cap
    <2>1. Ledger(req.cap)!ReserveResult(req.intent, Signer, Table!DayOf(now), req.amount) = "ok"
        BY <1>1 DEF Authorize
    <2>2. ~ (Ledger(req.cap)!UsedOnDay(Signer, Table!DayOf(now)) + req.amount > req.cap)
        BY <2>1 DEF Ledger!ReserveResult
    <2>3. /\ Table!UsedOnDay(Signer, Table!DayOf(now)) \in Nat
          /\ req.amount \in Nat /\ req.cap \in Nat
        BY CountedAmounts, GuardAssumption DEF Request, GuardAssumption
    <2>. QED BY <1>3, <2>2, <2>3
<1>. QED BY <1>1, <1>2, <1>3, <1>4, AuthorizeAdds

(* A call is let through only if the day's spend with its own reservation is *)
(* within its own policy's cap, whatever laxer policies reserved before.     *)
THEOREM NoCapIsOverrun == Spec => OwnCapRespected
<1>1. TypeOK /\ [Next]_vars =>
        [\A s \in Slots : signing[s] = Idle /\ signing'[s] # Idle =>
            Table!UsedOnDay(Signer, Table!DayOf(now))' <= signing'[s].cap]_vars
    BY OwnCapStep
<1>. QED BY <1>1, TypeInit, TypeStep, PTL DEF Spec, OwnCapRespected
=============================================================================

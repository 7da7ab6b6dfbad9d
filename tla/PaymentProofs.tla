--------------------------- MODULE PaymentProofs ----------------------------
(***************************************************************************)
(* The ways a payment is followed to the chain: the x402 gateway            *)
(* (X402Gateway), the co-sign of a user's own wallet (CoSign), the wait for *)
(* a deploy (DeployObserver, as the instance Wait) and the script of the    *)
(* Tier-1 demonstration (Tier1Demo), in this order.                         *)
(*                                                                          *)
(* Of the gateway, for any number of authorizations, nonces, slots and      *)
(* calls: the ledger's two constraints make its rows an injection into      *)
(* nonces, and an authorization is accepted exactly when its row is made    *)
(* (RowsInv).  What is charged is linked to the rows by the settle calls in *)
(* flight (CallsInv): they are for recorded authorizations, and one the     *)
(* facilitator has confirmed was charged.                                   *)
(*                                                                          *)
(* Of the co-sign, for any users, addresses, amounts and requests: whoever  *)
(* signs pays, a confirmed hash pays its intent and no other, and what a    *)
(* policy admits can be built.  The argument follows a payment through its  *)
(* owners: a build is of a validated intent, so the policy in force pins    *)
(* down its receiver and what is built is what was asked for; the job, the  *)
(* transaction and the entry pass that on, each naming the same intent.  A  *)
(* restart changes the policy and loses the intents: an id that is lost     *)
(* never comes back, so nothing is claimed of it any more.                  *)
(*                                                                          *)
(* Of the wait, for any number of hashes, waits and attempts: the type      *)
(* invariant, that reports are true, and the safety part of the refinement  *)
(* of FinalityWait.                                                         *)
(*                                                                          *)
(* Of the demonstration, for any number of runs and any plans: what the     *)
(* artifact says is true and final, and the vault on record is empty.  The  *)
(* danger is a named key that a late install of an abandoned run takes over *)
(* before a later run reads it, so that the later run drives a vault it did *)
(* not install.  Such a vault has the abandoned run's token, which the      *)
(* later run never finds: its own install of a token took the key, and no   *)
(* install succeeds twice (KeyInv, FoundInv).  What it funds is then not    *)
(* what the vault pays with, so its payment is refused and the run is never *)
(* sealed (FlowInv).                                                        *)
(***************************************************************************)
EXTENDS X402Gateway, CoSign, Tier1Demo, TLAPS

-----------------------------------------------------------------------------
(* The x402 gateway. *)
LEMMA GatewayTypeInit == GatewayInit => GatewayTypeOK
BY GatewayAssumption DEF GatewayAssumption, GatewayInit, GatewayTypeOK, Idle, NoRow

LEMMA GatewayTypeStep == GatewayTypeOK /\ [GatewayNext]_gatewayVars => GatewayTypeOK'
<1> SUFFICES ASSUME GatewayTypeOK, [GatewayNext]_gatewayVars PROVE GatewayTypeOK'
    OBVIOUS
<1> USE GatewayAssumption DEF GatewayAssumption, GatewayTypeOK, Answers
<1>1. ASSUME NEW s \in Slots, NEW a \in Auths, NEW op \in {"verify", "settle"},
             Begin(s, op, a)
      PROVE  GatewayTypeOK'
    BY <1>1 DEF Begin, CallOf
<1>2. ASSUME NEW s \in Slots, NEW a \in Auths, VerifyCalled(s, a) \/ SettleCalled(s, a)
      PROVE  GatewayTypeOK'
    BY <1>1, <1>2 DEF VerifyCalled, SettleCalled
<1>3. ASSUME NEW s \in Slots, VerifyAccepts(s) PROVE GatewayTypeOK'
    BY <1>3 DEF VerifyAccepts, Answered, Done, Idle
<1>4. ASSUME NEW s \in Slots, VerifyRefuses(s) PROVE GatewayTypeOK'
    BY <1>4 DEF VerifyRefuses, Done
<1>5. ASSUME NEW s \in Slots, SettleAnswered(s) PROVE GatewayTypeOK'
    BY <1>5 DEF SettleAnswered, Mark, Done
<1>6. ASSUME NEW s \in Slots, AnswerLost(s) PROVE GatewayTypeOK'
    BY <1>6 DEF AnswerLost, Done
<1>7. ASSUME NEW s \in Slots, Refuses(s) PROVE GatewayTypeOK'
    BY <1>7 DEF Refuses, Idle
<1>8. ASSUME NEW s \in Slots, Vouches(s) PROVE GatewayTypeOK'
    BY <1>8 DEF Vouches, Answered, Idle
<1>9. ASSUME NEW s \in Slots, Charges(s) PROVE GatewayTypeOK'
    BY <1>9 DEF Charges, Answered, Idle
<1>10. CASE GatewayRestart
    BY <1>10 DEF GatewayRestart
<1>11. CASE UNCHANGED gatewayVars
    BY <1>11 DEF gatewayVars
<1>. QED BY <1>2, <1>3, <1>4, <1>5, <1>6, <1>7, <1>8, <1>9, <1>10, <1>11 DEF GatewayNext

(* The ledger, the calls and the histories stay well formed. *)
THEOREM GatewayTypeCorrect == GatewaySpec => []GatewayTypeOK
<1>1. GatewayInit => GatewayTypeOK
    BY GatewayTypeInit
<1>2. GatewayTypeOK /\ [GatewayNext]_gatewayVars => GatewayTypeOK'
    BY GatewayTypeStep
<1>. QED BY <1>1, <1>2, PTL DEF GatewaySpec

-----------------------------------------------------------------------------
RowsInv ==
    /\ \A a \in Auths : accepted[a] = IF Recorded(a) THEN 1 ELSE 0
    /\ \A a, b \in Auths : Recorded(a) /\ Recorded(b) /\ NonceOf[a] = NonceOf[b] => a = b

LEMMA RowsInit == GatewayInit => RowsInv
BY DEF GatewayInit, RowsInv, Recorded, NoRow

(* Only verify() makes rows, and no step removes one. *)
LEMMA RowsFrame ==
    ASSUME GatewayTypeOK, [GatewayNext]_gatewayVars, ~ \E s \in Slots : VerifyAccepts(s)
    PROVE  accepted' = accepted /\ \A a \in Auths : Recorded(a)' <=> Recorded(a)
<1>1. ASSUME NEW s \in Slots, SettleAnswered(s)
      PROVE  accepted' = accepted /\ \A a \in Auths : Recorded(a)' <=> Recorded(a)
    BY <1>1 DEF GatewayTypeOK, SettleAnswered, Mark, Recorded, NoRow
<1>2. CASE ~ \E s \in Slots : SettleAnswered(s)
    <2>1. UNCHANGED <<accepted, payment>>
        BY <1>2 DEF GatewayNext, gatewayVars, VerifyCalled, SettleCalled, Begin, VerifyRefuses,
                    AnswerLost,
                    Refuses, Vouches, Charges, GatewayRestart
    <2>. QED BY <2>1 DEF Recorded
<1>. QED BY <1>1, <1>2

LEMMA RowsStep == GatewayTypeOK /\ RowsInv /\ [GatewayNext]_gatewayVars => RowsInv'
<1> SUFFICES ASSUME GatewayTypeOK, RowsInv, [GatewayNext]_gatewayVars PROVE RowsInv'
    OBVIOUS
<1>1. ASSUME NEW s \in Slots, VerifyAccepts(s) PROVE RowsInv'
    <2>1. PICK a \in Auths :
            /\ ~ Replayed(a)
            /\ payment' = [payment EXCEPT ![a] = [state |-> "verified"]]
            /\ accepted' = [accepted EXCEPT ![a] = @ + 1]
        <3>1. call[s].auth \in Auths
            BY <1>1 DEF GatewayTypeOK, VerifyAccepts, Answered, Idle
        <3>. QED BY <1>1, <3>1 DEF VerifyAccepts
    <2>2. Recorded(a)' /\ \A b \in Auths \ {a} : Recorded(b)' <=> Recorded(b)
        <3>1. /\ payment'[a] = [state |-> "verified"]
              /\ \A b \in Auths \ {a} : payment'[b] = payment[b]
            BY <2>1 DEF GatewayTypeOK
        <3>2. [state |-> "verified"] # NoRow
            BY DEF NoRow
        <3>. QED BY <3>1, <3>2 DEF Recorded
    <2>3. accepted'[a] = 1 /\ \A b \in Auths \ {a} : accepted'[b] = accepted[b]
        BY <2>1 DEF GatewayTypeOK, RowsInv, Replayed
    <2>4. \A b \in Auths : Recorded(b) => NonceOf[b] # NonceOf[a]
        BY <2>1 DEF Replayed
    <2>. QED BY <2>1, <2>2, <2>3, <2>4 DEF RowsInv
<1>2. CASE ~ \E s \in Slots : VerifyAccepts(s)
    BY <1>2, RowsFrame DEF RowsInv
<1>. QED BY <1>1, <1>2

(* At most one authorization of a nonce is ever accepted, and at most once. *)
THEOREM NoReplay == GatewaySpec => []AcceptedOnce
<1>1. RowsInv => AcceptedOnce
    BY DEF RowsInv, AcceptedOnce
<1>2. GatewayInit => GatewayTypeOK
    BY GatewayTypeInit
<1>3. GatewayTypeOK /\ [GatewayNext]_gatewayVars => GatewayTypeOK'
    BY GatewayTypeStep
<1>. QED BY <1>1, <1>2, <1>3, RowsInit, RowsStep, PTL DEF GatewaySpec

-----------------------------------------------------------------------------
Settling(s) == call[s].op = "settle"

CallsInv ==
    /\ \A s \in Slots : Settling(s) /\ VerifyFirst => Recorded(call[s].auth)
    /\ \A s \in Slots : Answered(s, "settle", "yes") => NonceOf[call[s].auth] \in charged

GatewayInv ==
    /\ GatewayTypeOK /\ RowsInv /\ CallsInv /\ SettledWasCharged
    /\ VerifyFirst => ChargedIsRecorded

LEMMA GatewayInvInit == GatewayInit => GatewayInv
BY GatewayTypeInit, RowsInit
   DEF GatewayInit, GatewayInv, CallsInv, Settling, Answered, Idle,
       SettledWasCharged, ChargedIsRecorded, NoRow

LEMMA RecordedStays ==
    ASSUME GatewayInv, [GatewayNext]_gatewayVars
    PROVE  \A a \in Auths : Recorded(a) => Recorded(a)'
<1>1. ASSUME NEW s \in Slots, VerifyAccepts(s)
      PROVE  \A a \in Auths : Recorded(a) => Recorded(a)'
    BY <1>1 DEF GatewayInv, GatewayTypeOK, VerifyAccepts, Recorded, NoRow
<1>2. CASE ~ \E s \in Slots : VerifyAccepts(s)
    BY <1>2, RowsFrame DEF GatewayInv
<1>. QED BY <1>1, <1>2

LEMMA CallsStep == GatewayInv /\ [GatewayNext]_gatewayVars => CallsInv'
<1> SUFFICES ASSUME GatewayInv, [GatewayNext]_gatewayVars PROVE CallsInv'
    OBVIOUS
<1>1. \A a \in Auths : Recorded(a) => Recorded(a)'
    BY RecordedStays
<1>2. charged \subseteq charged'
    BY DEF GatewayNext, gatewayVars, VerifyCalled, SettleCalled, Begin, VerifyAccepts,
           VerifyRefuses,
           SettleAnswered, AnswerLost, Refuses, Vouches, Charges, GatewayRestart
<1>3. \A s \in Slots : call[s] # Idle => call[s].auth \in Auths
    BY DEF GatewayInv, GatewayTypeOK
<1> USE DEF GatewayInv, GatewayTypeOK, CallsInv, Settling, Answered, Idle
<1>4. ASSUME NEW s \in Slots, NEW a \in Auths, VerifyCalled(s, a) PROVE CallsInv'
    BY <1>1, <1>2, <1>3, <1>4 DEF VerifyCalled, Begin, CallOf
<1>5. ASSUME NEW s \in Slots, NEW a \in Auths, SettleCalled(s, a) PROVE CallsInv'
    <2>1. VerifyFirst => Recorded(a)
        BY <1>5 DEF SettleCalled, RowsInv
    <2>. QED BY <1>1, <1>2, <1>3, <1>5, <2>1 DEF SettleCalled, Begin, CallOf
<1>6. ASSUME NEW s \in Slots,
             VerifyAccepts(s) \/ VerifyRefuses(s) \/ SettleAnswered(s) \/ AnswerLost(s)
      PROVE  CallsInv'
    <2>1. call' = [call EXCEPT ![s] = Idle]
        BY <1>6 DEF VerifyAccepts, VerifyRefuses, SettleAnswered, AnswerLost, Done
    <2>. QED BY <1>1, <1>2, <1>3, <2>1
<1>7. ASSUME NEW s \in Slots, Refuses(s) PROVE CallsInv'
    BY <1>1, <1>2, <1>3, <1>7 DEF Refuses
<1>8. ASSUME NEW s \in Slots, Vouches(s) PROVE CallsInv'
    BY <1>1, <1>2, <1>3, <1>8 DEF Vouches
<1>9. ASSUME NEW s \in Slots, Charges(s) PROVE CallsInv'
    BY <1>1, <1>2, <1>3, <1>9 DEF Charges
<1>10. CASE GatewayRestart
    BY <1>10 DEF GatewayRestart
<1>11. CASE UNCHANGED gatewayVars
    BY <1>1, <1>2, <1>3, <1>11 DEF gatewayVars
<1>. QED BY <1>4, <1>5, <1>6, <1>7, <1>8, <1>9, <1>10, <1>11 DEF GatewayNext

LEMMA SettledStep == GatewayInv /\ [GatewayNext]_gatewayVars => SettledWasCharged'
<1> SUFFICES ASSUME GatewayInv, [GatewayNext]_gatewayVars PROVE SettledWasCharged'
    OBVIOUS
<1> USE DEF GatewayInv, GatewayTypeOK, SettledWasCharged
<1>1. charged \subseteq charged'
    BY DEF GatewayNext, gatewayVars, VerifyCalled, SettleCalled, Begin, VerifyAccepts,
           VerifyRefuses,
           SettleAnswered, AnswerLost, Refuses, Vouches, Charges, GatewayRestart
<1>2. ASSUME NEW s \in Slots, VerifyAccepts(s) PROVE SettledWasCharged'
    BY <1>1, <1>2 DEF VerifyAccepts
<1>3. ASSUME NEW s \in Slots, SettleAnswered(s) PROVE SettledWasCharged'
    <2>1. PICK a \in Auths, answer \in {"yes", "no"} :
            /\ call[s].auth = a /\ Answered(s, "settle", answer)
            /\ Mark(a, IF answer = "yes" THEN "settled" ELSE "failed")
        BY <1>3 DEF SettleAnswered, Answered, Idle
    <2>2. answer = "yes" => NonceOf[a] \in charged
        BY <2>1 DEF CallsInv
    <2>. QED BY <1>1, <2>1, <2>2 DEF Mark
<1>4. CASE ~ \E s \in Slots : VerifyAccepts(s) \/ SettleAnswered(s)
    <2>1. UNCHANGED payment
        BY <1>4 DEF GatewayNext, gatewayVars, VerifyCalled, SettleCalled, Begin, VerifyRefuses,
                    AnswerLost,
                    Refuses, Vouches, Charges, GatewayRestart
    <2>. QED BY <1>1, <2>1
<1>. QED BY <1>2, <1>3, <1>4

LEMMA ChargedStep == GatewayInv /\ VerifyFirst /\ [GatewayNext]_gatewayVars => ChargedIsRecorded'
<1> SUFFICES ASSUME GatewayInv, VerifyFirst, [GatewayNext]_gatewayVars PROVE ChargedIsRecorded'
    OBVIOUS
<1>1. \A a \in Auths : Recorded(a) => Recorded(a)'
    BY RecordedStays
<1>2. ASSUME NEW s \in Slots, Charges(s) PROVE ChargedIsRecorded'
    <2>1. PICK a \in Auths : Recorded(a) /\ charged' = charged \cup {NonceOf[a]}
        BY <1>2 DEF GatewayInv, GatewayTypeOK, CallsInv, Settling, Charges, Answered, Idle
    <2>. QED BY <1>1, <2>1 DEF GatewayInv, ChargedIsRecorded
<1>3. CASE ~ \E s \in Slots : Charges(s)
    <2>1. UNCHANGED charged
        BY <1>3 DEF GatewayNext, gatewayVars, VerifyCalled, SettleCalled, Begin, VerifyAccepts,
                    VerifyRefuses,
                    SettleAnswered, AnswerLost, Refuses, Vouches, GatewayRestart
    <2>. QED BY <1>1, <2>1 DEF GatewayInv, ChargedIsRecorded
<1>. QED BY <1>2, <1>3

LEMMA GatewayInvStep == GatewayInv /\ [GatewayNext]_gatewayVars => GatewayInv'
BY GatewayTypeStep, RowsStep, CallsStep, SettledStep, ChargedStep DEF GatewayInv

(* A row says settled only if the facilitator charged the payment, whichever *)
(* answers came late, were lost or were repeated.                            *)
THEOREM SettledRowsWereCharged == GatewaySpec => []SettledWasCharged
<1>1. GatewayInv => SettledWasCharged
    BY DEF GatewayInv
<1>2. GatewayInit => GatewayInv
    BY GatewayInvInit
<1>3. GatewayInv /\ [GatewayNext]_gatewayVars => GatewayInv'
    BY GatewayInvStep
<1>. QED BY <1>1, <1>2, <1>3, PTL DEF GatewaySpec

(* If callers settle only what verify() accepted, every charge has its row *)
(* in the ledger, also when the answer to the settlement was lost.         *)
THEOREM ChargesAreRecorded == ASSUME VerifyFirst PROVE GatewaySpec => []ChargedIsRecorded
<1>1. GatewayInv => ChargedIsRecorded
    BY DEF GatewayInv
<1>2. GatewayInit => GatewayInv
    BY GatewayInvInit
<1>3. GatewayInv /\ [GatewayNext]_gatewayVars => GatewayInv'
    BY GatewayInvStep
<1>. QED BY <1>1, <1>2, <1>3, PTL DEF GatewaySpec

-----------------------------------------------------------------------------
(* The co-sign. *)
Payment == [asset : Address \cup {Sentinel},
            to : [kind : {"account", "contract"}, name : Names], amount : Amount]
Entry == [state : {"DRAFT", "POLICY_VALIDATED", "EXECUTED", "REJECTED"}, body : Body,
          hash : Hashes \cup {None}]
Job ==
    [pc : {"asked"}, id : Intents, payer : Accounts]
    \cup [pc : {"built"}, id : Intents, payer : Accounts, pays : Payment]
    \cup [pc : {"popup"}, id : Intents, payer : Accounts, pays : Payment, signer : Accounts]
    \cup [pc : {"handed", "node"}, id : Intents, hash : Hashes]
Transaction ==
    [fate : {"pending", "success", "reverted"}, payer : Accounts, signer : Accounts,
     pays : Payment, for : Intents]

TypeOK ==
    /\ entry \in [Intents -> {Unused, Lost} \cup Entry]
    /\ active \in Accounts \cup {None}
    /\ account \in Accounts \cup {None}
    /\ job \in [Jobs -> {NoJob} \cup Job]
    /\ chain \in [Hashes -> {None} \cup Transaction]

(* A payment made for intent i, whose id was minted, is what i asks for. *)
IsFor(pays, i) == entry[i] # Unused /\ (Exists(i) => pays = Asked(entry[i].body))

ValidatedAllowed ==
    /\ StartsWith(policy)
    /\ \A i \in Intents : StateIs(i, "POLICY_VALIDATED") => PolicyAllows(policy, entry[i].body)

JobsInv == \A j \in Jobs :
    /\ ~ At(j, "over") => entry[job[j].id] # Unused
    /\ At(j, "built") \/ At(j, "popup") => IsFor(job[j].pays, job[j].id)
    /\ At(j, "popup") => job[j].signer = job[j].payer
    /\ At(j, "handed") \/ At(j, "node") =>
            chain[job[j].hash] # None /\ chain[job[j].hash].for = job[j].id
    /\ At(j, "node") => Exists(job[j].id)

ChainInv == \A h \in Hashes : chain[h] # None => IsFor(chain[h].pays, chain[h].for)

RecordInv == \A i \in Intents : Exists(i) /\ entry[i].hash # None =>
    LET tx == chain[entry[i].hash] IN tx # None /\ tx.fate = "success" /\ tx.for = i

IInv == TypeOK /\ ValidatedAllowed /\ JobsInv /\ ChainInv /\ RecordInv /\ SignedByPayer

-----------------------------------------------------------------------------
(* What the policies in the code let through.                                *)
LEMMA AllowedIsAsked ==
    ASSUME NEW p, StartsWith(p), NEW body \in Body, PolicyAllows(p, body)
    PROVE  Pays(body) = Asked(body)
BY CoSignAssumption
   DEF CoSignAssumption, StartsWith, PolicyAllows, DefaultPolicy, NativePolicy, Pays, Asked,
       RecipientKey

LEMMA AllowedBuilds ==
    ASSUME NEW p, StartsWith(p), NEW body \in Body, PolicyAllows(p, body), NEW payer \in Accounts,
           ~ SelfTransfer(body, payer)
    PROVE  Builds(body, payer)
BY CoSignAssumption
   DEF CoSignAssumption, StartsWith, PolicyAllows, DefaultPolicy, NativePolicy, Builds,
       NativeBuilds, Cep18Builds, PackageParses, RecipientParses, SelfTransfer, IsPublicKey

LEMMA PaysTypes == ASSUME NEW body \in Body PROVE Pays(body) \in Payment
<1>1. /\ body.contract \in Address \cup {Sentinel} /\ body.amount \in Amount
      /\ body.receiver.name \in Names
    BY DEF Body, Address
<1>2. RecipientKey(body.receiver) \in [kind : {"account", "contract"}, name : Names]
    BY <1>1 DEF RecipientKey, AccountKey, ContractKey
<1>3. AccountKey(body.receiver.name) \in [kind : {"account", "contract"}, name : Names]
    BY <1>1 DEF AccountKey
<1>. HIDE DEF Address, Amount, Sentinel
<1>. QED BY <1>1, <1>2, <1>3 DEF Pays, Payment

LEMMA Distinct ==
    /\ \A e \in Entry : e # Unused /\ e # Lost
    /\ \A tx \in Transaction : tx # None
    /\ \A k \in Job : k # NoJob /\ k.pc # "over"
    /\ Unused # Lost
<1>1. \A e \in Entry : e.state \notin {"unused", "lost"}
    BY DEF Entry
<1>2. \A tx \in Transaction : tx # None
    BY DEF Transaction, None
<1>3. \A k \in Job : k.pc # "over"
    BY DEF Job
<1>. QED BY <1>1, <1>2, <1>3 DEF Unused, Lost, NoJob

LEMMA FormTypes == FormBodies \cup OtherBodies \subseteq Body
<1>1. ASSUME NEW f \in Forms PROVE Submitted(f) \in Body
    BY <1>1, CoSignAssumption DEF CoSignAssumption, Forms, Submitted, Body
<1>. QED BY <1>1, CoSignAssumption DEF CoSignAssumption, FormBodies

LEMMA InvInit == Init => IInv
<1> SUFFICES ASSUME Init PROVE IInv
    OBVIOUS
<1>1. TypeOK /\ SignedByPayer /\ ChainInv /\ RecordInv
    BY DEF Init, TypeOK, SignedByPayer, ChainInv, RecordInv, Exists
<1>2. ValidatedAllowed
    BY DEF Init, ValidatedAllowed, StateIs, Exists
<1>3. JobsInv
    BY DEF Init, JobsInv, At, NoJob
<1>. QED BY <1>1, <1>2, <1>3 DEF IInv
-----------------------------------------------------------------------------
(* The four kinds of step: the API writes an entry, a job goes on, the chain *)
(* and the wallet do, the server restarts.                                   *)
Writes(i) ==
    \/ \E body \in FormBodies \cup OtherBodies : Create(i, body)
    \/ Validate(i) \/ Decide(i)

JobGoesOn(j) ==
    \/ \E i \in Intents : ClickSign(j, i)
    \/ BuildAnswered(j) \/ Send(j) \/ GivesUp(j) \/ ConfirmArrives(j)

(* What was minted is not minted again and keeps its body. *)
KeepsIntents ==
    \A i \in Intents : entry[i] # Unused =>
        /\ entry'[i] # Unused
        /\ Exists(i)' => Exists(i) /\ entry'[i].body = entry[i].body

LEMMA ForKept ==
    ASSUME KeepsIntents, NEW i \in Intents, NEW pays, IsFor(pays, i)
    PROVE  IsFor(pays, i)'
<1>1. entry[i] # Unused /\ (Exists(i) => pays = Asked(entry[i].body))
    BY DEF IsFor
<1>2. entry'[i] # Unused /\ (Exists(i)' => Exists(i) /\ entry'[i].body = entry[i].body)
    BY <1>1 DEF KeepsIntents
<1>. QED BY <1>1, <1>2 DEF IsFor, Asked

(* A step that leaves the entries alone keeps the intents.                   *)
LEMMA SameEntries == ASSUME UNCHANGED entry PROVE KeepsIntents
BY DEF KeepsIntents, Exists

LEMMA WriteForm ==
    ASSUME IInv, NEW i \in Intents, Writes(i)
    PROVE  /\ \E e \in Entry :
                /\ entry' = [entry EXCEPT ![i] = e]
                /\ e.state = "POLICY_VALIDATED" => PolicyAllows(policy, e.body)
                /\ entry[i] = Unused => e.hash = None
                /\ entry[i] # Unused =>
                        Exists(i) /\ e.body = entry[i].body /\ e.hash = entry[i].hash
           /\ UNCHANGED <<policy, active, account, job, chain>>
<1>1. ASSUME NEW body \in FormBodies \cup OtherBodies, Create(i, body)
      PROVE  /\ entry[i] = Unused
             /\ entry' = [entry EXCEPT ![i] = [state |-> "DRAFT", body |-> body, hash |-> None]]
             /\ [state |-> "DRAFT", body |-> body, hash |-> None] \in Entry
             /\ UNCHANGED <<policy, active, account, job, chain>>
    BY <1>1, FormTypes DEF Create, Entry
<1>2. CASE Validate(i)
    <2>1. Exists(i) /\ entry[i] \in Entry
        BY <1>2 DEF Validate, StateIs, Exists, IInv, TypeOK
    <2>2. PICK state \in {"POLICY_VALIDATED", "REJECTED"} :
            /\ entry' = [entry EXCEPT ![i].state = state]
            /\ state = "POLICY_VALIDATED" => PolicyAllows(policy, entry[i].body)
        BY <1>2 DEF Validate
    <2>3. entry' = [entry EXCEPT ![i] = [entry[i] EXCEPT !.state = state]]
        BY <2>2 DEF IInv, TypeOK
    <2> DEFINE e == [entry[i] EXCEPT !.state = state]
    <2>4. e \in Entry /\ e.state = state /\ e.body = entry[i].body /\ e.hash = entry[i].hash
        BY <2>1 DEF Entry
    <2>5. UNCHANGED <<policy, active, account, job, chain>> /\ entry[i] # Unused
        BY <1>2, <2>1 DEF Validate, Exists
    <2>. HIDE DEF e
    <2>6. entry' = [entry EXCEPT ![i] = e]
        BY <2>3 DEF e
    <2>. QED BY <2>1, <2>2, <2>4, <2>5, <2>6
<1>3. CASE Decide(i)
    <2>1. Exists(i) /\ entry[i] \in Entry
        BY <1>3 DEF Decide, Exists, IInv, TypeOK
    <2>2. PICK state \in {"EXECUTED", "REJECTED"} : entry' = [entry EXCEPT ![i].state = state]
        BY <1>3 DEF Decide
    <2>3. entry' = [entry EXCEPT ![i] = [entry[i] EXCEPT !.state = state]]
        BY <2>2 DEF IInv, TypeOK
    <2> DEFINE e == [entry[i] EXCEPT !.state = state]
    <2>4. e \in Entry /\ e.state = state /\ e.body = entry[i].body /\ e.hash = entry[i].hash
        BY <2>1 DEF Entry
    <2>5. UNCHANGED <<policy, active, account, job, chain>> /\ entry[i] # Unused
        BY <1>3, <2>1 DEF Decide, Exists
    <2>. HIDE DEF e
    <2>6. entry' = [entry EXCEPT ![i] = e]
        BY <2>3 DEF e
    <2>. QED BY <2>1, <2>2, <2>4, <2>5, <2>6
<1>4. ASSUME NEW body \in FormBodies \cup OtherBodies, Create(i, body)
      PROVE  \E e \in Entry :
                /\ entry' = [entry EXCEPT ![i] = e]
                /\ e.state = "POLICY_VALIDATED" => PolicyAllows(policy, e.body)
                /\ entry[i] = Unused => e.hash = None
                /\ entry[i] # Unused =>
                        Exists(i) /\ e.body = entry[i].body /\ e.hash = entry[i].hash
    <2> DEFINE e == [state |-> "DRAFT", body |-> body, hash |-> None]
    <2>1. e \in Entry /\ e.state = "DRAFT" /\ e.hash = None /\ entry[i] = Unused
          /\ entry' = [entry EXCEPT ![i] = e]
        BY <1>1, <1>4
    <2>. QED BY <2>1
<1>. QED BY <1>1, <1>2, <1>3, <1>4 DEF Writes

LEMMA WritesStep == ASSUME IInv, NEW i \in Intents, Writes(i) PROVE IInv'
<1>1. PICK e \in Entry :
        /\ entry' = [entry EXCEPT ![i] = e]
        /\ e.state = "POLICY_VALIDATED" => PolicyAllows(policy, e.body)
        /\ entry[i] = Unused => e.hash = None
        /\ entry[i] # Unused => Exists(i) /\ e.body = entry[i].body /\ e.hash = entry[i].hash
    BY WriteForm
<1>2. UNCHANGED <<policy, active, account, job, chain>>
    BY WriteForm
<1>3. entry'[i] = e /\ e # Unused /\ e # Lost /\ \A k \in Intents \ {i} : entry'[k] = entry[k]
    BY <1>1, Distinct DEF IInv, TypeOK
<1>4. TypeOK'
    BY <1>1, <1>2 DEF IInv, TypeOK
<1>5. KeepsIntents
    BY <1>1, <1>3 DEF KeepsIntents, Exists
<1>6. ValidatedAllowed'
    BY <1>1, <1>2, <1>3 DEF IInv, ValidatedAllowed, StateIs, Exists
<1>7. JobsInv'
    <2> SUFFICES ASSUME NEW j \in Jobs
                 PROVE  /\ ~ At(j, "over") => entry'[job[j].id] # Unused
                        /\ At(j, "built") \/ At(j, "popup") => IsFor(job[j].pays, job[j].id)'
                        /\ At(j, "popup") => job[j].signer = job[j].payer
                        /\ At(j, "handed") \/ At(j, "node") =>
                            chain[job[j].hash] # None /\ chain[job[j].hash].for = job[j].id
                        /\ At(j, "node") => Exists(job[j].id)'
        BY <1>2 DEF JobsInv, At, IsFor, Exists
    <2>1. ~ At(j, "over") => job[j].id \in Intents
        BY DEF IInv, TypeOK, At, Job, NoJob
    <2>2. ~ At(j, "over") => entry[job[j].id] # Unused
        BY DEF IInv, JobsInv
    <2>3. At(j, "built") \/ At(j, "popup") => IsFor(job[j].pays, job[j].id)'
        BY <1>2, <1>5, <2>1, ForKept DEF IInv, JobsInv, At
    <2>4. At(j, "node") => Exists(job[j].id)'
        BY <1>2, <1>3, <2>1 DEF IInv, JobsInv, At, Exists
    <2>. QED BY <1>5, <2>1, <2>2, <2>3, <2>4 DEF IInv, JobsInv, KeepsIntents
<1>8. ChainInv'
    <2>1. \A h \in Hashes : chain[h] # None => chain[h].for \in Intents
        BY DEF IInv, TypeOK, Transaction
    <2>. QED BY <1>2, <1>5, <2>1, ForKept DEF IInv, ChainInv
<1>9. RecordInv'
    BY <1>1, <1>2, <1>3 DEF IInv, RecordInv, Exists
<1>10. SignedByPayer'
    BY <1>2 DEF IInv, SignedByPayer
<1>. QED BY <1>4, <1>6, <1>7, <1>8, <1>9, <1>10 DEF IInv

(* Steps that leave the entries and the policy alone carry their part of the *)
(* invariant along.                                                          *)
LEMMA EntriesKept ==
    ASSUME IInv, UNCHANGED <<policy, entry>>
    PROVE  /\ ValidatedAllowed'
           /\ \A i \in Intents : \A pays : IsFor(pays, i) => IsFor(pays, i)'
           /\ UNCHANGED chain => ChainInv' /\ RecordInv' /\ SignedByPayer'
<1>1. ValidatedAllowed'
    BY DEF IInv, ValidatedAllowed, StateIs, Exists
<1>2. \A i \in Intents : \A pays : IsFor(pays, i) => IsFor(pays, i)'
    BY DEF IsFor, Exists
<1>3. ASSUME UNCHANGED chain PROVE ChainInv' /\ RecordInv' /\ SignedByPayer'
    BY <1>3 DEF IInv, ChainInv, RecordInv, SignedByPayer, IsFor, Exists
<1>. QED BY <1>1, <1>2, <1>3

(* A job that stays over, or whose new record is sound, keeps JobsInv.       *)
JobSound(k) ==
    /\ entry[k.id] # Unused
    /\ k.pc \in {"built", "popup"} => IsFor(k.pays, k.id)
    /\ k.pc = "popup" => k.signer = k.payer
    /\ k.pc \in {"handed", "node"} => chain[k.hash] # None /\ chain[k.hash].for = k.id
    /\ k.pc = "node" => Exists(k.id)

LEMMA JobForm ==
    ASSUME IInv, NEW j \in Jobs, JobGoesOn(j)
    PROVE  /\ \E k \in Job \cup {NoJob} :
                job' = [job EXCEPT ![j] = k] /\ (k # NoJob => JobSound(k))
           /\ UNCHANGED <<policy, entry, active, account, chain>>
<1>1. UNCHANGED <<policy, entry, active, account, chain>>
    BY DEF JobGoesOn, ClickSign, BuildAnswered, Send, GivesUp, ConfirmArrives
<1> DEFINE Goal == \E k \in Job \cup {NoJob} :
                        job' = [job EXCEPT ![j] = k] /\ (k # NoJob => JobSound(k))
<1>2. CASE Ends(j)
    BY <1>1, <1>2 DEF Ends
<1>3. ASSUME NEW i \in Intents, ClickSign(j, i) PROVE Goal
    <2> DEFINE k == [pc |-> "asked", id |-> i, payer |-> account]
    <2>1. account \in Accounts /\ Exists(i) /\ job' = [job EXCEPT ![j] = k]
        BY <1>3 DEF ClickSign, IInv, TypeOK
    <2>2. k \in Job /\ k.id = i /\ k.pc = "asked"
        BY <2>1 DEF Job
    <2>. QED BY <2>1, <2>2 DEF JobSound, Exists
<1>4. job[j] \in Job \cup {NoJob} /\ NoJob.pc = "over"
    BY DEF IInv, TypeOK, NoJob
<1>5. CASE BuildAnswered(j) /\ ~ Ends(j)
    <2> DEFINE i == job[j].id
               k == [pc |-> "built", id |-> i, payer |-> job[j].payer,
                     pays |-> Pays(entry[i].body)]
    <2>1. /\ i \in Intents /\ job[j].payer \in Accounts
          /\ ~ Refused(i, job[j].payer) /\ job' = [job EXCEPT ![j] = k]
        BY <1>4, <1>5 DEF BuildAnswered, At, Job
    <2>2. Exists(i) /\ entry[i] \in Entry /\ PolicyAllows(policy, entry[i].body)
        BY <2>1 DEF Refused, Exists, IInv, TypeOK
    <2>3. entry[i].body \in Body
        BY <2>2 DEF Entry
    <2>4. Pays(entry[i].body) = Asked(entry[i].body) /\ Pays(entry[i].body) \in Payment
        BY <2>2, <2>3, AllowedIsAsked, PaysTypes DEF IInv, ValidatedAllowed
    <2>5. k \in Job
        BY <2>1, <2>4 DEF Job
    <2>6. k.pc = "built" /\ k.id = i /\ k.pays = Pays(entry[i].body)
        OBVIOUS
    <2>. HIDE DEF k
    <2>7. JobSound(k)
        BY <2>2, <2>4, <2>6 DEF JobSound, IsFor, Exists
    <2>. QED BY <1>1, <2>1, <2>5, <2>7 DEF k
<1>6. CASE Send(j) /\ ~ Ends(j)
    <2> DEFINE k == [pc |-> "popup", id |-> job[j].id, payer |-> job[j].payer,
                     pays |-> job[j].pays, signer |-> Signer(j)]
    <2>1. At(j, "built") /\ job' = [job EXCEPT ![j] = k]
        BY <1>6 DEF Send
    <2>2. /\ job[j].id \in Intents /\ job[j].payer \in Accounts /\ job[j].pays \in Payment
          /\ Signer(j) = job[j].payer
        BY <1>4, <2>1 DEF At, Job, Signer
    <2>3. IsFor(job[j].pays, job[j].id) /\ entry[job[j].id] # Unused
        BY <2>1 DEF IInv, JobsInv, IsFor
    <2>4. k \in Job /\ k.pc = "popup" /\ k.id = job[j].id /\ k.pays = job[j].pays
          /\ k.signer = k.payer
        BY <2>2 DEF Job
    <2>. HIDE DEF k
    <2>5. JobSound(k)
        BY <2>3, <2>4 DEF JobSound
    <2>. QED BY <1>1, <2>1, <2>4, <2>5 DEF k
<1>7. CASE ConfirmArrives(j) /\ ~ Ends(j)
    <2> DEFINE k == [job[j] EXCEPT !.pc = "node"]
    <2>1. At(j, "handed") /\ StateIs(job[j].id, "POLICY_VALIDATED")
          /\ job' = [job EXCEPT ![j].pc = "node"]
        BY <1>7 DEF ConfirmArrives, Goes
    <2>2. job' = [job EXCEPT ![j] = k]
        BY <2>1 DEF IInv, TypeOK
    <2>3. job[j] \in [pc : {"handed", "node"}, id : Intents, hash : Hashes]
        BY <1>4, <2>1 DEF At, Job
    <2>4. k \in [pc : {"handed", "node"}, id : Intents, hash : Hashes]
          /\ k.pc = "node" /\ k.id = job[j].id /\ k.hash = job[j].hash
        BY <2>3
    <2>5. chain[job[j].hash] # None /\ chain[job[j].hash].for = job[j].id
        BY <2>1 DEF IInv, JobsInv
    <2>6. Exists(job[j].id)
        BY <2>1 DEF StateIs
    <2>. HIDE DEF k
    <2>7. JobSound(k) /\ k \in Job
        BY <2>4, <2>5, <2>6 DEF JobSound, Exists, Job
    <2>. QED BY <1>1, <2>2, <2>7
<1>8. GivesUp(j) => Ends(j)
    BY DEF GivesUp
<1>. QED BY <1>1, <1>2, <1>3, <1>5, <1>6, <1>7, <1>8 DEF JobGoesOn

LEMMA JobStep == ASSUME IInv, NEW j \in Jobs, JobGoesOn(j) PROVE IInv'
<1>1. PICK k \in Job \cup {NoJob} : job' = [job EXCEPT ![j] = k] /\ (k # NoJob => JobSound(k))
    BY JobForm
<1>2. UNCHANGED <<policy, entry, active, account, chain>>
    BY JobForm
<1>3. TypeOK'
    BY <1>1, <1>2 DEF IInv, TypeOK
<1>4. job'[j] = k /\ \A q \in Jobs \ {j} : job'[q] = job[q]
    BY <1>1 DEF IInv, TypeOK
<1>5. JobsInv'
    <2> SUFFICES ASSUME NEW q \in Jobs
                 PROVE  /\ job'[q].pc # "over" => entry'[job'[q].id] # Unused
                        /\ job'[q].pc = "built" \/ job'[q].pc = "popup" =>
                                IsFor(job[q].pays, job[q].id)'
                        /\ job'[q].pc = "popup" => job'[q].signer = job'[q].payer
                        /\ job'[q].pc = "handed" \/ job'[q].pc = "node" =>
                            /\ chain'[job'[q].hash] # None
                            /\ chain'[job'[q].hash].for = job'[q].id
                        /\ job'[q].pc = "node" => Exists(job[q].id)'
        BY DEF JobsInv, At
    <2>1. CASE q # j
        BY <1>2, <1>4, <2>1 DEF IInv, JobsInv, At, IsFor, Exists
    <2>2. CASE q = j /\ k # NoJob
        BY <1>1, <1>2, <1>4, <2>2 DEF JobSound, IsFor, Exists
    <2>3. CASE q = j /\ k = NoJob
        BY <1>4, <2>3 DEF NoJob
    <2>. QED BY <2>1, <2>2, <2>3
<1>. QED BY <1>2, <1>3, <1>5, EntriesKept DEF IInv

LEMMA ApproveStep == ASSUME IInv, NEW j \in Jobs, NEW h \in Hashes, Approve(j, h) PROVE IInv'
<1> DEFINE tx == [fate |-> "pending", payer |-> job[j].payer, signer |-> job[j].signer,
                  pays |-> job[j].pays, for |-> job[j].id]
           handed == [pc |-> "handed", id |-> job[j].id, hash |-> h]
<1>1. /\ At(j, "popup") /\ chain[h] = None
      /\ chain' = [chain EXCEPT ![h] = tx]
      /\ job' = [job EXCEPT ![j] = handed] \/ job' = [job EXCEPT ![j] = NoJob]
      /\ UNCHANGED <<policy, entry, active, account>>
    BY DEF Approve, HandsOff, Ends
<1>2. job[j] \in [pc : {"popup"}, id : Intents, payer : Accounts, pays : Payment,
                  signer : Accounts]
    <2>1. job[j] \in Job \cup {NoJob} /\ NoJob.pc = "over"
        BY DEF IInv, TypeOK, NoJob
    <2>. QED BY <1>1, <2>1 DEF At, Job
<1>3. /\ tx \in Transaction /\ tx # None /\ tx.fate = "pending" /\ tx.signer = tx.payer
      /\ tx.pays = job[j].pays /\ tx.for = job[j].id
    <2>1. tx \in Transaction
        BY <1>2 DEF Transaction
    <2>2. job[j].signer = job[j].payer
        BY <1>1 DEF IInv, JobsInv
    <2>. QED BY <2>1, <2>2, Distinct
<1>4. /\ handed \in Job /\ handed.pc = "handed" /\ handed.id = job[j].id /\ handed.hash = h
      /\ NoJob.pc = "over"
    BY <1>2 DEF Job, NoJob
<1>5. IsFor(job[j].pays, job[j].id) /\ entry[job[j].id] # Unused
    BY <1>1 DEF IInv, JobsInv, IsFor
<1>. HIDE DEF tx, handed
<1>6. chain'[h] = tx /\ \A g \in Hashes \ {h} : chain'[g] = chain[g]
    BY <1>1 DEF IInv, TypeOK
<1>7. job'[j] \in {handed, NoJob} /\ \A q \in Jobs \ {j} : job'[q] = job[q]
    BY <1>1 DEF IInv, TypeOK
<1>8. TypeOK'
    BY <1>1, <1>3, <1>4 DEF IInv, TypeOK
<1>9. \A g \in Hashes : chain[g] # None => chain'[g] # None /\ chain'[g].for = chain[g].for
    BY <1>1, <1>6
<1>10. JobsInv'
    <2> SUFFICES ASSUME NEW q \in Jobs
                 PROVE  /\ job'[q].pc # "over" => entry'[job'[q].id] # Unused
                        /\ job'[q].pc = "built" \/ job'[q].pc = "popup" =>
                                IsFor(job[q].pays, job[q].id)'
                        /\ job'[q].pc = "popup" => job'[q].signer = job'[q].payer
                        /\ job'[q].pc = "handed" \/ job'[q].pc = "node" =>
                            /\ chain'[job'[q].hash] # None
                            /\ chain'[job'[q].hash].for = job'[q].id
                        /\ job'[q].pc = "node" => Exists(job[q].id)'
        BY DEF JobsInv, At
    <2>1. CASE q # j
        <3>1. job'[q] = job[q] /\ (At(q, "handed") \/ At(q, "node") => job[q].hash \in Hashes)
            BY <1>7, <2>1 DEF IInv, TypeOK, At, Job, NoJob
        <3>. QED BY <1>1, <1>9, <3>1 DEF IInv, JobsInv, At, IsFor, Exists
    <2>2. CASE q = j /\ job'[j] = handed
        BY <1>1, <1>3, <1>4, <1>5, <1>6, <2>2
    <2>3. CASE q = j /\ job'[j] = NoJob
        BY <1>4, <2>3
    <2>. QED BY <1>7, <2>1, <2>2, <2>3
<1>11. ChainInv' /\ SignedByPayer'
    BY <1>1, <1>3, <1>5, <1>6 DEF IInv, ChainInv, SignedByPayer, IsFor, Exists
<1>12. RecordInv'
    <2> SUFFICES ASSUME NEW i \in Intents, Exists(i), entry[i].hash # None
                 PROVE  /\ chain'[entry[i].hash] # None
                        /\ chain'[entry[i].hash].fate = "success"
                        /\ chain'[entry[i].hash].for = i
        BY <1>1 DEF RecordInv, Exists
    <2>1. entry[i] \in Entry
        BY DEF Exists, IInv, TypeOK
    <2>2. entry[i].hash \in Hashes
        BY <2>1 DEF Entry
    <2>3. /\ chain[entry[i].hash] # None /\ chain[entry[i].hash].fate = "success"
          /\ chain[entry[i].hash].for = i
        BY DEF IInv, RecordInv
    <2>. QED BY <1>1, <1>6, <2>2, <2>3
<1>. QED BY <1>1, <1>8, <1>10, <1>11, <1>12, EntriesKept DEF IInv

(* The node's answer is recorded for the intent the transaction is of.       *)
LEMMA NodeStep == ASSUME IInv, NEW j \in Jobs, NodeAnswers(j) PROVE IInv'
<1> DEFINE i == job[j].id
           h == job[j].hash
           e == [entry[i] EXCEPT !.state = "EXECUTED", !.hash = h]
<1>1. At(j, "node") /\ Ends(j) /\ UNCHANGED <<policy, active, account, chain>>
    BY DEF NodeAnswers
<1>2. i \in Intents /\ h \in Hashes
    <2>1. job[j] \in Job \cup {NoJob} /\ NoJob.pc = "over"
        BY DEF IInv, TypeOK, NoJob
    <2>. QED BY <1>1, <2>1 DEF At, Job
<1>3. Exists(i) /\ entry[i] \in Entry /\ chain[h] # None /\ chain[h].for = i
    BY <1>1, <1>2 DEF IInv, JobsInv, Exists, TypeOK
<1>4. /\ e \in Entry /\ e.state = "EXECUTED" /\ e.body = entry[i].body /\ e.hash = h
      /\ e # Unused /\ e # Lost
    BY <1>2, <1>3, Distinct DEF Entry
<1>5. UNCHANGED entry \/ (chain[h].fate = "success" /\ entry' = [entry EXCEPT ![i] = e])
    BY <1>2 DEF NodeAnswers, IInv, TypeOK
<1>. HIDE DEF i, h, e
<1>6. job'[j] = NoJob /\ NoJob.pc = "over" /\ \A q \in Jobs \ {j} : job'[q] = job[q]
    BY <1>1 DEF Ends, IInv, TypeOK, NoJob
<1>7. \/ UNCHANGED entry
      \/ /\ chain[h].fate = "success" /\ entry'[i] = e
         /\ \A k \in Intents \ {i} : entry'[k] = entry[k]
    BY <1>5 DEF IInv, TypeOK
<1>8. TypeOK'
    BY <1>1, <1>4, <1>5 DEF IInv, TypeOK, Ends
<1>9. KeepsIntents
    BY <1>3, <1>4, <1>7 DEF KeepsIntents, Exists
<1>10. ValidatedAllowed'
    BY <1>1, <1>4, <1>7 DEF IInv, ValidatedAllowed, StateIs, Exists
<1>11. JobsInv'
    <2> SUFFICES ASSUME NEW q \in Jobs, job'[q].pc # "over"
                 PROVE  /\ entry'[job'[q].id] # Unused
                        /\ job'[q].pc = "built" \/ job'[q].pc = "popup" =>
                                IsFor(job[q].pays, job[q].id)'
                        /\ job'[q].pc = "popup" => job'[q].signer = job'[q].payer
                        /\ job'[q].pc = "handed" \/ job'[q].pc = "node" =>
                            /\ chain'[job'[q].hash] # None
                            /\ chain'[job'[q].hash].for = job'[q].id
                        /\ job'[q].pc = "node" => Exists(job[q].id)'
        BY DEF JobsInv, At
    <2>1. job'[q] = job[q] /\ ~ At(q, "over")
        BY <1>6 DEF At
    <2>2. job[q].id \in Intents /\ entry[job[q].id] # Unused
        BY <2>1 DEF IInv, TypeOK, JobsInv, At, Job, NoJob
    <2>3. At(q, "built") \/ At(q, "popup") => IsFor(job[q].pays, job[q].id)'
        BY <1>9, <2>1, <2>2, ForKept DEF IInv, JobsInv
    <2>4. At(q, "node") => Exists(job[q].id)'
        BY <1>4, <1>7, <2>1, <2>2 DEF IInv, JobsInv, Exists
    <2>. QED BY <1>1, <1>9, <2>1, <2>2, <2>3, <2>4 DEF IInv, JobsInv, KeepsIntents, At
<1>12. ChainInv' /\ SignedByPayer'
    <2>1. \A g \in Hashes : chain[g] # None => chain[g].for \in Intents
        BY DEF IInv, TypeOK, Transaction
    <2>. QED BY <1>1, <1>9, <2>1, ForKept DEF IInv, ChainInv, SignedByPayer
<1>13. RecordInv'
    BY <1>1, <1>3, <1>4, <1>7 DEF IInv, RecordInv, Exists
<1>. QED BY <1>8, <1>10, <1>11, <1>12, <1>13 DEF IInv

LEMMA ChainStep == ASSUME IInv, NEW h \in Hashes, ChainDecides(h) PROVE IInv'
<1>1. PICK fate \in {"success", "reverted"} : chain' = [chain EXCEPT ![h].fate = fate]
    BY DEF ChainDecides
<1>2. /\ chain[h] # None /\ chain[h].fate = "pending"
      /\ UNCHANGED <<policy, entry, active, account, job>>
    BY DEF ChainDecides
<1>3. chain[h] \in Transaction
    BY <1>2 DEF IInv, TypeOK
<1> DEFINE tx == [chain[h] EXCEPT !.fate = fate]
<1>4. /\ tx \in Transaction /\ tx # None /\ tx.fate = fate /\ tx.pays = chain[h].pays
      /\ tx.for = chain[h].for /\ tx.signer = chain[h].signer /\ tx.payer = chain[h].payer
    <2>1. tx \in Transaction
        BY <1>3 DEF Transaction
    <2>2. /\ tx.fate = fate /\ tx.pays = chain[h].pays
          /\ tx.for = chain[h].for /\ tx.signer = chain[h].signer /\ tx.payer = chain[h].payer
        BY <1>3 DEF Transaction
    <2>. QED BY <2>1, <2>2, Distinct
<1>5. chain' = [chain EXCEPT ![h] = tx]
    BY <1>1 DEF IInv, TypeOK
<1>. HIDE DEF tx
<1>6. chain'[h] = tx /\ \A g \in Hashes \ {h} : chain'[g] = chain[g]
    BY <1>5 DEF IInv, TypeOK
<1>7. TypeOK'
    BY <1>2, <1>4, <1>5 DEF IInv, TypeOK
<1>8. \A g \in Hashes : chain[g] # None =>
        /\ chain'[g] # None /\ chain'[g].for = chain[g].for
        /\ chain[g].fate = "success" => chain'[g].fate = "success"
    BY <1>2, <1>4, <1>6
<1>9. JobsInv'
    <2>1. \A q \in Jobs : At(q, "handed") \/ At(q, "node") => job[q].hash \in Hashes
        BY DEF IInv, TypeOK, At, Job, NoJob
    <2>. QED BY <1>2, <1>8, <2>1 DEF IInv, JobsInv, At, IsFor, Exists
<1>10. ChainInv' /\ SignedByPayer'
    BY <1>2, <1>4, <1>6 DEF IInv, ChainInv, SignedByPayer, IsFor, Exists
<1>11. RecordInv'
    <2>1. \A i \in Intents : Exists(i) /\ entry[i].hash # None => entry[i].hash \in Hashes
        BY DEF IInv, TypeOK, Exists, Entry
    <2>. QED BY <1>2, <1>8, <2>1 DEF IInv, RecordInv, Exists
<1>. QED BY <1>2, <1>7, <1>9, <1>10, <1>11, EntriesKept DEF IInv

LEMMA WalletStep == ASSUME IInv, SwitchAccount \/ Connect PROVE IInv'
<1>1. TypeOK' /\ UNCHANGED <<policy, entry, job, chain>>
    BY DEF IInv, TypeOK, SwitchAccount, Connect, Session
<1>2. JobsInv'
    BY <1>1 DEF IInv, JobsInv, At, IsFor, Exists
<1>. QED BY <1>1, <1>2, EntriesKept DEF IInv

(* A restart leaves no entry to be claimed anything of.                      *)
LEMMA RestartStep == ASSUME IInv, Restart PROVE IInv'
<1>1. /\ StartsWith(policy')
      /\ entry' = [i \in Intents |-> IF entry[i] = Unused THEN Unused ELSE Lost]
      /\ job' = [j \in Jobs |-> IF job[j].pc \in {"asked", "node"} THEN NoJob ELSE job[j]]
      /\ UNCHANGED <<active, account, chain>>
    BY DEF Restart
<1>2. \A i \in Intents : ~ Exists(i)' /\ (entry[i] # Unused => entry'[i] # Unused)
    BY <1>1, Distinct DEF Exists
<1>3. TypeOK'
    BY <1>1 DEF IInv, TypeOK
<1>4. \A i \in Intents : \A pays : IsFor(pays, i) => IsFor(pays, i)'
    BY <1>2 DEF IsFor, Exists
<1>5. ValidatedAllowed' /\ RecordInv' /\ SignedByPayer'
    BY <1>1, <1>2 DEF IInv, ValidatedAllowed, RecordInv, SignedByPayer, StateIs, Exists
<1>6. ChainInv'
    <2>1. \A g \in Hashes : chain[g] # None => chain[g].for \in Intents
        BY DEF IInv, TypeOK, Transaction
    <2>. QED BY <1>1, <1>4, <2>1 DEF IInv, ChainInv
<1>7. JobsInv'
    <2> SUFFICES ASSUME NEW q \in Jobs, job'[q].pc # "over"
                 PROVE  /\ entry'[job'[q].id] # Unused
                        /\ job'[q].pc = "built" \/ job'[q].pc = "popup" =>
                                IsFor(job[q].pays, job[q].id)'
                        /\ job'[q].pc = "popup" => job'[q].signer = job'[q].payer
                        /\ job'[q].pc = "handed" \/ job'[q].pc = "node" =>
                            /\ chain'[job'[q].hash] # None
                            /\ chain'[job'[q].hash].for = job'[q].id
                        /\ job'[q].pc = "node" => Exists(job[q].id)'
        BY DEF JobsInv, At
    <2>1. job'[q] = job[q] /\ ~ At(q, "over") /\ ~ At(q, "node")
        BY <1>1 DEF At, NoJob
    <2>2. job[q].id \in Intents /\ entry[job[q].id] # Unused
        BY <2>1 DEF IInv, TypeOK, JobsInv, At, Job, NoJob
    <2>3. At(q, "built") \/ At(q, "popup") => IsFor(job[q].pays, job[q].id)'
        BY <1>4, <2>1, <2>2 DEF IInv, JobsInv, IsFor, Exists
    <2>. QED BY <1>1, <1>2, <2>1, <2>2, <2>3 DEF IInv, JobsInv, At
<1>. QED BY <1>3, <1>5, <1>6, <1>7 DEF IInv

LEMMA InvStep == IInv /\ [Next]_vars => IInv'
<1> SUFFICES ASSUME IInv, [Next]_vars PROVE IInv'
    OBVIOUS
<1>1. ASSUME NEW i \in Intents, NEW body \in FormBodies \cup OtherBodies, Create(i, body)
      PROVE  IInv'
    BY <1>1, WritesStep DEF Writes
<1>2. ASSUME NEW i \in Intents, Validate(i) \/ Decide(i) PROVE IInv'
    BY <1>2, WritesStep DEF Writes
<1>3. CASE SwitchAccount \/ Connect
    BY <1>3, WalletStep
<1>4. ASSUME NEW j \in Jobs, NEW i \in Intents, ClickSign(j, i) PROVE IInv'
    BY <1>4, JobStep DEF JobGoesOn
<1>5. ASSUME NEW j \in Jobs, BuildAnswered(j) \/ Send(j) \/ GivesUp(j) \/ ConfirmArrives(j)
      PROVE  IInv'
    BY <1>5, JobStep DEF JobGoesOn
<1>6. ASSUME NEW j \in Jobs, NEW h \in Hashes, Approve(j, h) PROVE IInv'
    BY <1>6, ApproveStep
<1>7. ASSUME NEW j \in Jobs, NodeAnswers(j) PROVE IInv'
    BY <1>7, NodeStep
<1>8. ASSUME NEW h \in Hashes, ChainDecides(h) PROVE IInv'
    BY <1>8, ChainStep
<1>9. CASE Restart
    BY <1>9, RestartStep
<1>10. CASE UNCHANGED vars
    <2>1. TypeOK' /\ JobsInv'
        BY <1>10 DEF vars, IInv, TypeOK, JobsInv, At, IsFor, Exists
    <2>. QED BY <1>10, <2>1, EntriesKept DEF vars, IInv
<1>. QED BY <1>1, <1>2, <1>3, <1>4, <1>5, <1>6, <1>7, <1>8, <1>9, <1>10 DEF Next

(* The inductive invariant: every payment keeps to the intent it was built for.*)
THEOREM CoSignInvariant == Spec => []IInv
<1>. QED BY InvInit, InvStep, PTL DEF Spec

(* The types of the API's map, the wallet's and page's account, the co-signs *)
(* under way and the transactions.                                           *)
THEOREM CoSignTypeCorrect == Spec => []TypeOK
<1>1. IInv => TypeOK
    BY DEF IInv
<1>. QED BY <1>1, CoSignInvariant, PTL

(* For any accounts, switched and connected in any order: no transaction is *)
(* broadcast with another account's signature than its initiator's.         *)
THEOREM WhoSignsPays == Spec => []SignedByPayer
<1>1. IInv => SignedByPayer
    BY DEF IInv
<1>. QED BY <1>1, CoSignInvariant, PTL

(* For any number of intents and co-signs: a confirmed hash is of a          *)
(* transaction that succeeded, pays what its intent asks for and is recorded *)
(* for no other intent, across restarts with any of the policies.            *)
THEOREM ConfirmedHashPaysIntent == Spec => []ConfirmedPaysIntent
<1>1. IInv => ConfirmedPaysIntent
    <2> SUFFICES ASSUME IInv, NEW i \in Intents, Exists(i), entry[i].hash # None
                 PROVE  /\ chain[entry[i].hash] # None
                        /\ chain[entry[i].hash].fate = "success"
                        /\ chain[entry[i].hash].pays = Asked(entry[i].body)
                        /\ \A k \in Intents \ {i} : Exists(k) => entry[k].hash # entry[i].hash
        BY DEF ConfirmedPaysIntent
    <2>1. /\ chain[entry[i].hash] # None /\ chain[entry[i].hash].fate = "success"
          /\ chain[entry[i].hash].for = i
        BY DEF IInv, RecordInv
    <2>2. entry[i] \in Entry
        BY DEF Exists, IInv, TypeOK
    <2>3. entry[i].hash \in Hashes
        BY <2>2 DEF Entry
    <2>4. chain[entry[i].hash].pays = Asked(entry[i].body)
        BY <2>1, <2>3 DEF IInv, ChainInv, IsFor
    <2>5. \A k \in Intents \ {i} : Exists(k) => entry[k].hash # entry[i].hash
        BY <2>1 DEF IInv, RecordInv
    <2>. QED BY <2>1, <2>4, <2>5
<1>. QED BY <1>1, CoSignInvariant, PTL

(* For any operator's receiver and any requests: the unsigned transfer of a *)
(* validated intent is refused to no account but the receiver's own.        *)
THEOREM AdmittedCanBeBuilt == Spec => []AdmittedIsBuildable
<1>1. IInv => AdmittedIsBuildable
    <2> SUFFICES ASSUME IInv, NEW i \in Intents, NEW payer \in Accounts,
                        StateIs(i, "POLICY_VALIDATED"), Refused(i, payer)
                 PROVE  SelfTransfer(entry[i].body, payer)
        BY DEF AdmittedIsBuildable
    <2>1. Exists(i) /\ entry[i] \in Entry /\ entry[i].state = "POLICY_VALIDATED"
        BY DEF StateIs, Exists, IInv, TypeOK
    <2>2. entry[i].body \in Body
        BY <2>1 DEF Entry
    <2>3. StartsWith(policy) /\ PolicyAllows(policy, entry[i].body)
        BY DEF IInv, ValidatedAllowed
    <2>. QED BY <2>1, <2>2, <2>3, AllowedBuilds DEF Refused
<1>. QED BY <1>1, CoSignInvariant, PTL

-----------------------------------------------------------------------------
(* The wait for a deploy. *)
CONSTANTS Waits, MaxAttempts
VARIABLES kind, stage, wait

(* Its Hashes are those of the co-sign, of which nothing is assumed. *)
Wait == INSTANCE DeployObserver

(* What DeployObserver assumes of its constants. *)
WaitConstants == MaxAttempts \in Nat \ {0}

LEMMA WaitTypeInit == ASSUME WaitConstants PROVE Wait!Init => Wait!TypeOK
<1> SUFFICES ASSUME Wait!Init PROVE Wait!TypeOK
    OBVIOUS
<1>1. 0 \in 0 .. MaxAttempts - 1
    BY DEF WaitConstants
<1>2. Wait!NoReport \in Wait!Report
    BY DEF Wait!NoReport, Wait!Report
<1>3. wait \in [Waits -> [pc : {"none", "askDeploy", "askTransaction", "sleep",
                               "reported", "gaveUp"},
                         hash : Hashes, attempt : 0 .. MaxAttempts - 1, report : Wait!Report]]
    BY <1>1, <1>2 DEF Wait!Init
<1>. QED BY <1>3 DEF Wait!Init, Wait!TypeOK, Wait!Stages

LEMMA WaitTypeStep ==
    ASSUME WaitConstants PROVE Wait!TypeOK /\ [Wait!Next]_(Wait!vars) => Wait!TypeOK'
<1> USE DEF WaitConstants
<1> SUFFICES ASSUME Wait!TypeOK, [Wait!Next]_(Wait!vars) PROVE Wait!TypeOK'
    OBVIOUS
<1> USE DEF Wait!TypeOK
<1>1. ASSUME NEW w \in Waits, NEW h \in Hashes, Wait!Begin(w, h) PROVE Wait!TypeOK'
    BY <1>1 DEF Wait!Begin, Wait!NoReport, Wait!Report
<1>2. ASSUME NEW w \in Waits, Wait!NotYet(w), UNCHANGED <<kind, stage>> PROVE Wait!TypeOK'
    BY <1>2 DEF Wait!NotYet
<1>3. ASSUME NEW w \in Waits, NEW k \in Wait!Kinds, Wait!InfoRead(w, k) PROVE Wait!TypeOK'
    <2>1. CASE Wait!HasResult(wait[w].hash)
        BY <1>3, <2>1 DEF Wait!InfoRead, Wait!ReportResult, Wait!Report
    <2>2. CASE ~ Wait!HasResult(wait[w].hash)
        BY <1>2, <1>3, <2>2 DEF Wait!InfoRead
    <2>. QED BY <2>1, <2>2
<1>4. ASSUME NEW w \in Waits, Wait!DeployCallThrows(w) PROVE Wait!TypeOK'
    BY <1>4 DEF Wait!DeployCallThrows
<1>5. ASSUME NEW w \in Waits, Wait!TransactionCallThrows(w) PROVE Wait!TypeOK'
    BY <1>2, <1>5 DEF Wait!TransactionCallThrows
<1>6. ASSUME NEW w \in Waits, Wait!SleepEnds(w) PROVE Wait!TypeOK'
    BY <1>6 DEF Wait!SleepEnds
<1>7. ASSUME NEW h \in Hashes, Wait!NodeAdvances(h) PROVE Wait!TypeOK'
    BY <1>7 DEF Wait!NodeAdvances, Wait!Stages, Wait!Executed
<1>8. CASE UNCHANGED Wait!vars
    BY <1>8 DEF Wait!vars
<1>. QED BY <1>1, <1>3, <1>4, <1>5, <1>6, <1>7, <1>8 DEF Wait!Next, Wait!WaitStep

(* Waits and stages stay well formed, whatever calls fail and in whatever  *)
(* order the node answers.                                                 *)
THEOREM WaitTypeCorrect == ASSUME WaitConstants PROVE Wait!Spec => []Wait!TypeOK
<1>1. Wait!Init => Wait!TypeOK
    BY WaitTypeInit
<1>2. Wait!TypeOK /\ [Wait!Next]_(Wait!vars) => Wait!TypeOK'
    BY WaitTypeStep
<1>. QED BY <1>1, <1>2, PTL DEF Wait!Spec

-----------------------------------------------------------------------------
LEMMA ReportsInit == Wait!Init => Wait!ReportIsTrue
BY DEF Wait!Init, Wait!ReportIsTrue, Wait!At

LEMMA ReportFields ==
    ASSUME NEW s, NEW k, NEW r,
           r = [success |-> s \notin {"userError", "otherError"},
                code |-> s = "userError", kind |-> k]
    PROVE  /\ r.success <=> s \notin {"userError", "otherError"}
           /\ r.code <=> s = "userError"
<1>1. /\ r.success = (s \notin {"userError", "otherError"})
      /\ r.code = (s = "userError")
    BY Zenon
<1>. QED BY <1>1, Zenon

LEMMA ReportsStep ==
    Wait!TypeOK /\ Wait!ReportIsTrue /\ [Wait!Next]_(Wait!vars) => Wait!ReportIsTrue'
<1> SUFFICES ASSUME Wait!TypeOK, Wait!ReportIsTrue, [Wait!Next]_(Wait!vars) PROVE Wait!ReportIsTrue'
    OBVIOUS
<1> USE DEF Wait!TypeOK, Wait!ReportIsTrue, Wait!At
<1>1. ASSUME NEW w \in Waits, NEW h \in Hashes, Wait!Begin(w, h) PROVE Wait!ReportIsTrue'
    BY <1>1 DEF Wait!Begin
<1>2. ASSUME NEW w \in Waits, Wait!NotYet(w), UNCHANGED <<kind, stage>> PROVE Wait!ReportIsTrue'
    BY <1>2 DEF Wait!NotYet
<1>3. ASSUME NEW w \in Waits, NEW k \in Wait!Kinds, Wait!InfoRead(w, k) PROVE Wait!ReportIsTrue'
    <2>1. CASE Wait!HasResult(wait[w].hash)
        <3> DEFINE s == stage[wait[w].hash]
        <3>1. wait' = [wait EXCEPT ![w].pc = "reported",
                ![w].report = [success |-> s \notin {"userError", "otherError"},
                               code |-> s = "userError", kind |-> k]]
            BY <1>3, <2>1 DEF Wait!InfoRead, Wait!ReportResult
        <3>2. /\ wait'[w].hash = wait[w].hash
              /\ wait'[w].report = [success |-> s \notin {"userError", "otherError"},
                                    code |-> s = "userError", kind |-> k]
              /\ \A v \in Waits \ {w} : wait'[v] = wait[v]
            BY <3>1
        <3>3. s \in Wait!Executed /\ kind[wait[w].hash] = k /\ UNCHANGED <<kind, stage>>
            BY <1>3, <2>1 DEF Wait!InfoRead, Wait!Answered, Wait!HasResult
        <3>4. /\ wait'[w].report.success <=> s \notin {"userError", "otherError"}
              /\ wait'[w].report.code <=> s = "userError"
            <4>1. wait'[w].report = [success |-> s \notin {"userError", "otherError"},
                                     code |-> s = "userError", kind |-> k]
                BY <3>2
            <4>. HIDE DEF s, Wait!TypeOK, Wait!ReportIsTrue
            <4>. QED BY <4>1, ReportFields, Zenon
        <3>5. s \notin {"userError", "otherError"} <=> s = "ok"
            BY <3>3 DEF Wait!Executed
        <3>6. wait'[w].report.kind = kind[wait[w].hash]
            BY <3>2, <3>3
        <3>7. ASSUME NEW v \in Waits, wait'[v].pc = "reported"
              PROVE  /\ stage'[wait'[v].hash] \in Wait!Executed
                     /\ wait'[v].report.success <=> stage'[wait'[v].hash] = "ok"
                     /\ wait'[v].report.code <=> stage'[wait'[v].hash] = "userError"
                     /\ wait'[v].report.kind = kind'[wait'[v].hash]
            <4>. HIDE DEF Wait!TypeOK
            <4>1. CASE v = w
                BY <3>2, <3>3, <3>4, <3>5, <3>6, <4>1
            <4>2. CASE v # w
                BY <3>2, <3>3, <3>7, <4>2
            <4>. QED BY <4>1, <4>2
        <3>. QED BY <3>7
    <2>2. CASE ~ Wait!HasResult(wait[w].hash)
        BY <1>2, <1>3, <2>2 DEF Wait!InfoRead
    <2>. QED BY <2>1, <2>2
<1>4. ASSUME NEW w \in Waits, Wait!DeployCallThrows(w) PROVE Wait!ReportIsTrue'
    BY <1>4 DEF Wait!DeployCallThrows
<1>5. ASSUME NEW w \in Waits, Wait!TransactionCallThrows(w) PROVE Wait!ReportIsTrue'
    BY <1>2, <1>5 DEF Wait!TransactionCallThrows
<1>6. ASSUME NEW w \in Waits, Wait!SleepEnds(w) PROVE Wait!ReportIsTrue'
    BY <1>6 DEF Wait!SleepEnds
<1>7. ASSUME NEW h \in Hashes, Wait!NodeAdvances(h) PROVE Wait!ReportIsTrue'
    BY <1>7 DEF Wait!NodeAdvances, Wait!Executed
<1>8. CASE UNCHANGED Wait!vars
    BY <1>8 DEF Wait!vars
<1>. QED BY <1>1, <1>3, <1>4, <1>5, <1>6, <1>7, <1>8 DEF Wait!Next, Wait!WaitStep

(* A wait that reports has the chain's verdict, the right kind of the hash *)
(* and a code exactly for a user error.                                    *)
THEOREM ReportsAreTrue == ASSUME WaitConstants PROVE Wait!Spec => []Wait!ReportIsTrue
<1>1. Wait!Init => Wait!TypeOK
    BY WaitTypeInit
<1>2. Wait!TypeOK /\ [Wait!Next]_(Wait!vars) => Wait!TypeOK'
    BY WaitTypeStep
<1>. QED BY <1>1, <1>2, ReportsInit, ReportsStep, PTL DEF Wait!Spec
-----------------------------------------------------------------------------
(* The values the abstract variables have: what callers see. *)
Verdict == [h \in Hashes |->
    IF ~ stage[h] \in Wait!Executed THEN "pending"
    ELSE IF stage[h] = "ok" THEN "success" ELSE "reverted"]
WaitFor == [w \in Waits |-> wait[w].hash]
Outcome == [w \in Waits |-> Wait!OutcomeOf(w)]

(* The initial states and steps of FinalityWait, without its fairness. *)
ImplementsSafety == Wait!Abstract!Init /\ [][Wait!Abstract!Next]_(Wait!Abstract!finality)

LEMMA InitRefines == Wait!Init => Wait!Abstract!Init
<1> SUFFICES ASSUME Wait!Init PROVE Wait!Abstract!Init
    OBVIOUS
<1>1. Verdict = [h \in Hashes |-> "pending"]
    BY DEF Wait!Init, Verdict, Wait!Executed
<1>2. WaitFor \in [Waits -> Hashes]
    BY DEF Wait!Init, WaitFor
<1>3. Outcome = [w \in Waits |-> "none"]
    BY DEF Wait!Init, Outcome, Wait!OutcomeOf, Wait!Waiting, Wait!At
<1>. QED BY <1>1, <1>2, <1>3 DEF Wait!Abstract!Init, Verdict, WaitFor, Outcome

(* A wait that only moves between its requests and its sleep is a stutter, *)
(* one whose last attempt brought nothing gives up.                        *)
LEMMA NotYetRefines ==
    ASSUME Wait!TypeOK, NEW w \in Waits, Wait!Waiting(w), Wait!NotYet(w), UNCHANGED <<kind, stage>>
    PROVE  [Wait!Abstract!Next]_(Wait!Abstract!finality)
<1>1. Verdict' = Verdict
    BY DEF Verdict
<1>2. WaitFor' = WaitFor
    BY DEF Wait!TypeOK, Wait!NotYet, WaitFor
<1>3. CASE wait[w].attempt < MaxAttempts - 1
    <2>1. \A v \in Waits : Wait!OutcomeOf(v)' = Wait!OutcomeOf(v)
        BY <1>3 DEF Wait!TypeOK, Wait!NotYet, Wait!OutcomeOf, Wait!Waiting, Wait!At
    <2>2. Outcome' = Outcome
        BY <2>1 DEF Outcome
    <2>. QED BY <1>1, <1>2, <2>2 DEF Verdict, WaitFor, Outcome, Wait!Abstract!finality
<1>4. CASE ~ (wait[w].attempt < MaxAttempts - 1)
    <2>1. Wait!OutcomeOf(w) = "waiting"
        BY DEF Wait!OutcomeOf
    <2>2. wait' = [wait EXCEPT ![w].pc = "gaveUp"]
        BY <1>4 DEF Wait!NotYet
    <2>3. Wait!OutcomeOf(w)' = "gaveUp"
        BY <2>2 DEF Wait!TypeOK, Wait!OutcomeOf, Wait!Waiting, Wait!At
    <2>4. \A v \in Waits \ {w} : Wait!OutcomeOf(v)' = Wait!OutcomeOf(v)
        BY <2>2 DEF Wait!TypeOK, Wait!OutcomeOf, Wait!Waiting, Wait!At
    <2>5. Outcome' = [Outcome EXCEPT ![w] = "gaveUp"]
        BY <2>3, <2>4 DEF Outcome
    <2>6. Wait!Abstract!GiveUp(w)
        BY <1>1, <1>2, <2>1, <2>5 DEF Wait!Abstract!GiveUp, Verdict, WaitFor, Outcome
    <2>. QED BY <2>6 DEF Wait!Abstract!Next, Wait!Abstract!Ends
<1>. QED BY <1>3, <1>4

LEMMA MoveRefines ==
    ASSUME Wait!TypeOK, NEW w \in Waits, Wait!Waiting(w),
           NEW pc \in {"askDeploy", "askTransaction"},
           wait' = [wait EXCEPT ![w].pc = pc], UNCHANGED <<kind, stage>>
    PROVE  UNCHANGED Wait!Abstract!finality
<1>1. Verdict' = Verdict
    BY DEF Verdict
<1>2. WaitFor' = WaitFor
    BY DEF Wait!TypeOK, WaitFor
<1>3. \A v \in Waits : Wait!OutcomeOf(v)' = Wait!OutcomeOf(v)
    BY DEF Wait!TypeOK, Wait!OutcomeOf, Wait!Waiting, Wait!At
<1>4. Outcome' = Outcome
    BY <1>3 DEF Outcome
<1>. QED BY <1>1, <1>2, <1>4 DEF Verdict, WaitFor, Outcome, Wait!Abstract!finality

LEMMA ReportRefines ==
    ASSUME Wait!TypeOK, NEW w \in Waits, NEW k \in Wait!Kinds,
           Wait!InfoRead(w, k), Wait!HasResult(wait[w].hash)
    PROVE  Wait!Abstract!Learn(w)
<1> DEFINE h == wait[w].hash
           s == stage[h]
           r == [success |-> s \notin {"userError", "otherError"},
                 code |-> s = "userError", kind |-> k]
<1>1. wait' = [wait EXCEPT ![w].pc = "reported", ![w].report = r]
    BY DEF Wait!InfoRead, Wait!ReportResult
<1>2. UNCHANGED <<kind, stage>> /\ Wait!Waiting(w)
    BY DEF Wait!InfoRead, Wait!Answered, Wait!At, Wait!Waiting
<1>3. h \in Hashes /\ s \in Wait!Executed
    BY DEF Wait!TypeOK, Wait!HasResult
<1>4. Verdict' = Verdict /\ Verdict[h] = IF s = "ok" THEN "success" ELSE "reverted"
    BY <1>2, <1>3 DEF Verdict
<1>5. WaitFor' = WaitFor /\ WaitFor[w] = h
    BY <1>1 DEF Wait!TypeOK, WaitFor
<1>6. /\ wait'[w].pc = "reported" /\ wait'[w].report = r
      /\ \A v \in Waits \ {w} : wait'[v] = wait[v]
    BY <1>1 DEF Wait!TypeOK
<1>7. wait'[w].report.success <=> s = "ok"
    <2>1. r.success <=> s \notin {"userError", "otherError"}
        BY ReportFields
    <2>2. s \notin {"userError", "otherError"} <=> s = "ok"
        BY <1>3 DEF Wait!Executed
    <2>. QED BY <1>6, <2>1, <2>2
<1>8. Wait!OutcomeOf(w)' = Verdict[h]
    BY <1>4, <1>6, <1>7 DEF Wait!OutcomeOf, Wait!Waiting, Wait!At
<1>9. \A v \in Waits \ {w} : Wait!OutcomeOf(v)' = Wait!OutcomeOf(v)
    BY <1>6 DEF Wait!OutcomeOf, Wait!Waiting, Wait!At
<1>10. Outcome' = [Outcome EXCEPT ![w] = Verdict[WaitFor[w]]]
    BY <1>5, <1>8, <1>9 DEF Outcome
<1>11. Outcome[w] = "waiting"
    BY <1>2 DEF Outcome, Wait!OutcomeOf
<1>12. Verdict[WaitFor[w]] # "pending"
    BY <1>4, <1>5
<1>. QED BY <1>4, <1>5, <1>10, <1>11, <1>12 DEF Wait!Abstract!Learn, Verdict, WaitFor, Outcome

LEMMA BeginRefines ==
    ASSUME Wait!TypeOK, NEW w \in Waits, NEW h \in Hashes, Wait!Begin(w, h)
    PROVE  Wait!Abstract!Begin(w, h)
<1>1. Verdict' = Verdict
    BY DEF Wait!Begin, Verdict
<1>2. WaitFor' = [WaitFor EXCEPT ![w] = h]
    BY DEF Wait!TypeOK, Wait!Begin, WaitFor
<1>3. Outcome[w] # "waiting"
    BY DEF Wait!TypeOK, Wait!Begin, Outcome, Wait!OutcomeOf, Wait!Waiting, Wait!At
<1>4. Wait!OutcomeOf(w)' = "waiting"
    BY DEF Wait!TypeOK, Wait!Begin, Wait!OutcomeOf, Wait!Waiting, Wait!At
<1>5. \A v \in Waits \ {w} : Wait!OutcomeOf(v)' = Wait!OutcomeOf(v)
    BY DEF Wait!TypeOK, Wait!Begin, Wait!OutcomeOf, Wait!Waiting, Wait!At
<1>6. Outcome' = [Outcome EXCEPT ![w] = "waiting"]
    BY <1>4, <1>5 DEF Outcome
<1>. QED BY <1>1, <1>2, <1>3, <1>6 DEF Wait!Abstract!Begin, Verdict, WaitFor, Outcome

(* The node's last step decides the deploy, its others are not seen. *)
LEMMA NodeRefines ==
    ASSUME Wait!TypeOK, NEW h \in Hashes, Wait!NodeAdvances(h)
    PROVE  [Wait!Abstract!Next]_(Wait!Abstract!finality)
<1>1. WaitFor' = WaitFor /\ Outcome' = Outcome
    BY DEF Wait!NodeAdvances, WaitFor, Outcome, Wait!OutcomeOf, Wait!Waiting, Wait!At
<1>2. CASE stage[h] # "inBlock"
    <2>1. Verdict' = Verdict
        BY <1>2 DEF Wait!TypeOK, Wait!NodeAdvances, Verdict, Wait!Executed
    <2>. QED BY <1>1, <2>1 DEF Verdict, WaitFor, Outcome, Wait!Abstract!finality
<1>3. CASE stage[h] = "inBlock"
    <2>1. PICK e \in Wait!Executed : stage' = [stage EXCEPT ![h] = e]
        BY <1>3 DEF Wait!NodeAdvances
    <2>2. Verdict[h] = "pending"
        BY <1>3 DEF Verdict, Wait!Executed
    <2>3. Verdict' = [Verdict EXCEPT ![h] = IF e = "ok" THEN "success" ELSE "reverted"]
        BY <2>1 DEF Wait!TypeOK, Verdict
    <2>4. Wait!Abstract!Decide(h)
        BY <1>1, <2>2, <2>3 DEF Wait!Abstract!Decide, Verdict, WaitFor, Outcome
    <2>. QED BY <2>4 DEF Wait!Abstract!Next
<1>. QED BY <1>2, <1>3

(* Callers see no more than the abstract wait shows: a decision of the chain *)
(* is made once, and a wait ends with it or gives up.                        *)
THEOREM Refinement == ASSUME WaitConstants PROVE Wait!Spec => ImplementsSafety
<1>1. Wait!Init => Wait!TypeOK
    BY WaitTypeInit
<1>2. Wait!TypeOK /\ [Wait!Next]_(Wait!vars) => Wait!TypeOK'
    BY WaitTypeStep
<1>3. Wait!TypeOK /\ [Wait!Next]_(Wait!vars) => [Wait!Abstract!Next]_(Wait!Abstract!finality)
    <2> SUFFICES ASSUME Wait!TypeOK, [Wait!Next]_(Wait!vars)
                 PROVE  [Wait!Abstract!Next]_(Wait!Abstract!finality)
        OBVIOUS
    <2>1. ASSUME NEW w \in Waits, NEW h \in Hashes, Wait!Begin(w, h)
          PROVE  [Wait!Abstract!Next]_(Wait!Abstract!finality)
        BY <2>1, BeginRefines DEF Wait!Abstract!Next
    <2>2. ASSUME NEW w \in Waits, NEW k \in Wait!Kinds, Wait!InfoRead(w, k)
          PROVE  [Wait!Abstract!Next]_(Wait!Abstract!finality)
        <3>1. CASE Wait!HasResult(wait[w].hash)
            BY <2>2, <3>1, ReportRefines DEF Wait!Abstract!Next, Wait!Abstract!Ends
        <3>2. CASE ~ Wait!HasResult(wait[w].hash)
            <4>1. Wait!Waiting(w) /\ Wait!NotYet(w) /\ UNCHANGED <<kind, stage>>
                BY <2>2, <3>2 DEF Wait!InfoRead, Wait!Answered, Wait!At, Wait!Waiting
            <4>. QED BY <4>1, NotYetRefines
        <3>. QED BY <3>1, <3>2
    <2>3. ASSUME NEW w \in Waits, Wait!DeployCallThrows(w)
          PROVE  [Wait!Abstract!Next]_(Wait!Abstract!finality)
        <3>1. /\ Wait!Waiting(w) /\ UNCHANGED <<kind, stage>>
              /\ wait' = [wait EXCEPT ![w].pc = "askTransaction"]
            BY <2>3 DEF Wait!DeployCallThrows, Wait!At, Wait!Waiting
        <3>. QED BY <3>1, MoveRefines
    <2>4. ASSUME NEW w \in Waits, Wait!TransactionCallThrows(w)
          PROVE  [Wait!Abstract!Next]_(Wait!Abstract!finality)
        <3>1. Wait!Waiting(w) /\ Wait!NotYet(w) /\ UNCHANGED <<kind, stage>>
            BY <2>4 DEF Wait!TransactionCallThrows, Wait!At, Wait!Waiting
        <3>. QED BY <3>1, NotYetRefines
    <2>5. ASSUME NEW w \in Waits, Wait!SleepEnds(w)
          PROVE  [Wait!Abstract!Next]_(Wait!Abstract!finality)
        <3>1. /\ Wait!Waiting(w) /\ UNCHANGED <<kind, stage>>
              /\ wait' = [wait EXCEPT ![w].pc = "askDeploy"]
            BY <2>5 DEF Wait!SleepEnds, Wait!At, Wait!Waiting
        <3>. QED BY <3>1, MoveRefines
    <2>6. ASSUME NEW h \in Hashes, Wait!NodeAdvances(h)
          PROVE  [Wait!Abstract!Next]_(Wait!Abstract!finality)
        BY <2>6, NodeRefines
    <2>7. CASE UNCHANGED Wait!vars
        BY <2>7 DEF Wait!vars, Wait!Abstract!finality, Wait!OutcomeOf, Wait!Waiting, Wait!At
    <2>. QED BY <2>1, <2>2, <2>3, <2>4, <2>5, <2>6, <2>7 DEF Wait!Next, Wait!WaitStep
<1>. QED BY InitRefines, <1>1, <1>2, <1>3, PTL DEF Wait!Spec, ImplementsSafety

-----------------------------------------------------------------------------
(* The Tier-1 demonstration: the states of its variables. *)
Outcomes ==
    {"Ok", "AgentNotAllowed", "ReceiverNotAllowed", "VaultExpired", "AmountAboveMax",
     "ArithmeticOverflow", "DayLimitExceeded", "NonceAlreadyUsed", "InsufficientVaultBalance",
     "TokenError", "InvalidValidUntil"}
Found == Packages \cup {Nothing}
RunRow == [phase : {"new", "ready", "waiting", "sealed", "failed"}, step : 1 .. 11,
           token : Found, vault : Found]
DeployRow == [status : {"none", "pending"} \cup Outcomes, token : Found, vault : Found]
VaultRow == [token : Packages, agents : SUBSET {Deployer}, receivers : SUBSET {Payee},
             dayIndex : Nat, daySpend : Nat, paidTotal : Nat,
             usedHashes : SUBSET ({Payee, Blocked} \X Nat)]

DemoTypeOK ==
    /\ plan \in Plans
    /\ run \in [Runs -> RunRow]
    /\ artifact \in Runs \cup {Nothing}
    /\ deploy \in [Runs -> [DeploySteps -> DeployRow]]
    /\ key \in [Cep18 : Found, PolicyVault : Found]
    /\ vaults \in [Packages -> {NoVault} \cup VaultRow]
    /\ funds \in [Packages -> [Packages -> Nat]]
    /\ purse \in [Packages -> Nat]
    /\ now \in Nat

(* The steps by their place. *)
LEMMA StepPlaces ==
    /\ Len(Steps) = 11 /\ DOMAIN Steps = 1 .. 11
    /\ Steps[1] = "installCep18" /\ Steps[2] = "recoverCep18" /\ Steps[3] = "installVault"
    /\ Steps[4] = "recoverVault" /\ Steps[5] = "readEntity" /\ Steps[6] = "allowAgent"
    /\ Steps[7] = "allowReceiver" /\ Steps[8] = "fund" /\ Steps[9] = "pay"
    /\ Steps[10] = "rejectReceiver" /\ Steps[11] = "rejectAmount"
BY DEF Steps

LEMMA DeployPlaces ==
    /\ DeploySteps = {"installCep18", "installVault", "allowAgent", "allowReceiver", "fund",
                      "pay", "rejectReceiver", "rejectAmount"}
    /\ \A k \in 1 .. 11 : Steps[k] \in DeploySteps <=> Steps[k] \notin Reads
    /\ \A k \in 1 .. 11 : Steps[k] \notin Reads <=> k \in {1, 3} \cup (6 .. 11)
<1>1. \A k \in 1 .. 11 : Steps[k] \notin Reads <=> k \in {1, 3} \cup (6 .. 11)
    BY StepPlaces DEF Reads
<1>2. DeploySteps = {"installCep18", "installVault", "allowAgent", "allowReceiver", "fund",
                     "pay", "rejectReceiver", "rejectAmount"}
    BY StepPlaces DEF DeploySteps, Reads
<1>3. \A k \in 1 .. 11 : Steps[k] \in DeploySteps <=> Steps[k] \notin Reads
    BY StepPlaces DEF DeploySteps, Reads
<1>. QED BY <1>1, <1>2, <1>3

LEMMA PlanAmounts ==
    ASSUME DemoTypeOK
    PROVE  /\ plan.pay \in Nat /\ plan.reject \in Nat /\ plan.max \in Nat
           /\ \A step \in Payments : AmountOf(step) \in Nat
           /\ \A step \in Payments : ReceiverOf(step) \in {Payee, Blocked}
BY DemoAssumption DEF DemoAssumption, DemoTypeOK, AmountOf, ReceiverOf

LEMMA Installed ==
    ASSUME DemoTypeOK, NEW v \in Packages, vaults[v] # NoVault
    PROVE  vaults[v] \in VaultRow /\ funds[vaults[v].token][v] \in Nat
<1>1. vaults[v] \in VaultRow
    BY DEF DemoTypeOK
<1>. QED BY <1>1 DEF DemoTypeOK, VaultRow

(* What an accepted payment needs, of all that pay() checks. *)
LEMMA Verdicts ==
    ASSUME DemoTypeOK, NEW v \in Packages, vaults[v] # NoVault,
           NEW receiver \in {Payee, Blocked}, NEW amount \in Nat, NEW hash
    PROVE  LET verdict == Vault(v)!PayVerdict(Deployer, receiver, amount, hash) IN
           /\ verdict \in Outcomes
           /\ verdict = "Ok" =>
                /\ receiver \in vaults[v].receivers /\ amount <= plan.max
                /\ funds[vaults[v].token][v] >= amount
<1> DEFINE verdict == Vault(v)!PayVerdict(Deployer, receiver, amount, hash)
           held == funds[vaults[v].token][v]
<1>1. verdict \in Outcomes
    BY DEF Vault!PayVerdict, Outcomes
<1>2. held \in Nat /\ plan.max \in Nat
    BY PlanAmounts, Installed
<1>3. verdict = "Ok" => /\ receiver \in vaults[v].receivers
                        /\ ~ (amount > plan.max) /\ ~ (held < amount)
    BY DEF Vault!PayVerdict
<1>. QED BY <1>1, <1>2, <1>3

-----------------------------------------------------------------------------
(* Where the script and its deploys stand.  Steps before the one it is at   *)
(* ended as expected, later ones were not begun, and one run is underway at *)
(* a time.                                                                  *)
DoneUpTo(r, k) == k < run[r].step \/ Sealed(r)
Untouched(r, k) ==
    k > run[r].step \/ (k = run[r].step /\ run[r].phase \in {"new", "ready"})

ProgressInv ==
    \A r \in Runs, k \in 1 .. 11 : Steps[k] \in DeploySteps =>
        /\ DoneUpTo(r, k) => deploy[r][Steps[k]].status = Expected(Steps[k])
        /\ Untouched(r, k) => deploy[r][Steps[k]] = NoDeploy

TurnInv ==
    \A r \in Runs :
        /\ run[r].phase # "new" => \A q \in 1 .. r - 1 : Ended(q)
        /\ run[r].phase \in {"ready", "waiting", "sealed"} => PreFlight
        /\ run[r].phase = "waiting" => StepOf(r) \in DeploySteps
        /\ Sealed(r) => run[r].step = 11
        /\ run[r].phase = "new" => run[r].step = 1
        /\ artifact = r => Sealed(r)

(* The forms of a step of the script, by what becomes of its run and deploys. *)
Stays(r, phase) ==
    /\ run'[r].phase = phase /\ run'[r].step = run[r].step
    /\ run'[r].token = run[r].token /\ run'[r].vault = run[r].vault

GoesOn(r) == run'[r].phase = "ready" /\ run'[r].step = run[r].step + 1

Begins(r) ==
    /\ run[r].phase = "new" /\ \A q \in 1 .. r - 1 : Ended(q)
    /\ Stays(r, "failed") \/ (Stays(r, "ready") /\ PreFlight)
    /\ UNCHANGED <<deploy, artifact>>

Submits(r) ==
    /\ run[r].phase = "ready" /\ StepOf(r) \in DeploySteps
    /\ Stays(r, "waiting") \/ Stays(r, "failed")
    /\ deploy'[r][StepOf(r)] = Envelope(r)
    /\ \A step \in DeploySteps \ {StepOf(r)} : deploy'[r][step] = deploy[r][step]
    /\ UNCHANGED artifact

Observes(r) ==
    /\ run[r].phase = "waiting" /\ AsExpected(r)
    /\ \/ run[r].step = 11 /\ Stays(r, "sealed") /\ artifact' = r
       \/ /\ run[r].step < 11 /\ GoesOn(r)
          /\ run'[r].token = run[r].token /\ run'[r].vault = run[r].vault
          /\ UNCHANGED artifact
    /\ UNCHANGED deploy

Finds(r) ==
    /\ run[r].phase = "ready" /\ GoesOn(r)
    /\ \/ /\ run[r].step = 2 /\ key.Cep18 # Nothing
          /\ run'[r].token = key.Cep18 /\ run'[r].vault = run[r].vault
       \/ /\ run[r].step = 4 /\ key.PolicyVault # Nothing
          /\ run'[r].token = run[r].token /\ run'[r].vault = key.PolicyVault
       \/ /\ run[r].step = 5
          /\ run'[r].token = run[r].token /\ run'[r].vault = run[r].vault
    /\ UNCHANGED <<deploy, artifact>>

Stops(r) == Active(r) /\ Stays(r, "failed") /\ UNCHANGED <<deploy, artifact>>

LEMMA Phases ==
    ASSUME DemoTypeOK, NEW r \in Runs, NEW phase \in {"ready", "waiting", "sealed", "failed"},
           run' = [run EXCEPT ![r].phase = phase]
    PROVE  /\ run' \in [Runs -> RunRow] /\ Stays(r, phase)
           /\ \A q \in Runs \ {r} : run'[q] = run[q]
<1>1. run \in [Runs -> RunRow] /\ run[r] \in RunRow
    BY DEF DemoTypeOK
<1>2. [run[r] EXCEPT !.phase = phase] \in RunRow
    BY <1>1 DEF RunRow
<1>3. run'[r] = [run[r] EXCEPT !.phase = phase]
    BY <1>1
<1>. QED BY <1>1, <1>2, <1>3 DEF Stays, RunRow

LEMMA Envelopes ==
    ASSUME DemoTypeOK, NEW r \in Runs, StepOf(r) \in DeploySteps, SubmitEnvelope(r)
    PROVE  /\ deploy' \in [Runs -> [DeploySteps -> DeployRow]]
           /\ deploy'[r][StepOf(r)] = Envelope(r)
           /\ \A step \in DeploySteps \ {StepOf(r)} : deploy'[r][step] = deploy[r][step]
           /\ \A q \in Runs \ {r} : deploy'[q] = deploy[q]
<1>1. Envelope(r) \in DeployRow
    <2>1. run[r] \in RunRow
        BY DEF DemoTypeOK
    <2>. QED BY <2>1 DEF Envelope, DeployRow, RunRow
<1>. QED BY <1>1 DEF DemoTypeOK, SubmitEnvelope

LEMMA MovedRows ==
    ASSUME NEW row \in RunRow, row.step + 1 \in 1 .. 11, NEW found \in Found
    PROVE  /\ [row EXCEPT !.step = @ + 1] \in RunRow
           /\ [row EXCEPT !.phase = "ready", !.step = @ + 1] \in RunRow
           /\ [row EXCEPT !.step = @ + 1, !.token = found] \in RunRow
           /\ [row EXCEPT !.step = @ + 1, !.vault = found] \in RunRow
<1>1. [row EXCEPT !.step = @ + 1] \in RunRow
    BY DEF RunRow
<1>2. [row EXCEPT !.phase = "ready", !.step = @ + 1] \in RunRow
    BY DEF RunRow
<1>3. [row EXCEPT !.step = @ + 1, !.token = found] \in RunRow
    BY DEF RunRow
<1>4. [row EXCEPT !.step = @ + 1, !.vault = found] \in RunRow
    BY DEF RunRow
<1>. QED BY <1>1, <1>2, <1>3, <1>4

LEMMA ScriptForms ==
    ASSUME DemoTypeOK, TurnInv, NEW r \in Runs, ScriptStep(r)
    PROVE  /\ UNCHANGED <<plan, key, vaults, funds, purse, now>>
           /\ run' \in [Runs -> RunRow] /\ deploy' \in [Runs -> [DeploySteps -> DeployRow]]
           /\ \A q \in Runs \ {r} : run'[q] = run[q] /\ deploy'[q] = deploy[q]
           /\ Begins(r) \/ Submits(r) \/ Observes(r) \/ Finds(r) \/ Stops(r)
<1>1. /\ run \in [Runs -> RunRow] /\ run[r] \in RunRow
      /\ deploy \in [Runs -> [DeploySteps -> DeployRow]]
    BY DEF DemoTypeOK
<1>2. UNCHANGED <<plan, key, vaults, funds, purse, now>>
    BY DEF ScriptStep, Start, Submit, Observe, Recover, RefusedOffline, Abandon, SubmitLost,
           onChain
<1>3. StepOf(r) \notin Reads <=> StepOf(r) \in DeploySteps
    BY <1>1, DeployPlaces DEF StepOf, RunRow
<1> DEFINE Goal ==
        /\ run' \in [Runs -> RunRow] /\ deploy' \in [Runs -> [DeploySteps -> DeployRow]]
        /\ \A q \in Runs \ {r} : run'[q] = run[q] /\ deploy'[q] = deploy[q]
        /\ Begins(r) \/ Submits(r) \/ Observes(r) \/ Finds(r) \/ Stops(r)
<1>4. SUFFICES Goal
    BY <1>2
<1> HIDE DEF Goal
<1>5. CASE Start(r)
    <2>1. PICK phase \in {"ready", "failed"} :
            run' = [run EXCEPT ![r].phase = phase] /\ (phase = "ready" => PreFlight)
        BY <1>5 DEF Start
    <2>2. /\ run' \in [Runs -> RunRow] /\ Stays(r, phase)
          /\ \A q \in Runs \ {r} : run'[q] = run[q]
        BY <2>1, Phases
    <2>3. Begins(r)
        BY <1>5, <2>1, <2>2 DEF Start, Begins
    <2>. QED BY <1>1, <1>5, <2>2, <2>3 DEF Start, Goal
<1>6. CASE Submit(r) \/ SubmitLost(r)
    <2>1. PICK phase \in {"waiting", "failed"} : run' = [run EXCEPT ![r].phase = phase]
        BY <1>6 DEF Submit, SubmitLost, Fail
    <2>2. /\ run' \in [Runs -> RunRow] /\ Stays(r, phase)
          /\ \A q \in Runs \ {r} : run'[q] = run[q]
        BY <2>1, Phases
    <2>3. /\ run[r].phase = "ready" /\ StepOf(r) \in DeploySteps
          /\ SubmitEnvelope(r) /\ UNCHANGED artifact
        BY <1>3, <1>6 DEF Submit, SubmitLost, Fail
    <2>4. Submits(r)
        BY <2>2, <2>3, Envelopes DEF Submits
    <2>. QED BY <2>2, <2>3, <2>4, Envelopes DEF Goal
<1>7. CASE RefusedOffline(r) \/ Abandon(r) \/ (Observe(r) /\ ~ AsExpected(r))
    <2>1. run' = [run EXCEPT ![r].phase = "failed"] /\ Active(r) /\ UNCHANGED <<deploy, artifact>>
        BY <1>7 DEF RefusedOffline, Abandon, Observe, Fail, Active
    <2>2. /\ run' \in [Runs -> RunRow] /\ Stays(r, "failed")
          /\ \A q \in Runs \ {r} : run'[q] = run[q]
        BY <2>1, Phases
    <2>3. Stops(r)
        BY <2>1, <2>2 DEF Stops
    <2>. QED BY <1>1, <2>1, <2>2, <2>3 DEF Goal
<1>8. CASE Observe(r) /\ AsExpected(r) /\ run[r].step = Len(Steps)
    <2>1. /\ run' = [run EXCEPT ![r].phase = "sealed"] /\ artifact' = r /\ UNCHANGED deploy
          /\ run[r].phase = "waiting" /\ run[r].step = 11
        BY <1>8, StepPlaces DEF Observe, Advance
    <2>2. /\ run' \in [Runs -> RunRow] /\ Stays(r, "sealed")
          /\ \A q \in Runs \ {r} : run'[q] = run[q]
        BY <2>1, Phases
    <2>3. Observes(r)
        BY <1>8, <2>1, <2>2 DEF Observes
    <2>. QED BY <1>1, <2>1, <2>2, <2>3 DEF Goal
<1>9. CASE Observe(r) /\ AsExpected(r) /\ run[r].step # Len(Steps)
    <2>1. /\ run' = [run EXCEPT ![r].phase = "ready", ![r].step = @ + 1]
          /\ run[r].phase = "waiting" /\ run[r].step < 11 /\ UNCHANGED <<deploy, artifact>>
        BY <1>1, <1>9, StepPlaces DEF Observe, Advance, RunRow
    <2>2. run' = [run EXCEPT ![r] = [run[r] EXCEPT !.phase = "ready", !.step = @ + 1]]
        BY <1>1, <2>1 DEF RunRow
    <2>3. [run[r] EXCEPT !.phase = "ready", !.step = @ + 1] \in RunRow
        BY <1>1, <2>1 DEF RunRow
    <2>4. run'[r] = [run[r] EXCEPT !.phase = "ready", !.step = @ + 1]
        BY <1>1, <2>2
    <2>5. /\ GoesOn(r) /\ run'[r].token = run[r].token /\ run'[r].vault = run[r].vault
          /\ run' \in [Runs -> RunRow] /\ \A q \in Runs \ {r} : run'[q] = run[q]
        BY <1>1, <2>2, <2>3, <2>4 DEF GoesOn, RunRow
    <2>6. Observes(r)
        BY <1>9, <2>1, <2>5 DEF Observes
    <2>. QED BY <1>1, <2>1, <2>5, <2>6 DEF Goal
<1>10. ASSUME NEW step \in Reads, Recover(r, step) PROVE Goal
    <2>1. /\ run[r].phase = "ready" /\ StepOf(r) = step /\ UNCHANGED <<deploy, artifact>>
        BY <1>10 DEF Recover
    <2>2. run[r].step \in 1 .. 11 /\ Steps[run[r].step] = step
        BY <1>1, <2>1 DEF StepOf, RunRow
    <2>3. CASE step = "recoverCep18"
        <3>1. run[r].step = 2
            BY <2>2, <2>3, StepPlaces
        <3>2. PICK found \in Found \ {Nothing} :
                found = key.Cep18 /\ run' = [run EXCEPT ![r].step = @ + 1, ![r].token = found]
            BY <1>10, <2>3 DEF Recover, DemoTypeOK
        <3>3. run' = [run EXCEPT ![r] = [run[r] EXCEPT !.step = @ + 1, !.token = found]]
            BY <1>1, <3>2 DEF RunRow
        <3>4. [run[r] EXCEPT !.step = @ + 1, !.token = found] \in RunRow
            <4>1. run[r].step + 1 \in 1 .. 11
                BY <3>1
            <4>. QED BY <1>1, <4>1, MovedRows, Zenon
        <3>5. run'[r] = [run[r] EXCEPT !.step = @ + 1, !.token = found]
            BY <1>1, <3>3
        <3>6. /\ GoesOn(r) /\ run'[r].token = key.Cep18 /\ run'[r].vault = run[r].vault
              /\ run' \in [Runs -> RunRow] /\ \A q \in Runs \ {r} : run'[q] = run[q]
            BY <1>1, <2>1, <3>2, <3>3, <3>4, <3>5 DEF GoesOn, RunRow
        <3>. QED BY <1>1, <2>1, <3>1, <3>2, <3>6 DEF Finds, Goal
    <2>4. CASE step = "recoverVault"
        <3>1. run[r].step = 4
            BY <2>2, <2>4, StepPlaces
        <3>2. PICK found \in Found \ {Nothing} :
                found = key.PolicyVault /\ run' = [run EXCEPT ![r].step = @ + 1, ![r].vault = found]
            BY <1>10, <2>4 DEF Recover, DemoTypeOK
        <3>3. run' = [run EXCEPT ![r] = [run[r] EXCEPT !.step = @ + 1, !.vault = found]]
            BY <1>1, <3>2 DEF RunRow
        <3>4. [run[r] EXCEPT !.step = @ + 1, !.vault = found] \in RunRow
            <4>1. run[r].step + 1 \in 1 .. 11
                BY <3>1
            <4>. QED BY <1>1, <4>1, MovedRows, Zenon
        <3>5. run'[r] = [run[r] EXCEPT !.step = @ + 1, !.vault = found]
            BY <1>1, <3>3
        <3>6. /\ GoesOn(r) /\ run'[r].vault = key.PolicyVault /\ run'[r].token = run[r].token
              /\ run' \in [Runs -> RunRow] /\ \A q \in Runs \ {r} : run'[q] = run[q]
            BY <1>1, <2>1, <3>2, <3>3, <3>4, <3>5 DEF GoesOn, RunRow
        <3>. QED BY <1>1, <2>1, <3>1, <3>2, <3>6 DEF Finds, Goal
    <2>5. CASE step = "readEntity"
        <3>1. run[r].step = 5
            BY <2>2, <2>5, StepPlaces
        <3>2. run' = [run EXCEPT ![r].step = @ + 1]
            BY <1>10, <2>5 DEF Recover
        <3>3. [run[r] EXCEPT !.step = @ + 1] \in RunRow
            BY <1>1, <3>1, SMTT(30) DEF RunRow
        <3>4. run'[r] = [run[r] EXCEPT !.step = @ + 1]
            BY <1>1, <3>2
        <3>5. /\ GoesOn(r) /\ run'[r].vault = run[r].vault /\ run'[r].token = run[r].token
              /\ run' \in [Runs -> RunRow] /\ \A q \in Runs \ {r} : run'[q] = run[q]
            BY <1>1, <2>1, <3>2, <3>3, <3>4 DEF GoesOn, RunRow
        <3>. QED BY <1>1, <2>1, <3>1, <3>5 DEF Finds, Goal
    <2>. QED BY <2>3, <2>4, <2>5 DEF Reads
<1>11. \/ Start(r) \/ Submit(r) \/ SubmitLost(r) \/ RefusedOffline(r) \/ Abandon(r)
       \/ Observe(r)
       \/ \E step \in Reads : Recover(r, step)
    BY DEF ScriptStep
<1> HIDE DEF Goal
<1>12. CASE \E step \in Reads : Recover(r, step)
    BY <1>10, <1>12
<1>. QED BY <1>5, <1>6, <1>7, <1>8, <1>9, <1>11, <1>12

-----------------------------------------------------------------------------
(* The packages a run found: they were published by installs that succeeded, *)
(* each is found by one run only, and a named key that an active run's own   *)
(* install has taken over leads to no package of another run.                *)
Installs == [token |-> "installCep18", vault |-> "installVault"]
OkAt(r, step) == deploy[r][step].status = "Ok"
Begun(r, step) == deploy[r][step].status # "none"

FoundInv ==
    \A r \in Runs :
        /\ run[r].token # Nothing <=> run[r].step > 2
        /\ run[r].vault # Nothing <=> run[r].step > 4
        /\ run[r].token # Nothing => OkAt(run[r].token, "installCep18")
        /\ run[r].vault # Nothing => OkAt(run[r].vault, "installVault")
        /\ \A q \in Runs \ {r} :
            /\ run[r].token # Nothing => run[q].token # run[r].token
            /\ run[r].vault # Nothing => run[q].vault # run[r].vault

KeyInv ==
    /\ key.Cep18 # Nothing => OkAt(key.Cep18, "installCep18")
    /\ key.PolicyVault # Nothing => OkAt(key.PolicyVault, "installVault")
    /\ \A r \in Runs : Active(r) => \A q \in Runs \ {r} :
        /\ OkAt(r, "installCep18") => run[q].token # key.Cep18
        /\ OkAt(r, "installVault") => run[q].vault # key.PolicyVault

(* A deploy carries the packages its run had found. *)
EnvelopeInv ==
    \A r \in Runs, k \in 1 .. 11 :
        Steps[k] \in DeploySteps /\ Begun(r, Steps[k]) =>
            /\ PreFlight
            /\ k > 2 => deploy[r][Steps[k]].token = run[r].token
            /\ k > 4 => deploy[r][Steps[k]].vault = run[r].vault

VaultInv ==
    \A v \in Packages :
        /\ vaults[v] # NoVault <=> OkAt(v, "installVault")
        /\ vaults[v] # NoVault => vaults[v].token = run[v].token

(* The funds: a vault holds the payment its run funded until it is paid out.  *)
Holds(q, t, v) ==
    run[q].token = t /\ run[q].vault = v /\ OkAt(q, "fund") /\ ~ OkAt(q, "pay")

FlowInv ==
    plan.pay > 0 =>
        /\ \A t, v \in Packages :
            /\ (\E q \in Runs : Holds(q, t, v)) => funds[t][v] = plan.pay
            /\ (\A q \in Runs : ~ Holds(q, t, v)) => funds[t][v] = 0
        /\ \A r \in Runs :
            /\ OkAt(r, "pay") => run[r].vault = r
            /\ vaults[r] # NoVault =>
                /\ OkAt(r, "pay") => vaults[r].paidTotal = plan.pay
                /\ ~ OkAt(r, "pay") => vaults[r].paidTotal = 0

DemoInv ==
    /\ DemoTypeOK /\ ProgressInv /\ TurnInv /\ FoundInv /\ KeyInv /\ EnvelopeInv /\ VaultInv
    /\ FlowInv

-----------------------------------------------------------------------------
(* What the invariant says of a deploy that has begun. *)
LEMMA PlacesDiffer == \A j, k \in 1 .. 11 : Steps[j] = Steps[k] => j = k
BY StepPlaces

LEMMA BegunPlaces ==
    ASSUME DemoTypeOK, ProgressInv, NEW r \in Runs, NEW k \in 1 .. 11,
           Steps[k] \in DeploySteps, Begun(r, Steps[k])
    PROVE  /\ run[r].step >= k
           /\ run[r].step = k => run[r].phase \notin {"new", "ready"}
<1>1. run[r] \in RunRow
    BY DEF DemoTypeOK
<1>2. deploy[r][Steps[k]] # NoDeploy
    BY DEF Begun, NoDeploy
<1>3. ~ Untouched(r, k)
    BY <1>2 DEF ProgressInv
<1>. QED BY <1>1, <1>3 DEF Untouched, RunRow

(* Only one run is active, and none that comes after it has started. *)
LEMMA OneActive ==
    ASSUME DemoTypeOK, TurnInv, NEW r \in Runs, ScriptStep(r), NEW q \in Runs \ {r}
    PROVE  ~ Active(q) /\ ~ Active(q)' /\ (run[q].phase # "new" => q < r)
<1>1. run[q] \in RunRow /\ run[r] \in RunRow /\ r \in Nat /\ q \in Nat /\ q # r
      /\ (q < r => q \in 1 .. r - 1) /\ (r < q => r \in 1 .. q - 1)
    BY DemoAssumption DEF DemoTypeOK, Runs, DemoAssumption
<1>2. run[r].phase \in {"new", "ready", "waiting"}
    BY ScriptForms DEF Begins, Submits, Observes, Finds, Stops, Active
<1>3. run[r].phase = "new" => \A p \in 1 .. r - 1 : Ended(p)
    BY ScriptForms DEF Begins, Submits, Observes, Finds, Stops, Active
<1>4. \A p \in 1 .. r - 1 : Ended(p)
    BY <1>3 DEF TurnInv
<1>5. run[q].phase # "new" => \A p \in 1 .. q - 1 : Ended(p)
    BY DEF TurnInv
<1>6. q < r => Ended(q)
    BY <1>1, <1>4
<1>7. r < q => run[q].phase = "new"
    BY <1>1, <1>2, <1>5 DEF Ended
<1>8. q < r \/ r < q
    BY <1>1
<1>9. run'[q] = run[q]
    BY ScriptForms
<1>. QED BY <1>6, <1>7, <1>8, <1>9 DEF Active, Ended

LEMMA ScriptProgress ==
    ASSUME DemoTypeOK, ProgressInv, TurnInv, NEW r \in Runs, ScriptStep(r)
    PROVE  ProgressInv'
<1> SUFFICES ASSUME NEW q \in Runs, NEW k \in 1 .. 11, Steps[k] \in DeploySteps
             PROVE  /\ DoneUpTo(q, k)' => deploy'[q][Steps[k]].status = Expected(Steps[k])
                    /\ Untouched(q, k)' => deploy'[q][Steps[k]] = NoDeploy
    BY DEF ProgressInv
<1>1. /\ DoneUpTo(q, k) => deploy[q][Steps[k]].status = Expected(Steps[k])
      /\ Untouched(q, k) => deploy[q][Steps[k]] = NoDeploy
    BY DEF ProgressInv
<1>2. CASE q # r
    <2>1. run'[q] = run[q] /\ deploy'[q] = deploy[q]
        BY <1>2, ScriptForms
    <2>. QED BY <1>1, <2>1 DEF DoneUpTo, Untouched, Sealed
<1>3. CASE q = r
    <2>1. run[r] \in RunRow /\ run'[r] \in RunRow /\ run[r].step \in Nat /\ run'[r].step \in Nat
        BY ScriptForms DEF DemoTypeOK, RunRow
    <2>2. CASE Begins(r)
        BY <1>1, <1>3, <2>1, <2>2 DEF Begins, Stays, DoneUpTo, Untouched, Sealed
    <2>3. CASE Submits(r)
        <3>1. CASE k = run[r].step
            <4>1. ~ DoneUpTo(r, k)' /\ ~ Untouched(r, k)'
                BY <2>1, <2>3, <3>1 DEF Submits, Stays, DoneUpTo, Untouched, Sealed
            <4>. QED BY <1>3, <4>1
        <3>2. CASE k # run[r].step
            <4>1. Steps[k] # StepOf(r)
                BY <2>1, <3>2, PlacesDiffer DEF StepOf, RunRow
            <4>2. deploy'[r][Steps[k]] = deploy[r][Steps[k]]
                BY <2>3, <4>1 DEF Submits
            <4>3. DoneUpTo(r, k)' => DoneUpTo(r, k)
                BY <2>1, <2>3 DEF Submits, Stays, DoneUpTo, Sealed
            <4>4. Untouched(r, k)' => Untouched(r, k)
                BY <2>1, <2>3, <3>2 DEF Submits, Stays, Untouched
            <4>. QED BY <1>1, <1>3, <4>2, <4>3, <4>4
        <3>. QED BY <3>1, <3>2
    <2>4. CASE Observes(r)
        <3>1. UNCHANGED deploy
            BY <2>4 DEF Observes
        <3>2. Untouched(r, k)' => Untouched(r, k)
            BY <2>1, <2>4 DEF Observes, Stays, GoesOn, Untouched
        <3>3. CASE k = run[r].step
            <4>1. deploy[r][Steps[k]].status = Expected(Steps[k])
                BY <2>4, <3>3 DEF Observes, AsExpected, StepOf
            <4>. QED BY <1>1, <1>3, <3>1, <3>2, <4>1
        <3>4. CASE k # run[r].step
            <4>1. DoneUpTo(r, k)' => DoneUpTo(r, k)
                BY <2>1, <2>4, <3>4 DEF Observes, Stays, GoesOn, DoneUpTo, Sealed
            <4>. QED BY <1>1, <1>3, <3>1, <3>2, <4>1
        <3>. QED BY <3>3, <3>4
    <2>5. CASE Finds(r)
        <3>1. UNCHANGED deploy
            BY <2>5 DEF Finds
        <3>2. k # run[r].step
            BY <2>5, DeployPlaces DEF Finds
        <3>3. Untouched(r, k)' => Untouched(r, k)
            BY <2>1, <2>5 DEF Finds, GoesOn, Untouched
        <3>4. DoneUpTo(r, k)' => DoneUpTo(r, k)
            BY <2>1, <2>5, <3>2 DEF Finds, GoesOn, DoneUpTo, Sealed
        <3>. QED BY <1>1, <1>3, <3>1, <3>3, <3>4
    <2>6. CASE Stops(r)
        BY <1>1, <1>3, <2>1, <2>6 DEF Stops, Stays, Active, DoneUpTo, Untouched, Sealed
    <2>. QED BY <2>2, <2>3, <2>4, <2>5, <2>6, ScriptForms
<1>. QED BY <1>2, <1>3

LEMMA ScriptTurns ==
    ASSUME DemoTypeOK, ProgressInv, TurnInv, NEW r \in Runs, ScriptStep(r)
    PROVE  TurnInv'
<1>1. /\ run[r] \in RunRow /\ run'[r] \in RunRow
      /\ \A q \in Runs \ {r} : run'[q] = run[q] /\ deploy'[q] = deploy[q]
      /\ UNCHANGED plan
    BY ScriptForms DEF DemoTypeOK
<1>2. \A q \in 1 .. r - 1 : q \in Runs /\ q # r
    BY DemoAssumption DEF Runs, DemoAssumption
<1>3. \A q \in 1 .. r - 1 : Ended(q) /\ Ended(q)'
    <2>1. \A q \in 1 .. r - 1 : Ended(q)
        BY ScriptForms DEF TurnInv, Begins, Submits, Observes, Finds, Stops, Active
    <2>. QED BY <1>1, <1>2, <2>1 DEF Ended
<1>4. run[r].phase \in {"new", "ready", "waiting"}
    BY ScriptForms DEF Begins, Submits, Observes, Finds, Stops, Active
<1>5. \/ run'[r].phase = "failed"
      \/ run'[r].phase = "ready" /\ PreFlight
      \/ run'[r].phase = "waiting" /\ PreFlight /\ run'[r].step = run[r].step
            /\ StepOf(r) \in DeploySteps
      \/ run'[r].phase = "sealed" /\ PreFlight /\ run'[r].step = 11 /\ artifact' = r
    BY ScriptForms
       DEF Begins, Submits, Observes, Finds, Stops, Stays, GoesOn, TurnInv
<1>6. UNCHANGED artifact \/ (artifact' = r /\ run'[r].phase = "sealed")
    BY ScriptForms DEF Begins, Submits, Observes, Finds, Stops, Stays
<1>7. PreFlight' <=> PreFlight
    BY <1>1 DEF PreFlight
<1> SUFFICES ASSUME NEW q \in Runs
    PROVE  /\ run'[q].phase # "new" => \A p \in 1 .. q - 1 : Ended(p)'
           /\ run'[q].phase \in {"ready", "waiting", "sealed"} => PreFlight'
           /\ run'[q].phase = "waiting" => StepOf(q)' \in DeploySteps
           /\ Sealed(q)' => run'[q].step = 11
           /\ run'[q].phase = "new" => run'[q].step = 1
           /\ artifact' = q => Sealed(q)'
    BY DEF TurnInv
<1>8. CASE q = r
    <2>1. artifact = r => run[r].phase = "sealed"
        BY DEF TurnInv, Sealed
    <2>. QED BY <1>3, <1>4, <1>5, <1>6, <1>7, <1>8, <2>1 DEF Sealed, StepOf
<1>9. CASE q # r
    <2>1. run'[q] = run[q] /\ (artifact' = q => artifact = q)
        BY <1>1, <1>6, <1>9
    <2>2. /\ run[q].phase # "new" => \A p \in 1 .. q - 1 : Ended(p)
          /\ run[q].phase \in {"ready", "waiting", "sealed"} => PreFlight
          /\ run[q].phase = "waiting" => StepOf(q) \in DeploySteps
          /\ Sealed(q) => run[q].step = 11
          /\ run[q].phase = "new" => run[q].step = 1
          /\ artifact = q => Sealed(q)
        BY DEF TurnInv
    <2>3. run[q].phase # "new" => \A p \in 1 .. q - 1 : Ended(p)'
        <3> SUFFICES ASSUME run[q].phase # "new" PROVE \A p \in 1 .. q - 1 : Ended(p)'
            OBVIOUS
        <3>1. q < r
            BY <1>9, OneActive
        <3>2. \A p \in 1 .. q - 1 : p \in 1 .. r - 1
            BY <3>1, DemoAssumption DEF Runs, DemoAssumption
        <3>. QED BY <1>3, <3>2
    <2>. QED BY <1>7, <2>1, <2>2, <2>3 DEF Sealed, StepOf
<1>. QED BY <1>8, <1>9

-----------------------------------------------------------------------------
(* What a step of the script leaves as it was: the outcomes, and the packages *)
(* of a run once they are found.                                              *)
LEMMA ScriptKeeps ==
    ASSUME DemoTypeOK, ProgressInv, TurnInv, NEW r \in Runs, ScriptStep(r)
    PROVE  /\ \A q \in Runs, s \in DeploySteps : OkAt(q, s)' <=> OkAt(q, s)
           /\ \A q \in Runs : run[q].step > 2 => run'[q].token = run[q].token
           /\ \A q \in Runs : run[q].step > 4 => run'[q].vault = run[q].vault
<1>1. /\ run[r] \in RunRow /\ run[r].step \in 1 .. 11
      /\ \A q \in Runs \ {r} : run'[q] = run[q] /\ deploy'[q] = deploy[q]
    BY ScriptForms DEF DemoTypeOK, RunRow
<1>2. /\ run[r].step > 2 => run'[r].token = run[r].token
      /\ run[r].step > 4 => run'[r].vault = run[r].vault
    BY <1>1, ScriptForms DEF Begins, Submits, Observes, Finds, Stops, Stays
<1>3. ASSUME NEW s \in DeploySteps PROVE OkAt(r, s)' <=> OkAt(r, s)
    <2>1. CASE UNCHANGED deploy
        BY <2>1 DEF OkAt
    <2>2. CASE Submits(r)
        <3>1. CASE s = StepOf(r)
            <4>1. Untouched(r, run[r].step) /\ Steps[run[r].step] = s
                BY <2>2, <3>1 DEF Submits, Untouched, StepOf
            <4>2. deploy[r][s] = NoDeploy
                BY <1>1, <4>1 DEF ProgressInv
            <4>3. deploy'[r][s].status = "pending"
                BY <2>2, <3>1 DEF Submits, Envelope
            <4>. QED BY <4>2, <4>3 DEF OkAt, NoDeploy
        <3>2. CASE s # StepOf(r)
            BY <2>2, <3>2 DEF Submits, OkAt
        <3>. QED BY <3>1, <3>2
    <2>. QED BY <2>1, <2>2, ScriptForms DEF Begins, Observes, Finds, Stops
<1>4. ASSUME NEW q \in Runs, NEW s \in DeploySteps PROVE OkAt(q, s)' <=> OkAt(q, s)
    <2>1. CASE q = r
        BY <1>3, <2>1
    <2>2. CASE q # r
        BY <1>1, <2>2 DEF OkAt
    <2>. QED BY <2>1, <2>2
<1>5. ASSUME NEW q \in Runs
      PROVE  /\ run[q].step > 2 => run'[q].token = run[q].token
             /\ run[q].step > 4 => run'[q].vault = run[q].vault
    <2>1. CASE q = r
        BY <1>2, <2>1
    <2>2. CASE q # r
        BY <1>1, <2>2
    <2>. QED BY <2>1, <2>2
<1>. QED BY <1>4, <1>5

(* The moves of the script that matter to the packages found. *)
LEMMA ScriptFinds ==
    ASSUME DemoTypeOK, TurnInv, NEW r \in Runs, ScriptStep(r)
    PROVE  \/ /\ run'[r].token = run[r].token /\ run'[r].vault = run[r].vault
              /\ run'[r].step > 2 <=> run[r].step > 2
              /\ run'[r].step > 4 <=> run[r].step > 4
           \/ /\ run[r].phase = "ready" /\ run[r].step = 2 /\ run'[r].step = 3
              /\ key.Cep18 # Nothing /\ run'[r].token = key.Cep18 /\ run'[r].vault = run[r].vault
           \/ /\ run[r].phase = "ready" /\ run[r].step = 4 /\ run'[r].step = 5
              /\ key.PolicyVault # Nothing /\ run'[r].vault = key.PolicyVault
              /\ run'[r].token = run[r].token
<1>1. run[r] \in RunRow /\ run[r].step \in 1 .. 11
    BY DEF DemoTypeOK, RunRow
<1>2. CASE Observes(r)
    <2>1. StepOf(r) \in DeploySteps
        BY <1>2 DEF Observes, TurnInv
    <2>2. run[r].step # 2 /\ run[r].step # 4
        BY <1>1, <2>1, DeployPlaces DEF StepOf
    <2>. QED BY <1>1, <1>2, <2>2 DEF Observes, Stays, GoesOn
<1>3. CASE Finds(r)
    BY <1>1, <1>3 DEF Finds, GoesOn
<1>4. CASE Begins(r) \/ Submits(r) \/ Stops(r)
    BY <1>4 DEF Begins, Submits, Stops, Stays
<1>. QED BY <1>2, <1>3, <1>4, ScriptForms

LEMMA OwnInstalls ==
    ASSUME DemoTypeOK, ProgressInv, NEW r \in Runs
    PROVE  /\ run[r].step > 1 => OkAt(r, "installCep18")
           /\ run[r].step > 3 => OkAt(r, "installVault")
           /\ run[r].step > 8 => OkAt(r, "fund")
           /\ OkAt(r, "installVault") => run[r].step > 2
           /\ OkAt(r, "fund") => run[r].step > 7
           /\ OkAt(r, "pay") => run[r].step > 8
<1>1. run[r].step \in Nat
    <2>1. run[r] \in RunRow
        BY DEF DemoTypeOK
    <2>. QED BY <2>1 DEF RunRow
<1>2. ASSUME NEW k \in 1 .. 11, Steps[k] \in DeploySteps, run[r].step > k, Expected(Steps[k]) = "Ok"
      PROVE  OkAt(r, Steps[k])
    BY <1>1, <1>2 DEF ProgressInv, DoneUpTo, OkAt
<1>3. ASSUME NEW k \in 1 .. 11, Steps[k] \in DeploySteps, OkAt(r, Steps[k])
      PROVE  run[r].step >= k
    BY <1>3, BegunPlaces DEF OkAt, Begun
<1>4. {"installCep18", "installVault", "fund", "pay"} \subseteq DeploySteps
    BY DeployPlaces
<1>5. /\ Expected("installCep18") = "Ok" /\ Expected("installVault") = "Ok"
      /\ Expected("fund") = "Ok"
    BY DEF Expected
<1>6. run[r].step > 1 => OkAt(r, "installCep18")
    BY <1>2, <1>4, <1>5, StepPlaces
<1>7. /\ run[r].step > 3 => OkAt(r, "installVault")
      /\ OkAt(r, "installVault") => run[r].step > 2
    BY <1>1, <1>2, <1>3, <1>4, <1>5, StepPlaces
<1>8. /\ run[r].step > 8 => OkAt(r, "fund")
      /\ OkAt(r, "fund") => run[r].step > 7
    BY <1>1, <1>2, <1>3, <1>4, <1>5, StepPlaces
<1>9. OkAt(r, "pay") => run[r].step > 8
    BY <1>1, <1>3, <1>4, StepPlaces
<1>. QED BY <1>6, <1>7, <1>8, <1>9

LEMMA ScriptFound ==
    ASSUME DemoTypeOK, ProgressInv, TurnInv, FoundInv, KeyInv, NEW r \in Runs, ScriptStep(r)
    PROVE  FoundInv' /\ KeyInv'
<1>1. /\ run[r] \in RunRow /\ UNCHANGED key
      /\ \A q \in Runs \ {r} : run'[q] = run[q]
    BY ScriptForms DEF DemoTypeOK
<1>2. \A q \in Runs \ {r} : ~ Active(q)'
    BY OneActive
<1>3. \A q \in Packages : /\ OkAt(q, "installCep18")' <=> OkAt(q, "installCep18")
                          /\ OkAt(q, "installVault")' <=> OkAt(q, "installVault")
    BY ScriptKeeps, DeployPlaces DEF Packages
<1>4. \A q \in Runs : /\ run[q].token \in Packages \cup {Nothing}
                      /\ run[q].vault \in Packages \cup {Nothing}
    BY DEF DemoTypeOK, RunRow, Found
<1>5. key.Cep18 \in Packages \cup {Nothing} /\ key.PolicyVault \in Packages \cup {Nothing}
    BY DEF DemoTypeOK, Found
<1>6. /\ key.Cep18 # Nothing => OkAt(key.Cep18, "installCep18")
      /\ key.PolicyVault # Nothing => OkAt(key.PolicyVault, "installVault")
    BY DEF KeyInv
<1>7. ASSUME NEW q \in Runs
      PROVE  /\ run[q].token # Nothing <=> run[q].step > 2
             /\ run[q].vault # Nothing <=> run[q].step > 4
             /\ run[q].token # Nothing => OkAt(run[q].token, "installCep18")
             /\ run[q].vault # Nothing => OkAt(run[q].vault, "installVault")
             /\ \A p \in Runs \ {q} :
                 /\ run[q].token # Nothing => run[p].token # run[q].token
                 /\ run[q].vault # Nothing => run[p].vault # run[q].vault
    BY DEF FoundInv
<1>8. \A q \in Runs \ {r} :
        /\ Active(r) /\ OkAt(r, "installCep18") => run[q].token # key.Cep18
        /\ Active(r) /\ OkAt(r, "installVault") => run[q].vault # key.PolicyVault
    BY DEF KeyInv
<1>9. \A p \in Packages :
        /\ deploy'[p]["installCep18"].status = "Ok" <=> deploy[p]["installCep18"].status = "Ok"
        /\ deploy'[p]["installVault"].status = "Ok" <=> deploy[p]["installVault"].status = "Ok"
    BY <1>3 DEF OkAt
<1>10. \A q \in Runs :
        /\ run[q].token # Nothing => deploy'[run[q].token]["installCep18"].status = "Ok"
        /\ run[q].vault # Nothing => deploy'[run[q].vault]["installVault"].status = "Ok"
    BY <1>4, <1>7, <1>9 DEF OkAt
<1>11. FoundInv'
    <2>1. CASE /\ run'[r].token = run[r].token /\ run'[r].vault = run[r].vault
               /\ run'[r].step > 2 <=> run[r].step > 2
               /\ run'[r].step > 4 <=> run[r].step > 4
        <3>1. \A q \in Runs :
                /\ run'[q].token = run[q].token /\ run'[q].vault = run[q].vault
                /\ run'[q].step > 2 <=> run[q].step > 2
                /\ run'[q].step > 4 <=> run[q].step > 4
            BY <1>1, <2>1
        <3>. QED BY <1>7, <1>10, <3>1 DEF FoundInv, OkAt
    <2>2. CASE /\ run[r].phase = "ready" /\ run[r].step = 2 /\ run'[r].step = 3
               /\ key.Cep18 # Nothing /\ run'[r].token = key.Cep18
               /\ run'[r].vault = run[r].vault
        <3>1. Active(r) /\ OkAt(r, "installCep18")
            BY <2>2, OwnInstalls DEF Active
        <3>2. \A q \in Runs \ {r} : run[q].token # key.Cep18
            BY <1>8, <3>1
        <3>5. run'[r].token # Nothing => deploy'[run'[r].token]["installCep18"].status = "Ok"
            BY <1>5, <1>6, <2>2, <1>9 DEF OkAt
        <3> SUFFICES ASSUME NEW q \in Runs
              PROVE  /\ run'[q].token # Nothing <=> run'[q].step > 2
                     /\ run'[q].vault # Nothing <=> run'[q].step > 4
                     /\ run'[q].token # Nothing
                            => deploy'[run'[q].token]["installCep18"].status = "Ok"
                     /\ run'[q].vault # Nothing
                            => deploy'[run'[q].vault]["installVault"].status = "Ok"
                     /\ \A p \in Runs \ {q} :
                         /\ run'[q].token # Nothing => run'[p].token # run'[q].token
                         /\ run'[q].vault # Nothing => run'[p].vault # run'[q].vault
            BY DEF FoundInv, OkAt
        <3>7. CASE q = r
            BY <1>1, <1>7, <2>2, <3>2, <3>5, <1>10, <3>7
        <3>8. CASE q # r
            BY <1>1, <1>7, <2>2, <3>2, <1>10, <3>8
        <3>. QED BY <3>7, <3>8
    <2>3. CASE /\ run[r].phase = "ready" /\ run[r].step = 4 /\ run'[r].step = 5
               /\ key.PolicyVault # Nothing /\ run'[r].vault = key.PolicyVault
               /\ run'[r].token = run[r].token
        <3>1. Active(r) /\ OkAt(r, "installVault")
            BY <2>3, OwnInstalls DEF Active
        <3>2. \A q \in Runs \ {r} : run[q].vault # key.PolicyVault
            BY <1>8, <3>1
        <3>5. run'[r].vault # Nothing => deploy'[run'[r].vault]["installVault"].status = "Ok"
            BY <1>5, <1>6, <2>3, <1>9 DEF OkAt
        <3> SUFFICES ASSUME NEW q \in Runs
              PROVE  /\ run'[q].token # Nothing <=> run'[q].step > 2
                     /\ run'[q].vault # Nothing <=> run'[q].step > 4
                     /\ run'[q].token # Nothing
                            => deploy'[run'[q].token]["installCep18"].status = "Ok"
                     /\ run'[q].vault # Nothing
                            => deploy'[run'[q].vault]["installVault"].status = "Ok"
                     /\ \A p \in Runs \ {q} :
                         /\ run'[q].token # Nothing => run'[p].token # run'[q].token
                         /\ run'[q].vault # Nothing => run'[p].vault # run'[q].vault
            BY DEF FoundInv, OkAt
        <3>7. CASE q = r
            BY <1>1, <1>7, <2>3, <3>2, <3>5, <1>10, <3>7
        <3>8. CASE q # r
            BY <1>1, <1>7, <2>3, <3>2, <1>10, <3>8
        <3>. QED BY <3>7, <3>8
    <2>. QED BY <2>1, <2>2, <2>3, ScriptFinds
<1>12. KeyInv'
    <2>1. /\ key.Cep18 # Nothing => deploy'[key.Cep18]["installCep18"].status = "Ok"
          /\ key.PolicyVault # Nothing => deploy'[key.PolicyVault]["installVault"].status = "Ok"
        BY <1>3, <1>5, <1>6 DEF OkAt
    <2>2. Active(r)' => Active(r) \/ (~ OkAt(r, "installCep18") /\ ~ OkAt(r, "installVault"))
        <3>1. ASSUME Begins(r) PROVE ~ OkAt(r, "installCep18") /\ ~ OkAt(r, "installVault")
            <4>1. Untouched(r, 1) /\ Untouched(r, 3)
                BY <1>1, <3>1 DEF Begins, TurnInv, Untouched, RunRow
            <4>2. deploy[r]["installCep18"] = NoDeploy /\ deploy[r]["installVault"] = NoDeploy
                BY <4>1, StepPlaces, DeployPlaces DEF ProgressInv
            <4>. QED BY <4>2 DEF OkAt, NoDeploy
        <3>. QED BY <3>1, ScriptForms DEF Submits, Observes, Finds, Stops, Active
    <2>3. \A q \in Runs \ {r} :
            /\ Active(r)' /\ OkAt(r, "installCep18")' => run'[q].token # key.Cep18
            /\ Active(r)' /\ OkAt(r, "installVault")' => run'[q].vault # key.PolicyVault
        BY <1>1, <1>3, <1>8, <2>2 DEF Packages
    <2>. QED BY <1>1, <1>2, <2>1, <2>3 DEF KeyInv, OkAt
<1>. QED BY <1>11, <1>12

LEMMA ScriptEnvelopes ==
    ASSUME DemoTypeOK, ProgressInv, TurnInv, EnvelopeInv, NEW r \in Runs, ScriptStep(r)
    PROVE  EnvelopeInv'
<1>1. /\ run[r] \in RunRow /\ run[r].step \in 1 .. 11 /\ UNCHANGED plan
      /\ \A q \in Runs \ {r} : run'[q] = run[q] /\ deploy'[q] = deploy[q]
    BY ScriptForms DEF DemoTypeOK, RunRow
<1>2. PreFlight' <=> PreFlight
    BY <1>1 DEF PreFlight
<1>3. /\ run[r].step > 2 => run'[r].token = run[r].token
      /\ run[r].step > 4 => run'[r].vault = run[r].vault
    BY ScriptKeeps
<1> SUFFICES ASSUME NEW q \in Runs, NEW k \in 1 .. 11, Steps[k] \in DeploySteps,
                    deploy'[q][Steps[k]].status # "none"
             PROVE  /\ PreFlight
                    /\ k > 2 => deploy'[q][Steps[k]].token = run'[q].token
                    /\ k > 4 => deploy'[q][Steps[k]].vault = run'[q].vault
    BY <1>2 DEF EnvelopeInv, Begun
<1>4. Begun(q, Steps[k]) =>
        /\ PreFlight
        /\ k > 2 => deploy[q][Steps[k]].token = run[q].token
        /\ k > 4 => deploy[q][Steps[k]].vault = run[q].vault
    BY DEF EnvelopeInv
<1>5. CASE q # r
    BY <1>1, <1>4, <1>5 DEF Begun
<1>6. CASE q = r /\ deploy'[r][Steps[k]] = deploy[r][Steps[k]]
    <2>1. Begun(r, Steps[k])
        BY <1>6 DEF Begun
    <2>2. run[r].step >= k /\ (run[r].step = k => run[r].phase \notin {"new", "ready"})
        BY <2>1, BegunPlaces
    <2>3. k > 2 => run'[r].token = run[r].token
        BY <1>1, <1>3, <2>2
    <2>4. k > 4 => run'[r].vault = run[r].vault
        BY <1>1, <1>3, <2>2
    <2>. QED BY <1>4, <1>6, <2>1, <2>3, <2>4
<1>7. CASE q = r /\ deploy'[r][Steps[k]] # deploy[r][Steps[k]]
    <2>1. Submits(r) /\ Steps[k] = StepOf(r)
        BY <1>7, ScriptForms DEF Begins, Submits, Observes, Finds, Stops
    <2>2. PreFlight
        BY <2>1 DEF Submits, TurnInv
    <2>3. deploy'[r][Steps[k]] = Envelope(r) /\ run'[r].token = run[r].token
          /\ run'[r].vault = run[r].vault
        BY <2>1 DEF Submits, Stays
    <2>. QED BY <1>7, <2>2, <2>3 DEF Envelope
<1>. QED BY <1>5, <1>6, <1>7

LEMMA ScriptVaults ==
    ASSUME DemoTypeOK, ProgressInv, TurnInv, VaultInv, FlowInv, NEW r \in Runs, ScriptStep(r)
    PROVE  VaultInv' /\ FlowInv'
<1>1. UNCHANGED <<plan, vaults, funds>>
    BY ScriptForms
<1>2. \A q \in Runs :
        /\ OkAt(q, "installVault")' <=> OkAt(q, "installVault")
        /\ OkAt(q, "fund")' <=> OkAt(q, "fund")
        /\ OkAt(q, "pay")' <=> OkAt(q, "pay")
    BY ScriptKeeps, DeployPlaces
<1>3. \A q \in Runs :
        /\ OkAt(q, "installVault") => run'[q].token = run[q].token
        /\ OkAt(q, "fund") \/ OkAt(q, "pay") =>
            run'[q].token = run[q].token /\ run'[q].vault = run[q].vault
    <2> TAKE q \in Runs
    <2>1. run[q] \in RunRow /\ run[q].step \in Nat
        BY DEF DemoTypeOK, RunRow
    <2>2. /\ OkAt(q, "installVault") => run[q].step > 2
          /\ OkAt(q, "fund") => run[q].step > 7
          /\ OkAt(q, "pay") => run[q].step > 8
        BY OwnInstalls
    <2>3. /\ run[q].step > 2 => run'[q].token = run[q].token
          /\ run[q].step > 4 => run'[q].vault = run[q].vault
        BY ScriptKeeps
    <2>. QED BY <2>1, <2>2, <2>3
<1>4. VaultInv'
    <2>1. \A v \in Packages : /\ vaults[v] # NoVault <=> OkAt(v, "installVault")
                              /\ vaults[v] # NoVault => vaults[v].token = run[v].token
        BY DEF VaultInv
    <2>. QED BY <1>1, <1>2, <1>3, <2>1 DEF VaultInv, Packages
<1>5. \A q \in Runs, t, v \in Packages : Holds(q, t, v)' <=> Holds(q, t, v)
    BY <1>2, <1>3 DEF Holds
<1>6. FlowInv'
    BY <1>1, <1>2, <1>3, <1>5 DEF FlowInv
<1>. QED BY <1>4, <1>6

LEMMA ScriptTypes ==
    ASSUME DemoTypeOK, TurnInv, NEW r \in Runs, ScriptStep(r)
    PROVE  DemoTypeOK'
<1>1. artifact' \in Runs \cup {Nothing}
    BY ScriptForms DEF Begins, Submits, Observes, Finds, Stops, DemoTypeOK
<1>. QED BY <1>1, ScriptForms DEF DemoTypeOK

LEMMA ScriptInv ==
    ASSUME DemoInv, NEW r \in Runs, ScriptStep(r)
    PROVE  DemoInv'
BY ScriptTypes, ScriptProgress, ScriptTurns, ScriptFound, ScriptEnvelopes, ScriptVaults
   DEF DemoInv

-----------------------------------------------------------------------------
(* The execution of a deploy. *)
Executes(r, s) ==
    /\ Taken(r, s) /\ deploy'[r][s].status \in Outcomes
    /\ deploy'[r][s].token = deploy[r][s].token /\ deploy'[r][s].vault = deploy[r][s].vault
    /\ \A step \in DeploySteps \ {s} : deploy'[r][step] = deploy[r][step]
    /\ \A q \in Runs \ {r} : deploy'[q] = deploy[q]
    /\ deploy' \in [Runs -> [DeploySteps -> DeployRow]]
    /\ UNCHANGED <<plan, run, artifact, now>>

LEMMA Executions ==
    ASSUME DemoTypeOK, NEW r \in Runs, NEW s \in DeploySteps, NEW verdict \in Outcomes,
           Taken(r, s), ExecuteAs(r, s, verdict), UNCHANGED <<plan, run, artifact, now>>
    PROVE  Executes(r, s) /\ deploy'[r][s].status = verdict
<1>1. deploy \in [Runs -> [DeploySteps -> DeployRow]] /\ deploy[r][s] \in DeployRow
    BY DEF DemoTypeOK
<1>2. deploy' = [deploy EXCEPT
            ![r] = [deploy[r] EXCEPT ![s] = [deploy[r][s] EXCEPT !.status = verdict]]]
    BY <1>1 DEF ExecuteAs, DeployRow
<1>3. [deploy[r][s] EXCEPT !.status = verdict] \in DeployRow
    BY <1>1 DEF DeployRow
<1>4. deploy'[r][s] = [deploy[r][s] EXCEPT !.status = verdict]
    BY <1>1, <1>2
<1>5. deploy'[r][s].status = verdict /\ deploy'[r][s].token = deploy[r][s].token
      /\ deploy'[r][s].vault = deploy[r][s].vault
    BY <1>1, <1>4 DEF DeployRow
<1>6. deploy' \in [Runs -> [DeploySteps -> DeployRow]]
    BY <1>1, <1>2, <1>3
<1>7. /\ \A step \in DeploySteps \ {s} : deploy'[r][step] = deploy[r][step]
      /\ \A q \in Runs \ {r} : deploy'[q] = deploy[q]
    BY <1>1, <1>2
<1>. QED BY <1>5, <1>6, <1>7 DEF Executes

(* An execution gives a pending deploy its outcome and changes no other. *)
LEMMA ExecutionKeeps ==
    ASSUME DemoTypeOK, NEW r \in Runs, NEW s \in DeploySteps, Executes(r, s)
    PROVE  \A q \in Runs, step \in DeploySteps :
            /\ deploy'[q][step].status # "none" <=> deploy[q][step].status # "none"
            /\ deploy'[q][step].token = deploy[q][step].token
            /\ deploy'[q][step].vault = deploy[q][step].vault
            /\ deploy[q][step].status = "Ok" => deploy'[q][step].status = "Ok"
            /\ (q # r \/ step # s) => deploy'[q][step] = deploy[q][step]
            /\ deploy[q][step].status # "pending" => deploy'[q][step] = deploy[q][step]
<1> SUFFICES ASSUME NEW q \in Runs, NEW step \in DeploySteps
    PROVE   /\ deploy'[q][step].status # "none" <=> deploy[q][step].status # "none"
            /\ deploy'[q][step].token = deploy[q][step].token
            /\ deploy'[q][step].vault = deploy[q][step].vault
            /\ deploy[q][step].status = "Ok" => deploy'[q][step].status = "Ok"
            /\ (q # r \/ step # s) => deploy'[q][step] = deploy[q][step]
            /\ deploy[q][step].status # "pending" => deploy'[q][step] = deploy[q][step]
    OBVIOUS
<1>1. CASE q = r /\ step = s
    BY <1>1 DEF Executes, Taken, Outcomes
<1>2. CASE q # r \/ step # s
    BY <1>2 DEF Executes
<1>. QED BY <1>1, <1>2

LEMMA ExecutionProgress ==
    ASSUME DemoTypeOK, ProgressInv, TurnInv, EnvelopeInv,
           NEW r \in Runs, NEW s \in DeploySteps, Executes(r, s)
    PROVE  ProgressInv' /\ TurnInv' /\ EnvelopeInv'
<1>1. UNCHANGED <<plan, run, artifact>>
    BY DEF Executes
<1>2. ProgressInv'
    <2> SUFFICES ASSUME NEW q \in Runs, NEW k \in 1 .. 11, Steps[k] \in DeploySteps
             PROVE  /\ DoneUpTo(q, k)' => deploy'[q][Steps[k]].status = Expected(Steps[k])
                    /\ Untouched(q, k)' => deploy'[q][Steps[k]] = NoDeploy
        BY DEF ProgressInv
    <2>1. /\ DoneUpTo(q, k) => deploy[q][Steps[k]].status = Expected(Steps[k])
          /\ Untouched(q, k) => deploy[q][Steps[k]] = NoDeploy
        BY DEF ProgressInv
    <2>2. (DoneUpTo(q, k)' <=> DoneUpTo(q, k)) /\ (Untouched(q, k)' <=> Untouched(q, k))
        BY <1>1 DEF DoneUpTo, Untouched, Sealed
    <2>3. Expected(Steps[k]) # "pending" /\ NoDeploy.status # "pending"
        BY DEF Expected, NoDeploy
    <2>4. deploy[q][Steps[k]].status # "pending"
            => deploy'[q][Steps[k]] = deploy[q][Steps[k]]
        BY ExecutionKeeps
    <2>. QED BY <2>1, <2>2, <2>3, <2>4
<1>3. TurnInv'
    BY <1>1 DEF TurnInv, Ended, Sealed, PreFlight, StepOf
<1>4. EnvelopeInv'
    BY <1>1, ExecutionKeeps DEF EnvelopeInv, PreFlight, Begun
<1>. QED BY <1>2, <1>3, <1>4

(* What was found stays found, and the keys lead where they led, while no  *)
(* install succeeds.                                                       *)
LEMMA ExecutionFound ==
    ASSUME DemoTypeOK, FoundInv, NEW r \in Runs, NEW s \in DeploySteps, Executes(r, s)
    PROVE  FoundInv'
<1>1. UNCHANGED run
    BY DEF Executes
<1>2. {"installCep18", "installVault"} \subseteq DeploySteps
    BY DeployPlaces
<1>3. \A p \in Packages :
        /\ deploy[p]["installCep18"].status = "Ok" => deploy'[p]["installCep18"].status = "Ok"
        /\ deploy[p]["installVault"].status = "Ok" => deploy'[p]["installVault"].status = "Ok"
    BY <1>2, ExecutionKeeps DEF Packages
<1>4. \A q \in Runs : run[q].token \in Packages \cup {Nothing}
                      /\ run[q].vault \in Packages \cup {Nothing}
    BY DEF DemoTypeOK, RunRow, Found
<1>5. ASSUME NEW q \in Runs
      PROVE  /\ run[q].token # Nothing <=> run[q].step > 2
             /\ run[q].vault # Nothing <=> run[q].step > 4
             /\ run[q].token # Nothing => deploy'[run[q].token]["installCep18"].status = "Ok"
             /\ run[q].vault # Nothing => deploy'[run[q].vault]["installVault"].status = "Ok"
             /\ \A p \in Runs \ {q} :
                 /\ run[q].token # Nothing => run[p].token # run[q].token
                 /\ run[q].vault # Nothing => run[p].vault # run[q].vault
    BY <1>3, <1>4 DEF FoundInv, OkAt
<1>. QED BY <1>1, <1>5 DEF FoundInv, OkAt

LEMMA ExecutionKeys ==
    ASSUME DemoTypeOK, KeyInv, NEW r \in Runs, NEW s \in DeploySteps, Executes(r, s),
           UNCHANGED key,
           s \in {"installCep18", "installVault"} => deploy'[r][s].status # "Ok"
    PROVE  KeyInv'
<1>1. UNCHANGED run
    BY DEF Executes
<1>2. {"installCep18", "installVault"} \subseteq DeploySteps
    BY DeployPlaces
<1>3. \A p \in Packages :
        /\ deploy[p]["installCep18"].status = "Ok" <=> deploy'[p]["installCep18"].status = "Ok"
        /\ deploy[p]["installVault"].status = "Ok" <=> deploy'[p]["installVault"].status = "Ok"
    BY <1>2, ExecutionKeeps DEF Packages
<1>4. key.Cep18 \in Packages \cup {Nothing} /\ key.PolicyVault \in Packages \cup {Nothing}
    BY DEF DemoTypeOK, Found
<1>. QED BY <1>1, <1>3, <1>4 DEF KeyInv, OkAt, Active, Packages

(* An install that succeeds takes the named key, and no run has its package.   *)
LEMMA PublishedKeys ==
    ASSUME DemoTypeOK, FoundInv, KeyInv, NEW r \in Runs, NEW s \in DeploySteps, Executes(r, s),
           \/ s = "installCep18" /\ Publish("Cep18", r) /\ deploy'[r][s].status = "Ok"
           \/ s = "installVault" /\ Publish("PolicyVault", r) /\ deploy'[r][s].status = "Ok"
    PROVE  KeyInv' /\ key' \in [Cep18 : Found, PolicyVault : Found]
<1>1. UNCHANGED run /\ Taken(r, s)
    BY DEF Executes
<1>2. {"installCep18", "installVault"} \subseteq DeploySteps
    BY DeployPlaces
<1>3. \A p \in Packages :
        /\ deploy[p]["installCep18"].status = "Ok" => deploy'[p]["installCep18"].status = "Ok"
        /\ deploy[p]["installVault"].status = "Ok" => deploy'[p]["installVault"].status = "Ok"
        /\ p # r \/ s # "installCep18" =>
            deploy'[p]["installCep18"] = deploy[p]["installCep18"]
        /\ p # r \/ s # "installVault" =>
            deploy'[p]["installVault"] = deploy[p]["installVault"]
    BY <1>2, ExecutionKeeps DEF Packages
<1>4. key.Cep18 \in Packages \cup {Nothing} /\ key.PolicyVault \in Packages \cup {Nothing}
      /\ r \in Packages /\ r # Nothing /\ r \in Found
      /\ key \in [Cep18 : Found, PolicyVault : Found]
    BY DemoAssumption DEF DemoTypeOK, Found, Packages, Runs, Nothing, DemoAssumption
<1>5. CASE s = "installCep18"
    <2>1. key'.Cep18 = r /\ key'.PolicyVault = key.PolicyVault
          /\ deploy'[r]["installCep18"].status = "Ok"
          /\ key' \in [Cep18 : Found, PolicyVault : Found]
        BY <1>4, <1>5 DEF Publish
    <2>2. \A q \in Runs : run[q].token # r
        BY <1>1, <1>4, <1>5 DEF FoundInv, OkAt, Taken
    <2>3. \A q \in Runs : Active(q)' => Active(q)
        BY <1>1 DEF Active
    <2>4. key.PolicyVault # Nothing => deploy'[key.PolicyVault]["installVault"].status = "Ok"
        BY <1>3, <1>4 DEF KeyInv, OkAt
    <2>5. \A q \in Runs : OkAt(q, "installVault")' => OkAt(q, "installVault")
        BY <1>3, <1>5 DEF OkAt, Packages
    <2>6. \A q \in Runs : Active(q)' => \A p \in Runs \ {q} :
            /\ OkAt(q, "installCep18")' => run'[p].token # key'.Cep18
            /\ OkAt(q, "installVault")' => run'[p].vault # key'.PolicyVault
        BY <1>1, <2>1, <2>2, <2>3, <2>5 DEF KeyInv
    <2>. QED BY <2>1, <2>4, <2>6 DEF KeyInv, OkAt
<1>6. CASE s = "installVault"
    <2>1. key'.PolicyVault = r /\ key'.Cep18 = key.Cep18 /\ deploy'[r]["installVault"].status = "Ok"
          /\ key' \in [Cep18 : Found, PolicyVault : Found]
        BY <1>4, <1>6 DEF Publish
    <2>2. \A q \in Runs : run[q].vault # r
        BY <1>1, <1>4, <1>6 DEF FoundInv, OkAt, Taken
    <2>3. \A q \in Runs : Active(q)' => Active(q)
        BY <1>1 DEF Active
    <2>4. key.Cep18 # Nothing => deploy'[key.Cep18]["installCep18"].status = "Ok"
        BY <1>3, <1>4 DEF KeyInv, OkAt
    <2>5. \A q \in Runs : OkAt(q, "installCep18")' => OkAt(q, "installCep18")
        BY <1>3, <1>6 DEF OkAt, Packages
    <2>6. \A q \in Runs : Active(q)' => \A p \in Runs \ {q} :
            /\ OkAt(q, "installCep18")' => run'[p].token # key'.Cep18
            /\ OkAt(q, "installVault")' => run'[p].vault # key'.PolicyVault
        BY <1>1, <2>1, <2>2, <2>3, <2>5 DEF KeyInv
    <2>. QED BY <2>1, <2>4, <2>6 DEF KeyInv, OkAt
<1>. QED BY <1>5, <1>6

(* A call reaches the packages of its run, and the vault is there. *)
Calls == {"allowAgent", "allowReceiver", "fund"} \cup Payments

LEMMA CallTargets ==
    ASSUME DemoTypeOK, ProgressInv, FoundInv, EnvelopeInv, VaultInv,
           NEW r \in Runs, NEW s \in Calls, Taken(r, s)
    PROVE  /\ s \in DeploySteps /\ PreFlight
           /\ deploy[r][s].token = run[r].token /\ deploy[r][s].vault = run[r].vault
           /\ run[r].token \in Packages /\ run[r].vault \in Packages
           /\ vaults[run[r].vault] # NoVault /\ vaults[run[r].vault] \in VaultRow
           /\ vaults[run[r].vault].token = run[run[r].vault].token
<1>1. PICK k \in 6 .. 11 : Steps[k] = s
    BY StepPlaces DEF Calls, Payments
<1>2. k \in 1 .. 11 /\ k > 2 /\ k > 4 /\ s \in DeploySteps
    BY <1>1, DeployPlaces DEF Calls, Payments
<1>3. Begun(r, Steps[k])
    BY <1>1 DEF Taken, Begun
<1>4. PreFlight /\ deploy[r][s].token = run[r].token /\ deploy[r][s].vault = run[r].vault
    BY <1>1, <1>2, <1>3 DEF EnvelopeInv
<1>5. run[r] \in RunRow /\ run[r].step \in Nat
    BY DEF DemoTypeOK, RunRow
<1>6. run[r].step > 4 /\ run[r].step > 2
    BY <1>1, <1>2, <1>3, <1>5, BegunPlaces
<1>7. run[r].token # Nothing /\ run[r].vault # Nothing /\ OkAt(run[r].vault, "installVault")
    BY <1>6 DEF FoundInv
<1>8. run[r].token \in Packages /\ run[r].vault \in Packages
    BY <1>5, <1>7 DEF RunRow, Found
<1>9. vaults[run[r].vault] # NoVault
      /\ vaults[run[r].vault].token = run[run[r].vault].token
    BY <1>7, <1>8 DEF VaultInv
<1>10. vaults[run[r].vault] \in VaultRow
    BY <1>8, <1>9, Installed
<1>. QED BY <1>2, <1>4, <1>8, <1>9, <1>10

-----------------------------------------------------------------------------
(* The books.  An execution that pays, funds and installs nothing leaves them. *)
LEMMA QuietBooks ==
    ASSUME DemoTypeOK, VaultInv, FlowInv, NEW r \in Runs, NEW s \in DeploySteps, Executes(r, s),
           s \in {"installVault", "fund", "pay"} => deploy'[r][s].status # "Ok",
           UNCHANGED funds,
           \A v \in Packages :
                /\ vaults'[v] # NoVault <=> vaults[v] # NoVault
                /\ vaults[v] # NoVault => /\ vaults'[v].token = vaults[v].token
                                          /\ vaults'[v].paidTotal = vaults[v].paidTotal
    PROVE  VaultInv' /\ FlowInv'
<1>1. UNCHANGED <<plan, run>>
    BY DEF Executes
<1>2. {"installVault", "fund", "pay"} \subseteq DeploySteps
    BY DeployPlaces
<1>3. \A q \in Runs :
        /\ OkAt(q, "installVault")' <=> OkAt(q, "installVault")
        /\ OkAt(q, "fund")' <=> OkAt(q, "fund")
        /\ OkAt(q, "pay")' <=> OkAt(q, "pay")
    BY <1>2, ExecutionKeeps DEF OkAt
<1>4. VaultInv'
    BY <1>1, <1>3 DEF VaultInv, Packages
<1>5. \A q \in Runs, t, v \in Packages : Holds(q, t, v)' <=> Holds(q, t, v)
    BY <1>1, <1>3 DEF Holds
<1>6. FlowInv'
    <2>1. \A q \in Runs :
            /\ vaults'[q] # NoVault <=> vaults[q] # NoVault
            /\ vaults[q] # NoVault => vaults'[q].paidTotal = vaults[q].paidTotal
        BY DEF Packages
    <2>. QED BY <1>1, <1>3, <1>5, <2>1 DEF FlowInv
<1>. QED BY <1>4, <1>6

(* A vault is installed empty, with the token its run had found. *)
LEMMA InstallBooks ==
    ASSUME DemoTypeOK, ProgressInv, VaultInv, FlowInv, NEW r \in Runs, Executes(r, "installVault"),
           deploy'[r]["installVault"].status = "Ok", UNCHANGED funds,
           \A v \in Packages \ {r} : vaults'[v] = vaults[v],
           vaults'[r] # NoVault, vaults'[r].paidTotal = 0, vaults'[r].token = run[r].token
    PROVE  VaultInv' /\ FlowInv'
<1>1. UNCHANGED <<plan, run>> /\ Taken(r, "installVault")
    BY DEF Executes
<1>2. {"installVault", "fund", "pay"} \subseteq DeploySteps
    BY DeployPlaces
<1>3. \A q \in Runs :
        /\ q # r => (OkAt(q, "installVault")' <=> OkAt(q, "installVault"))
        /\ OkAt(q, "fund")' <=> OkAt(q, "fund")
        /\ OkAt(q, "pay")' <=> OkAt(q, "pay")
    BY <1>2, ExecutionKeeps DEF OkAt
<1>4. OkAt(r, "installVault")' /\ ~ OkAt(r, "installVault")
    BY <1>1 DEF OkAt, Taken
<1>5. VaultInv'
    <2> SUFFICES ASSUME NEW v \in Packages
                 PROVE  /\ vaults'[v] # NoVault <=> OkAt(v, "installVault")'
                        /\ vaults'[v] # NoVault => vaults'[v].token = run'[v].token
        BY DEF VaultInv
    <2>1. CASE v = r
        BY <1>1, <1>4, <2>1
    <2>2. CASE v # r
        BY <1>1, <1>3, <2>2 DEF VaultInv, Packages
    <2>. QED BY <2>1, <2>2
<1>6. \A q \in Runs, t, v \in Packages : Holds(q, t, v)' <=> Holds(q, t, v)
    BY <1>1, <1>3 DEF Holds
<1>7. ~ OkAt(r, "pay")
    <2>1. run[r].step \in Nat
        <3>1. run[r] \in RunRow
            BY DEF DemoTypeOK
        <3>. QED BY <3>1 DEF RunRow
    <2>. QED BY <1>4, <2>1, OwnInstalls
<1>8. FlowInv'
    <2> SUFFICES ASSUME plan.pay > 0
        PROVE   /\ \A t, v \in Packages :
                    /\ (\E q \in Runs : Holds(q, t, v)) => funds[t][v] = plan.pay
                    /\ (\A q \in Runs : ~ Holds(q, t, v)) => funds[t][v] = 0
                /\ \A q \in Runs :
                    /\ OkAt(q, "pay") => run[q].vault = q
                    /\ vaults'[q] # NoVault =>
                        /\ OkAt(q, "pay") => vaults'[q].paidTotal = plan.pay
                        /\ ~ OkAt(q, "pay") => vaults'[q].paidTotal = 0
        BY <1>1, <1>3, <1>6 DEF FlowInv
    <2>1. \A q \in Runs : q # r => vaults'[q] = vaults[q]
        BY DEF Packages
    <2>. QED BY <1>7, <2>1 DEF FlowInv
<1>. QED BY <1>5, <1>8

(* Tokens that reach a vault: its run funds it, once. *)
LEMMA FundBooks ==
    ASSUME DemoTypeOK, ProgressInv, FoundInv, EnvelopeInv, VaultInv, FlowInv, NEW r \in Runs,
           Executes(r, "fund"), deploy'[r]["fund"].status = "Ok", UNCHANGED vaults,
           funds' = [funds EXCEPT ![run[r].token][run[r].vault] = @ + plan.pay]
    PROVE  VaultInv' /\ FlowInv'
<1>1. UNCHANGED <<plan, run>> /\ Taken(r, "fund")
    BY DEF Executes
<1>2. {"installVault", "fund", "pay"} \subseteq DeploySteps
    BY DeployPlaces
<1>3. \A q \in Runs :
        /\ OkAt(q, "installVault")' <=> OkAt(q, "installVault")
        /\ q # r => (OkAt(q, "fund")' <=> OkAt(q, "fund"))
        /\ OkAt(q, "pay")' <=> OkAt(q, "pay")
    BY <1>2, ExecutionKeeps DEF OkAt
<1>4. VaultInv'
    BY <1>1, <1>3 DEF VaultInv, Packages
<1>5. OkAt(r, "fund")' /\ ~ OkAt(r, "fund") /\ ~ OkAt(r, "pay")
    <2>1. OkAt(r, "fund")' /\ ~ OkAt(r, "fund")
        BY <1>1 DEF OkAt, Taken
    <2>2. run[r].step \in Nat
        <3>1. run[r] \in RunRow
            BY DEF DemoTypeOK
        <3>. QED BY <3>1 DEF RunRow
    <2>. QED BY <2>1, <2>2, OwnInstalls
<1>6. run[r].token \in Packages /\ run[r].vault \in Packages
    BY <1>1, CallTargets DEF Calls
<1>7. \A q \in Runs \ {r} : run[q].token # run[r].token
    BY <1>6, DemoAssumption DEF FoundInv, Packages, Runs, Nothing, DemoAssumption
<1>8. \A q \in Runs \ {r}, t, v \in Packages : Holds(q, t, v)' <=> Holds(q, t, v)
    BY <1>1, <1>3 DEF Holds
<1>9. \A t, v \in Packages :
        /\ ~ Holds(r, t, v)
        /\ Holds(r, t, v)' <=> (t = run[r].token /\ v = run[r].vault)
    BY <1>1, <1>3, <1>5 DEF Holds
<1>10. \A q \in Runs, v \in Packages : ~ Holds(q, run[r].token, v)
    BY <1>6, <1>7, <1>9 DEF Holds
<1>11. FlowInv'
    <2> SUFFICES ASSUME plan.pay > 0
        PROVE   /\ \A t, v \in Packages :
                    /\ (\E q \in Runs : Holds(q, t, v)') => funds'[t][v] = plan.pay
                    /\ (\A q \in Runs : ~ Holds(q, t, v)') => funds'[t][v] = 0
                /\ \A q \in Runs :
                    /\ OkAt(q, "pay") => run[q].vault = q
                    /\ vaults[q] # NoVault =>
                        /\ OkAt(q, "pay") => vaults[q].paidTotal = plan.pay
                        /\ ~ OkAt(q, "pay") => vaults[q].paidTotal = 0
        BY <1>1, <1>3 DEF FlowInv
    <2>1. \A t, v \in Packages :
            /\ (\E q \in Runs : Holds(q, t, v)) => funds[t][v] = plan.pay
            /\ (\A q \in Runs : ~ Holds(q, t, v)) => funds[t][v] = 0
        BY DEF FlowInv
    <2>2. ASSUME NEW t \in Packages, NEW v \in Packages
          PROVE  /\ (\E q \in Runs : Holds(q, t, v)') => funds'[t][v] = plan.pay
                 /\ (\A q \in Runs : ~ Holds(q, t, v)') => funds'[t][v] = 0
        <3>1. CASE t = run[r].token /\ v = run[r].vault
            <4>1. funds[t][v] = 0
                BY <1>10, <2>1, <3>1
            <4>2. funds'[t][v] = funds[t][v] + plan.pay
                BY <3>1 DEF DemoTypeOK
            <4>3. plan.pay \in Nat
                BY PlanAmounts
            <4>. QED BY <1>9, <3>1, <4>1, <4>2, <4>3
        <3>2. CASE ~ (t = run[r].token /\ v = run[r].vault)
            <4>1. funds'[t][v] = funds[t][v]
                BY <3>2 DEF DemoTypeOK
            <4>2. \A q \in Runs : Holds(q, t, v)' <=> Holds(q, t, v)
                BY <1>8, <1>9, <3>2
            <4>. QED BY <2>1, <4>1, <4>2
        <3>. QED BY <3>1, <3>2
    <2>3. \A q \in Runs :
            /\ OkAt(q, "pay") => run[q].vault = q
            /\ vaults[q] # NoVault =>
                /\ OkAt(q, "pay") => vaults[q].paidTotal = plan.pay
                /\ ~ OkAt(q, "pay") => vaults[q].paidTotal = 0
        BY DEF FlowInv
    <2>. QED BY <2>2, <2>3
<1>. QED BY <1>4, <1>11

(* A payment that is accepted comes out of the vault of its own run's install, *)
(* and takes all that the run put there.                                       *)
LEMMA PayFrom ==
    ASSUME DemoTypeOK, FoundInv, FlowInv, plan.pay > 0, NEW r \in Runs,
           run[r].vault \in Packages, vaults[run[r].vault] \in VaultRow,
           vaults[run[r].vault].token = run[run[r].vault].token,
           funds[vaults[run[r].vault].token][run[r].vault] >= plan.pay
    PROVE  run[r].vault = r /\ Holds(r, run[r].token, r)
<1> DEFINE v == run[r].vault
           t == vaults[v].token
<1>1. t \in Packages /\ v \in Packages /\ plan.pay \in Nat /\ funds[t][v] >= plan.pay
    BY PlanAmounts DEF VaultRow
<1>2. (\A q \in Runs : ~ Holds(q, t, v)) => funds[t][v] = 0
    BY <1>1 DEF FlowInv
<1>3. PICK q \in Runs : Holds(q, t, v)
    BY <1>1, <1>2
<1>4. run[q].vault = v /\ run[q].token = t
    BY <1>3 DEF Holds
<1>5. v # Nothing /\ t # Nothing
    BY <1>1, DemoAssumption DEF Packages, Runs, Nothing, DemoAssumption
<1>6. q = r
    BY <1>4, <1>5 DEF FoundInv
<1>7. v \in Runs /\ run[v].token = t
    BY DEF Packages
<1>8. v = r
    BY <1>4, <1>5, <1>6, <1>7 DEF FoundInv
<1>. QED BY <1>3, <1>4, <1>6, <1>8

PaidOut(r) ==
    LET v == run[r].vault
        t == vaults[v].token
    IN  /\ funds[t][v] >= plan.pay
        /\ funds' = [funds EXCEPT ![t][v] = @ - plan.pay]
        /\ \A p \in Packages :
            /\ vaults'[p] # NoVault <=> vaults[p] # NoVault
            /\ vaults[p] # NoVault => vaults'[p].token = vaults[p].token
            /\ p # v => vaults'[p] = vaults[p]
        /\ vaults'[v].paidTotal = vaults[v].paidTotal + plan.pay

LEMMA PayBooks ==
    ASSUME DemoTypeOK, ProgressInv, FoundInv, EnvelopeInv, VaultInv, FlowInv, NEW r \in Runs,
           Executes(r, "pay"), deploy'[r]["pay"].status = "Ok", PaidOut(r)
    PROVE  VaultInv' /\ FlowInv'
<1>1. UNCHANGED <<plan, run>> /\ Taken(r, "pay")
    BY DEF Executes
<1>2. {"installVault", "fund", "pay"} \subseteq DeploySteps
    BY DeployPlaces
<1>3. \A q \in Runs :
        /\ OkAt(q, "installVault")' <=> OkAt(q, "installVault")
        /\ OkAt(q, "fund")' <=> OkAt(q, "fund")
        /\ q # r => (OkAt(q, "pay")' <=> OkAt(q, "pay"))
    BY <1>2, ExecutionKeeps DEF OkAt
<1>4. OkAt(r, "pay")' /\ ~ OkAt(r, "pay")
    BY <1>1 DEF OkAt, Taken
<1>5. \A p \in Packages :
        /\ vaults'[p] # NoVault <=> vaults[p] # NoVault
        /\ vaults[p] # NoVault => vaults'[p].token = vaults[p].token
        /\ p # run[r].vault => vaults'[p] = vaults[p]
    BY DEF PaidOut
<1>6. vaults'[run[r].vault].paidTotal = vaults[run[r].vault].paidTotal + plan.pay
    BY DEF PaidOut
<1>7. VaultInv'
    BY <1>1, <1>3, <1>5 DEF VaultInv, Packages
<1>8. /\ run[r].vault \in Packages /\ vaults[run[r].vault] \in VaultRow
      /\ vaults[run[r].vault] # NoVault
      /\ vaults[run[r].vault].token = run[run[r].vault].token /\ run[r].token \in Packages
    BY <1>1, CallTargets, Zenon DEF Calls, Payments
<1>9. FlowInv'
    <2> SUFFICES ASSUME plan.pay > 0
        PROVE   /\ \A t, v \in Packages :
                    /\ (\E q \in Runs : Holds(q, t, v)') => funds'[t][v] = plan.pay
                    /\ (\A q \in Runs : ~ Holds(q, t, v)') => funds'[t][v] = 0
                /\ \A q \in Runs :
                    /\ OkAt(q, "pay")' => run[q].vault = q
                    /\ vaults'[q] # NoVault =>
                        /\ OkAt(q, "pay")' => vaults'[q].paidTotal = plan.pay
                        /\ ~ OkAt(q, "pay")' => vaults'[q].paidTotal = 0
        BY <1>1, Zenon DEF FlowInv
    <2>1. run[r].vault = r /\ Holds(r, run[r].token, r) /\ vaults[r].token = run[r].token
        <3>1. funds[vaults[run[r].vault].token][run[r].vault] >= plan.pay
            BY DEF PaidOut
        <3>2. run[r].vault = r /\ Holds(r, run[r].token, r)
            BY <1>8, <3>1, PayFrom, Zenon
        <3>. QED BY <1>8, <3>2
    <2>2. /\ \A t, v \in Packages :
            /\ (\E q \in Runs : Holds(q, t, v)) => funds[t][v] = plan.pay
            /\ (\A q \in Runs : ~ Holds(q, t, v)) => funds[t][v] = 0
          /\ \A q \in Runs :
            /\ OkAt(q, "pay") => run[q].vault = q
            /\ vaults[q] # NoVault =>
                /\ OkAt(q, "pay") => vaults[q].paidTotal = plan.pay
                /\ ~ OkAt(q, "pay") => vaults[q].paidTotal = 0
        BY DEF FlowInv
    <2>3. \A t, v \in Packages : \A q \in Runs \ {r} : Holds(q, t, v)' <=> Holds(q, t, v)
        BY <1>1, <1>3 DEF Holds
    <2>4. \A t, v \in Packages :
            /\ ~ Holds(r, t, v)'
            /\ Holds(r, t, v) => t = run[r].token /\ v = r
        BY <1>4, <2>1 DEF Holds
    <2>5. funds' = [funds EXCEPT ![run[r].token][r] = @ - plan.pay]
        BY <2>1 DEF PaidOut
    <2>6. ASSUME NEW t \in Packages, NEW v \in Packages
          PROVE  /\ (\E q \in Runs : Holds(q, t, v)') => funds'[t][v] = plan.pay
                 /\ (\A q \in Runs : ~ Holds(q, t, v)') => funds'[t][v] = 0
        <3>1. CASE t = run[r].token /\ v = r
            <4>1. funds[t][v] = plan.pay /\ plan.pay \in Nat
                BY <2>1, <2>2, <3>1, PlanAmounts
            <4>2. funds'[t][v] = funds[t][v] - plan.pay
                BY <2>5, <3>1 DEF DemoTypeOK
            <4>3. \A q \in Runs \ {r} : run[q].vault # r
                BY <1>8, <2>1, DemoAssumption
                   DEF FoundInv, Packages, Runs, Nothing, DemoAssumption
            <4>4. \A q \in Runs : ~ Holds(q, t, v)'
                BY <2>3, <2>4, <3>1, <4>3 DEF Holds
            <4>. QED BY <4>1, <4>2, <4>4
        <3>2. CASE ~ (t = run[r].token /\ v = r)
            <4>1. funds'[t][v] = funds[t][v]
                BY <2>5, <3>2 DEF DemoTypeOK
            <4>2. \A q \in Runs : Holds(q, t, v)' <=> Holds(q, t, v)
                BY <2>3, <2>4, <3>2
            <4>. QED BY <2>2, <4>1, <4>2, Zenon
        <3>. QED BY <3>1, <3>2, Zenon
    <2>7. ASSUME NEW q \in Runs
          PROVE  /\ OkAt(q, "pay")' => run[q].vault = q
                 /\ vaults'[q] # NoVault =>
                    /\ OkAt(q, "pay")' => vaults'[q].paidTotal = plan.pay
                    /\ ~ OkAt(q, "pay")' => vaults'[q].paidTotal = 0
        <3>1. CASE q = r
            <4>1. vaults[r].paidTotal = 0 /\ vaults'[r].paidTotal = plan.pay
                BY <1>4, <1>8, <1>6, <2>1, <2>2, PlanAmounts
            <4>. QED BY <1>4, <2>1, <3>1, <4>1
        <3>2. CASE q # r
            <4>1. vaults'[q] = vaults[q]
                BY <1>5, <2>1, <3>2 DEF Packages
            <4>. QED BY <1>3, <2>2, <3>2, <4>1, Zenon
        <3>. QED BY <3>1, <3>2
    <2>. QED BY <2>6, <2>7, Zenon
<1>. QED BY <1>7, <1>9

-----------------------------------------------------------------------------
(* One lemma per kind of deploy. *)
LEMMA InstallsCep18 ==
    ASSUME DemoInv, NEW r \in Runs, ExecuteInstallCep18(r)
    PROVE  DemoInv'
<1> DEFINE s == "installCep18"
<1>1. s \in DeploySteps /\ "Ok" \in Outcomes /\ UNCHANGED <<plan, run, artifact, now>>
    BY DeployPlaces DEF Outcomes, ExecuteInstallCep18, script
<1>2. Executes(r, s) /\ deploy'[r][s].status = "Ok"
    BY <1>1, Executions DEF DemoInv, ExecuteInstallCep18
<1>3. KeyInv' /\ key' \in [Cep18 : Found, PolicyVault : Found]
    BY <1>1, <1>2, PublishedKeys DEF DemoInv, ExecuteInstallCep18
<1>4. purse' \in [Packages -> Nat] /\ UNCHANGED <<vaults, funds>>
    BY DemoAssumption DEF DemoInv, DemoTypeOK, ExecuteInstallCep18, Packages, DemoAssumption
<1>5. VaultInv' /\ FlowInv'
    BY <1>1, <1>2, <1>4, QuietBooks DEF DemoInv
<1>6. DemoTypeOK'
    BY <1>1, <1>2, <1>3, <1>4 DEF DemoInv, DemoTypeOK, Executes
<1>. QED BY <1>1, <1>2, <1>3, <1>5, <1>6, ExecutionProgress, ExecutionFound DEF DemoInv

LEMMA InstallsVault ==
    ASSUME DemoInv, NEW r \in Runs, ExecuteInstallVault(r)
    PROVE  DemoInv'
<1> DEFINE s == "installVault"
<1>1. /\ s \in DeploySteps /\ InstallVerdict(r) \in Outcomes
      /\ UNCHANGED <<plan, run, artifact, now, funds, purse>>
    BY DeployPlaces DEF Outcomes, InstallVerdict, ExecuteInstallVault, script
<1>2. Executes(r, s) /\ deploy'[r][s].status = InstallVerdict(r)
    BY <1>1, Executions DEF DemoInv, ExecuteInstallVault
<1>3. CASE InstallVerdict(r) # "Ok"
    <2>1. UNCHANGED <<key, vaults>>
        BY <1>3 DEF ExecuteInstallVault
    <2>2. KeyInv'
        BY <1>1, <1>2, <1>3, <2>1, ExecutionKeys DEF DemoInv
    <2>3. VaultInv' /\ FlowInv'
        BY <1>1, <1>2, <1>3, <2>1, QuietBooks DEF DemoInv
    <2>4. DemoTypeOK'
        BY <1>1, <1>2, <2>1 DEF DemoInv, DemoTypeOK, Executes
    <2>. QED BY <1>1, <1>2, <2>2, <2>3, <2>4, ExecutionProgress, ExecutionFound DEF DemoInv
<1>4. CASE InstallVerdict(r) = "Ok"
    <2> DEFINE row == [token |-> deploy[r]["installVault"].token, agents |-> {}, receivers |-> {},
                       dayIndex |-> 0, daySpend |-> 0, paidTotal |-> 0, usedHashes |-> {}]
    <2>1. Publish("PolicyVault", r) /\ vaults' = [vaults EXCEPT ![r] = row]
        BY <1>4 DEF ExecuteInstallVault
    <2>2. KeyInv' /\ key' \in [Cep18 : Found, PolicyVault : Found]
        BY <1>1, <1>2, <1>4, <2>1, PublishedKeys DEF DemoInv
    <2>3. deploy[r][s].token = run[r].token /\ run[r].token \in Packages
        <3>1. Begun(r, Steps[3]) /\ Steps[3] = s
            BY <1>2, StepPlaces DEF Executes, Taken, Begun
        <3>2. run[r] \in RunRow /\ run[r].step \in Nat
            BY DEF DemoInv, DemoTypeOK, RunRow
        <3>3. run[r].step > 2
            BY <1>1, <3>1, <3>2, BegunPlaces DEF DemoInv
        <3>4. run[r].token # Nothing
            BY <3>3 DEF DemoInv, FoundInv
        <3>5. deploy[r][s].token = run[r].token
            BY <1>1, <3>1 DEF DemoInv, EnvelopeInv
        <3>. QED BY <3>2, <3>4, <3>5 DEF RunRow, Found
    <2>4. row \in VaultRow /\ row.token = run[r].token /\ row.paidTotal = 0
        BY <2>3 DEF VaultRow
    <2>5. row # NoVault
        <3>1. row.token # Nothing
            BY <2>3, <2>4, DemoAssumption DEF Packages, Runs, Nothing, DemoAssumption
        <3>2. NoVault.token = Nothing
            BY DEF NoVault
        <3>. QED BY <3>1, <3>2
    <2> HIDE DEF row
    <2>6. vaults \in [Packages -> {NoVault} \cup VaultRow] /\ r \in Packages
        BY DEF DemoInv, DemoTypeOK, Packages
    <2>7. /\ vaults' \in [Packages -> {NoVault} \cup VaultRow] /\ vaults'[r] = row
          /\ \A v \in Packages \ {r} : vaults'[v] = vaults[v]
        BY <2>1, <2>4, <2>6
    <2>8. VaultInv' /\ FlowInv'
        BY <1>1, <1>2, <1>4, <2>4, <2>5, <2>7, InstallBooks DEF DemoInv
    <2>9. DemoTypeOK'
        BY <1>1, <1>2, <2>2, <2>7 DEF DemoInv, DemoTypeOK, Executes
    <2>. QED BY <1>1, <1>2, <2>2, <2>8, <2>9, ExecutionProgress, ExecutionFound DEF DemoInv
<1>. QED BY <1>3, <1>4

LEMMA Allows ==
    ASSUME DemoInv, NEW r \in Runs, NEW s \in {"allowAgent", "allowReceiver"}, ExecuteAllow(r, s)
    PROVE  DemoInv' /\ \A v \in Packages : v # run[r].vault => vaults'[v] = vaults[v]
<1>1. /\ s \in DeploySteps /\ s \in Calls /\ "Ok" \in Outcomes
      /\ UNCHANGED <<plan, run, artifact, now, key, funds, purse>>
    BY DeployPlaces DEF Outcomes, ExecuteAllow, script, Calls
<1>2. Taken(r, s) /\ Executes(r, s)
    BY <1>1, Executions DEF DemoInv, ExecuteAllow
<1>3. /\ deploy[r][s].vault = run[r].vault /\ run[r].vault \in Packages
      /\ vaults[run[r].vault] # NoVault /\ vaults[run[r].vault] \in VaultRow
    BY <1>1, <1>2, CallTargets DEF DemoInv
<1>4. PICK v \in Packages : v = run[r].vault
    BY <1>3
<1>5. vaults[v] # NoVault /\ vaults[v] \in VaultRow
    BY <1>3, <1>4
<1>6. PICK row \in {[vaults[v] EXCEPT !.agents = @ \cup {Deployer}],
                    [vaults[v] EXCEPT !.receivers = @ \cup {Payee}]} :
            vaults' = [vaults EXCEPT ![v] = row]
    <2>1. CASE s = "allowAgent"
        <3>1. vaults' = [vaults EXCEPT ![v].agents = @ \cup {Deployer}]
            BY <1>3, <1>4, <2>1 DEF ExecuteAllow
        <3>. QED BY <3>1
    <2>2. CASE s = "allowReceiver"
        <3>1. vaults' = [vaults EXCEPT ![v].receivers = @ \cup {Payee}]
            BY <1>3, <1>4, <2>2 DEF ExecuteAllow
        <3>. QED BY <3>1
    <2>. QED BY <2>1, <2>2
<1>7. row \in VaultRow /\ row.token = vaults[v].token /\ row.paidTotal = vaults[v].paidTotal
    <2>1. CASE row = [vaults[v] EXCEPT !.agents = @ \cup {Deployer}]
        BY <1>5, <2>1 DEF VaultRow
    <2>2. CASE row = [vaults[v] EXCEPT !.receivers = @ \cup {Payee}]
        BY <1>5, <2>2 DEF VaultRow
    <2>. QED BY <1>6, <2>1, <2>2
<1>8. row # NoVault
    <2>1. row.token \in Packages
        BY <1>7 DEF VaultRow
    <2>2. NoVault.token = Nothing /\ Nothing \notin Packages
        BY DemoAssumption DEF NoVault, Packages, Runs, Nothing, DemoAssumption
    <2>. QED BY <2>1, <2>2
<1>9. vaults \in [Packages -> {NoVault} \cup VaultRow]
    BY DEF DemoInv, DemoTypeOK
<1>10. /\ vaults' \in [Packages -> {NoVault} \cup VaultRow] /\ vaults'[v] = row
       /\ \A p \in Packages \ {v} : vaults'[p] = vaults[p]
    BY <1>6, <1>7, <1>9
<1>11. \A p \in Packages :
                /\ vaults'[p] # NoVault <=> vaults[p] # NoVault
                /\ vaults[p] # NoVault => /\ vaults'[p].token = vaults[p].token
                                          /\ vaults'[p].paidTotal = vaults[p].paidTotal
    BY <1>5, <1>7, <1>8, <1>10
<1>12. KeyInv'
    BY <1>1, <1>2, ExecutionKeys DEF DemoInv
<1>13. VaultInv' /\ FlowInv'
    BY <1>1, <1>2, <1>11, QuietBooks DEF DemoInv
<1>14. DemoTypeOK'
    BY <1>1, <1>2, <1>10 DEF DemoInv, DemoTypeOK, Executes
<1>. QED BY <1>1, <1>2, <1>4, <1>10, <1>12, <1>13, <1>14, ExecutionProgress, ExecutionFound
         DEF DemoInv

LEMMA Funds ==
    ASSUME DemoInv, NEW r \in Runs, ExecuteFund(r)
    PROVE  /\ DemoInv' /\ UNCHANGED vaults
           /\ \A t, v \in Packages : t # run[r].token => funds'[t][v] = funds[t][v]
<1> DEFINE s == "fund"
<1>1. /\ s \in DeploySteps /\ s \in Calls /\ "Ok" \in Outcomes /\ "TokenError" \in Outcomes
      /\ UNCHANGED <<plan, run, artifact, now, key, vaults>> /\ Taken(r, s)
    BY DeployPlaces DEF Outcomes, ExecuteFund, script, Calls
<1>2. /\ deploy[r][s].vault = run[r].vault /\ run[r].vault \in Packages
      /\ deploy[r][s].token = run[r].token /\ run[r].token \in Packages
    BY <1>1, CallTargets DEF DemoInv
<1>3. plan.pay \in Nat /\ FundAmount = plan.pay
    BY PlanAmounts DEF DemoInv, FundAmount
<1>4. CASE purse[run[r].token] >= plan.pay
    <2>1. ExecuteAs(r, s, "Ok")
        BY <1>2, <1>3, <1>4 DEF ExecuteFund
    <2>2. /\ purse' = [purse EXCEPT ![run[r].token] = @ - plan.pay]
          /\ funds' = [funds EXCEPT ![run[r].token][run[r].vault] = @ + plan.pay]
        BY <1>2, <1>3, <1>4 DEF ExecuteFund
    <2>3. Executes(r, s) /\ deploy'[r][s].status = "Ok"
        BY <1>1, <2>1, Executions DEF DemoInv
    <2>4. purse' \in [Packages -> Nat]
        <3>1. purse[run[r].token] - plan.pay \in Nat
            BY <1>2, <1>3, <1>4 DEF DemoInv, DemoTypeOK
        <3>. QED BY <1>2, <2>2, <3>1 DEF DemoInv, DemoTypeOK
    <2>5. funds' \in [Packages -> [Packages -> Nat]]
          /\ \A t, v \in Packages : t # run[r].token => funds'[t][v] = funds[t][v]
        BY <1>2, <1>3, <2>2 DEF DemoInv, DemoTypeOK
    <2>6. KeyInv'
        BY <1>1, <2>3, ExecutionKeys DEF DemoInv
    <2>7. VaultInv' /\ FlowInv'
        BY <1>1, <2>2, <2>3, FundBooks DEF DemoInv
    <2>8. DemoTypeOK'
        BY <1>1, <2>3, <2>4, <2>5 DEF DemoInv, DemoTypeOK, Executes
    <2>. QED BY <1>1, <2>3, <2>5, <2>6, <2>7, <2>8, ExecutionProgress, ExecutionFound DEF DemoInv
<1>5. CASE ~ (purse[run[r].token] >= plan.pay)
    <2>1. ExecuteAs(r, s, "TokenError") /\ UNCHANGED <<purse, funds>>
        BY <1>2, <1>3, <1>5 DEF ExecuteFund
    <2>2. Executes(r, s) /\ deploy'[r][s].status = "TokenError"
        BY <1>1, <2>1, Executions DEF DemoInv
    <2>3. KeyInv'
        BY <1>1, <2>2, ExecutionKeys DEF DemoInv
    <2>4. VaultInv' /\ FlowInv'
        BY <1>1, <2>1, <2>2, QuietBooks DEF DemoInv
    <2>5. DemoTypeOK'
        BY <1>1, <2>1, <2>2 DEF DemoInv, DemoTypeOK, Executes
    <2>. QED BY <1>1, <2>1, <2>2, <2>3, <2>4, <2>5, ExecutionProgress, ExecutionFound DEF DemoInv
<1>. QED BY <1>4, <1>5

(* A refused payment leaves the books alone; only the first one is accepted. *)
LEMMA Payouts ==
    ASSUME DemoInv, NEW r \in Runs, NEW s \in Payments, ExecutePayment(r, s)
    PROVE  /\ DemoInv'
           /\ \A v \in Packages : v # run[r].vault =>
                vaults'[v] = vaults[v] /\ \A t \in Packages : funds'[t][v] = funds[t][v]
<1>1. /\ s \in DeploySteps /\ s \in Calls /\ s # "installVault" /\ s # "installCep18"
      /\ s # "fund" /\ UNCHANGED <<plan, run, artifact, now, key, purse>> /\ Taken(r, s)
    BY DeployPlaces, Zenon DEF ExecutePayment, script, Calls, Payments
<1>2. PICK v \in Packages : v = run[r].vault /\ v = deploy[r][s].vault
    BY <1>1, CallTargets DEF DemoInv
<1>3. /\ vaults[v] # NoVault /\ vaults[v] \in VaultRow /\ PreFlight
      /\ vaults[v].token \in Packages
    BY <1>1, <1>2, CallTargets DEF DemoInv, VaultRow
<1>4. AmountOf(s) \in Nat /\ ReceiverOf(s) \in {Payee, Blocked} /\ plan.pay \in Nat
      /\ plan.max \in Nat /\ plan.reject \in Nat
    BY PlanAmounts DEF DemoInv
<1> DEFINE verdict == Vault(v)!PayVerdict(Deployer, ReceiverOf(s), AmountOf(s), PayloadHash(s))
           held == funds[vaults[v].token][v]
<1>5. verdict \in Outcomes
      /\ (verdict = "Ok" => /\ ReceiverOf(s) \in vaults[v].receivers /\ AmountOf(s) <= plan.max
                            /\ held >= AmountOf(s))
    BY <1>3, <1>4, Verdicts DEF DemoInv
<1>6. ExecuteAs(r, s, verdict)
    BY <1>2, Zenon DEF ExecutePayment
<1>7. verdict = "Ok" =>
        /\ vaults' = [vaults EXCEPT
                       ![v].dayIndex = Vault(v)!Today,
                       ![v].daySpend = Vault(v)!CurrentDaySpend + AmountOf(s),
                       ![v].paidTotal = @ + AmountOf(s),
                       ![v].usedHashes = @ \cup {PayloadHash(s)}]
        /\ funds' = [funds EXCEPT ![vaults[v].token][v] = @ - AmountOf(s)]
    BY <1>2, Zenon DEF ExecutePayment
<1>8. verdict # "Ok" => UNCHANGED <<vaults, funds>>
    BY <1>2 DEF ExecutePayment
<1>9. Vault(v)!Today \in Nat /\ Vault(v)!CurrentDaySpend \in Nat
    <2>1. Vault(v)!Today \in Nat
        <3>1. now \in Nat /\ DayLen \in Nat \ {0}
            BY DemoAssumption DEF DemoInv, DemoTypeOK, DemoAssumption
        <3>2. now \div DayLen \in Nat
            BY <3>1
        <3>. QED BY <3>2 DEF Vault!Today, Vault!DayOf
    <2>2. vaults[v].daySpend \in Nat
        BY <1>3 DEF VaultRow
    <2>. QED BY <2>1, <2>2 DEF Vault!CurrentDaySpend
<1>10. Executes(r, s) /\ deploy'[r][s].status = verdict
    <2> HIDE DEF verdict
    <2>. QED BY <1>1, <1>5, <1>6, Executions DEF DemoInv
<1> HIDE DEF verdict
<1>11. CASE verdict # "Ok"
    <2>1. UNCHANGED <<vaults, funds>>
        BY <1>8, <1>11
    <2>2. KeyInv'
        BY <1>1, <1>10, ExecutionKeys DEF DemoInv
    <2>3. VaultInv' /\ FlowInv'
        BY <1>1, <1>10, <1>11, <2>1, QuietBooks DEF DemoInv
    <2>4. DemoTypeOK'
        BY <1>1, <1>10, <2>1 DEF DemoInv, DemoTypeOK, Executes
    <2>. QED BY <1>1, <1>10, <2>1, <2>2, <2>3, <2>4, ExecutionProgress, ExecutionFound DEF DemoInv
<1>12. CASE verdict = "Ok"
    <2>1. s = "pay" /\ AmountOf(s) = plan.pay
        <3>1. s # "rejectReceiver"
            BY <1>3, <1>5, <1>12 DEF ReceiverOf, VaultRow, Payee, Blocked
        <3>2. s # "rejectAmount"
            BY <1>3, <1>4, <1>5, <1>12 DEF AmountOf, PreFlight
        <3>. QED BY <3>1, <3>2 DEF Payments, AmountOf
    <2>2. PICK today \in Nat, spent \in Nat :
            vaults' = [vaults EXCEPT
                       ![v].dayIndex = today,
                       ![v].daySpend = spent,
                       ![v].paidTotal = @ + plan.pay,
                       ![v].usedHashes = @ \cup {PayloadHash(s)}]
        <3>1. Vault(v)!CurrentDaySpend + AmountOf(s) \in Nat
            BY <1>4, <1>9
        <3>2. PICK today \in Nat, spent \in Nat :
                today = Vault(v)!Today /\ spent = Vault(v)!CurrentDaySpend + AmountOf(s)
            BY <1>9, <3>1
        <3>3. vaults' = [vaults EXCEPT
                       ![v].dayIndex = today,
                       ![v].daySpend = spent,
                       ![v].paidTotal = @ + plan.pay,
                       ![v].usedHashes = @ \cup {PayloadHash(s)}]
            BY <1>7, <1>12, <2>1, <3>2
        <3>. QED BY <3>3, Zenon
    <2> DEFINE row == [vaults[v] EXCEPT !.dayIndex = today, !.daySpend = spent,
                       !.paidTotal = @ + plan.pay, !.usedHashes = @ \cup {PayloadHash(s)}]
    <2>3. vaults \in [Packages -> {NoVault} \cup VaultRow]
        BY DEF DemoInv, DemoTypeOK
    <2>4. vaults' = [vaults EXCEPT ![v] = row]
        BY <1>3, <2>2, <2>3
    <2>5. PayloadHash(s) \in {Payee, Blocked} \X Nat
        BY <1>4 DEF PayloadHash
    <2>6. row \in VaultRow /\ row.token = vaults[v].token
          /\ row.paidTotal = vaults[v].paidTotal + plan.pay
        <3>1. vaults[v].paidTotal + plan.pay \in Nat
              /\ vaults[v].usedHashes \cup {PayloadHash(s)} \in SUBSET ({Payee, Blocked} \X Nat)
            BY <1>3, <1>4, <2>5 DEF VaultRow
        <3>2. PICK hashes \in SUBSET ({Payee, Blocked} \X Nat), total \in Nat :
                hashes = vaults[v].usedHashes \cup {PayloadHash(s)}
                /\ total = vaults[v].paidTotal + plan.pay
            BY <3>1
        <3>3. row = [vaults[v] EXCEPT !.dayIndex = today, !.daySpend = spent,
                       !.paidTotal = total, !.usedHashes = hashes]
            BY <1>3, <3>2 DEF VaultRow
        <3> HIDE DEF row
        <3>. QED BY <1>3, <3>2, <3>3 DEF VaultRow
    <2> HIDE DEF row
    <2>7. row # NoVault
        <3>1. row.token \in Packages
            BY <2>6 DEF VaultRow
        <3>2. NoVault.token = Nothing /\ Nothing \notin Packages
            BY DemoAssumption DEF NoVault, Packages, Runs, Nothing, DemoAssumption
        <3>. QED BY <3>1, <3>2
    <2>8. /\ vaults' \in [Packages -> {NoVault} \cup VaultRow] /\ vaults'[v] = row
          /\ \A p \in Packages \ {v} : vaults'[p] = vaults[p]
        BY <2>3, <2>4, <2>6
    <2>9. /\ funds' = [funds EXCEPT ![vaults[v].token][v] = @ - plan.pay]
          /\ held >= plan.pay
        BY <1>5, <1>7, <1>12, <2>1
    <2>10. held \in Nat /\ held - plan.pay \in Nat
        <3>1. held \in Nat
            BY <1>3 DEF DemoInv, DemoTypeOK
        <3>. QED BY <1>4, <2>9, <3>1
    <2>11. /\ funds' \in [Packages -> [Packages -> Nat]]
           /\ \A p \in Packages : p # v => \A t \in Packages : funds'[t][p] = funds[t][p]
        BY <1>3, <2>9, <2>10 DEF DemoInv, DemoTypeOK
    <2>12. KeyInv'
        BY <1>1, <1>10, ExecutionKeys DEF DemoInv
    <2>13. VaultInv' /\ FlowInv'
        <3>1. \A p \in Packages :
                /\ vaults'[p] # NoVault <=> vaults[p] # NoVault
                /\ vaults[p] # NoVault => vaults'[p].token = vaults[p].token
                /\ p # run[r].vault => vaults'[p] = vaults[p]
            BY <1>2, <1>3, <2>6, <2>7, <2>8
        <3>2. vaults'[run[r].vault].paidTotal = vaults[run[r].vault].paidTotal + plan.pay
            BY <1>2, <2>6, <2>8
        <3>3. /\ funds[vaults[run[r].vault].token][run[r].vault] >= plan.pay
              /\ funds' = [funds EXCEPT ![vaults[run[r].vault].token][run[r].vault] = @ - plan.pay]
            BY <1>2, <2>9, Zenon
        <3>4. Executes(r, "pay") /\ deploy'[r]["pay"].status = "Ok"
            BY <1>10, <1>12, <2>1
        <3>5. PaidOut(r)
            BY <3>1, <3>2, <3>3, Zenon DEF PaidOut
        <3>. QED BY <3>4, <3>5, PayBooks DEF DemoInv
    <2>14. DemoTypeOK'
        BY <1>1, <1>10, <2>8, <2>11 DEF DemoInv, DemoTypeOK, Executes
    <2>15. ProgressInv' /\ TurnInv' /\ EnvelopeInv' /\ FoundInv'
        BY <1>1, <1>10, ExecutionProgress, ExecutionFound DEF DemoInv
    <2>. QED BY <1>2, <2>8, <2>11, <2>12, <2>13, <2>14, <2>15 DEF DemoInv
<1>. QED BY <1>11, <1>12

LEMMA ExecuteInv ==
    ASSUME DemoInv, NEW r \in Runs, Execute(r)
    PROVE  DemoInv'
BY InstallsCep18, InstallsVault, Allows, Funds, Payouts DEF Execute

LEMMA DemoStart == DemoInit => DemoInv
<1> SUFFICES ASSUME DemoInit PROVE DemoInv
    OBVIOUS
<1>1. 0 \in Nat /\ Nothing \in Found /\ 1 \in 1 .. 11
    BY DEF Found
<1>2. DemoTypeOK
    BY <1>1 DEF DemoInit, DemoTypeOK, RunRow, DeployRow, NoDeploy, Nothing
<1>3. ASSUME NEW r \in Runs, NEW s \in DeploySteps PROVE deploy[r][s] = NoDeploy
    BY DEF DemoInit
<1>4. \A r \in Runs : run[r].phase = "new" /\ run[r].step = 1 /\ run[r].token = Nothing
                      /\ run[r].vault = Nothing
    BY DEF DemoInit
<1>5. {"installCep18", "installVault", "fund", "pay"} \subseteq DeploySteps
    BY DeployPlaces
<1>6. NoDeploy.status = "none"
    BY DEF NoDeploy
<1>7. ProgressInv
    BY <1>3, <1>4 DEF ProgressInv, DoneUpTo, Sealed
<1>8. TurnInv
    <2>1. artifact \notin Runs
        BY DemoAssumption DEF DemoInit, Runs, Nothing, DemoAssumption
    <2>. QED BY <1>4, <2>1 DEF TurnInv, Sealed
<1>9. FoundInv
    BY <1>4 DEF FoundInv
<1>10. KeyInv
    BY <1>4 DEF KeyInv, Active, DemoInit
<1>11. EnvelopeInv
    BY <1>3, <1>6 DEF EnvelopeInv, Begun
<1>12. VaultInv
    BY <1>3, <1>5, <1>6 DEF VaultInv, OkAt, DemoInit, Packages
<1>13. FlowInv
    <2>1. \A r \in Runs : ~ OkAt(r, "fund") /\ ~ OkAt(r, "pay")
        BY <1>3, <1>5, <1>6 DEF OkAt
    <2>. QED BY <2>1 DEF FlowInv, Holds, DemoInit, Packages
<1>. QED BY <1>2, <1>7, <1>8, <1>9, <1>10, <1>11, <1>12, <1>13 DEF DemoInv

LEMMA DemoStep == DemoInv /\ [DemoNext]_demoVars => DemoInv'
<1> SUFFICES ASSUME DemoInv, [DemoNext]_demoVars PROVE DemoInv'
    OBVIOUS
<1>1. CASE \E r \in Runs : ScriptStep(r) \/ Execute(r)
    BY <1>1, ScriptInv, ExecuteInv
<1>2. CASE Tick \/ UNCHANGED demoVars
    <2>1. UNCHANGED <<plan, run, artifact, deploy, key, vaults, funds, purse>>
        BY <1>2 DEF Tick, demoVars, script, onChain
    <2>2. now' \in Nat
        BY <1>2 DEF Tick, demoVars, DemoInv, DemoTypeOK
    <2>3. DemoTypeOK' /\ ProgressInv' /\ TurnInv'
        BY <2>1, <2>2 DEF DemoInv, DemoTypeOK, ProgressInv, TurnInv, DoneUpTo, Untouched, Sealed,
                          Ended, PreFlight, StepOf
    <2>4. FoundInv' /\ KeyInv' /\ EnvelopeInv' /\ VaultInv' /\ FlowInv'
        BY <2>1 DEF DemoInv, FoundInv, KeyInv, EnvelopeInv, VaultInv, FlowInv, OkAt, Begun, Active,
                    PreFlight, Holds
    <2>. QED BY <2>3, <2>4 DEF DemoInv
<1>. QED BY <1>1, <1>2 DEF DemoNext

LEMMA DemoInvariant == DemoSpec => []DemoInv
BY DemoStart, DemoStep, PTL DEF DemoSpec

(* The demonstration keeps its state well formed, however late the deploys of *)
(* abandoned runs are executed (run-tier1.ts, live-tier1-ops.ts).             *)
THEOREM DemoTypeCorrect == DemoSpec => []DemoTypeOK
<1>1. DemoInv => DemoTypeOK
    BY DEF DemoInv
<1>. QED BY <1>1, DemoInvariant, PTL

(* A sealed run: its own vault, all its deploys as expected, nothing left.     *)
LEMMA SealedRuns ==
    ASSUME DemoInv, NEW r \in Runs, Sealed(r), plan.pay > 0
    PROVE  /\ run[r].vault = r /\ run[r].token \in Packages /\ r \in Packages
           /\ \A s \in DeploySteps : deploy[r][s].status = Expected(s)
           /\ \A s \in Payments : deploy[r][s].vault = r
           /\ vaults[r] # NoVault /\ vaults[r].token = run[r].token
           /\ vaults[r].paidTotal = plan.pay /\ funds[run[r].token][r] = 0
           /\ \A q \in Runs \ {r} : run[q].vault # r /\ run[q].token # run[r].token
<1>1. \A k \in 1 .. 11 : Steps[k] \in DeploySteps =>
            deploy[r][Steps[k]].status = Expected(Steps[k])
    BY DEF DemoInv, ProgressInv, DoneUpTo
<1>2. \A s \in DeploySteps : \E k \in 1 .. 11 : Steps[k] = s
    BY StepPlaces, DeployPlaces
<1>3. \A s \in DeploySteps : deploy[r][s].status = Expected(s)
    BY <1>1, <1>2
<1>4. {"installVault", "fund", "pay"} \cup Payments \subseteq DeploySteps
    BY DeployPlaces DEF Payments
<1>5. OkAt(r, "installVault") /\ OkAt(r, "fund") /\ OkAt(r, "pay")
    BY <1>3, <1>4 DEF Expected, OkAt
<1>6. run[r].vault = r /\ r \in Packages
    BY <1>5 DEF DemoInv, FlowInv, Packages
<1>7. vaults[r] # NoVault /\ vaults[r].token = run[r].token
    BY <1>5, <1>6 DEF DemoInv, VaultInv
<1>8. vaults[r].paidTotal = plan.pay
    BY <1>5, <1>7 DEF DemoInv, FlowInv
<1>9. run[r].step = 11 /\ run[r] \in RunRow
    BY DEF DemoInv, TurnInv, DemoTypeOK
<1>10. run[r].token \in Packages /\ run[r].token # Nothing /\ run[r].vault # Nothing
    BY <1>9 DEF DemoInv, FoundInv, RunRow, Found
<1>11. \A q \in Runs \ {r} : run[q].vault # r /\ run[q].token # run[r].token
    BY <1>6, <1>10 DEF DemoInv, FoundInv
<1>12. \A q \in Runs : ~ Holds(q, run[r].token, r)
    BY <1>5, <1>11 DEF Holds
<1>13. funds[run[r].token][r] = 0
    BY <1>6, <1>10, <1>12 DEF DemoInv, FlowInv
<1>14. ASSUME NEW s \in Payments PROVE deploy[r][s].vault = r
    <2>1. PICK k \in 6 .. 11 : Steps[k] = s
        BY StepPlaces DEF Payments
    <2>2. Expected(s) # "none" /\ s \in DeploySteps
        BY <1>4 DEF Expected
    <2>3. Begun(r, Steps[k]) /\ Steps[k] \in DeploySteps /\ k \in 1 .. 11 /\ k > 4
        BY <1>3, <2>1, <2>2 DEF Begun
    <2>4. deploy[r][Steps[k]].vault = run[r].vault
        BY <2>3 DEF DemoInv, EnvelopeInv
    <2>. QED BY <1>6, <2>1, <2>4
<1>. QED BY <1>3, <1>6, <1>7, <1>8, <1>10, <1>11, <1>13, <1>14

(* What the events file says happened on chain: for any number of runs and  *)
(* every plan that pays something, the vault named in it is the one its own *)
(* install deploy put there, which accepted the payment and refused the two *)
(* others for the reasons given (sealing of the events, run-tier1.ts).      *)
THEOREM RecordIsTrue == DemoSpec => []ArtifactIsTrue
<1>1. DemoInv => ArtifactIsTrue
    <2> SUFFICES ASSUME DemoInv, artifact # Nothing, plan.pay > 0
                 PROVE  LET r == artifact IN
                        /\ Sealed(r)
                        /\ run[r].vault = r
                        /\ deploy[r]["installVault"].status = "Ok"
                        /\ \A step \in Payments :
                            deploy[r][step].vault = r /\ deploy[r][step].status = Expected(step)
        BY DEF ArtifactIsTrue
    <2>1. artifact \in Runs
        BY DEF DemoInv, DemoTypeOK
    <2>2. PICK r \in Runs : artifact = r
        BY <2>1
    <2>3. Sealed(r)
        BY <2>2 DEF DemoInv, TurnInv
    <2>4. /\ run[r].vault = r
          /\ \A s \in DeploySteps : deploy[r][s].status = Expected(s)
          /\ \A s \in Payments : deploy[r][s].vault = r
        BY <2>3, SealedRuns
    <2>5. {"installVault"} \cup Payments \subseteq DeploySteps /\ Expected("installVault") = "Ok"
        BY DeployPlaces DEF Payments, Expected
    <2>. QED BY <2>2, <2>3, <2>4, <2>5
<1>. QED BY <1>1, DemoInvariant, PTL

(* Funding equals the accepted amount (run-tier1.ts): the vault of a sealed *)
(* run holds nothing and has paid exactly what its run put there.           *)
THEOREM SealedVaultsAreEmpty == DemoSpec => []SealedVaultIsEmpty
<1>1. DemoInv => SealedVaultIsEmpty
    BY SealedRuns DEF SealedVaultIsEmpty
<1>. QED BY <1>1, DemoInvariant, PTL

(* No later step touches the vault of a sealed run, its tokens or its      *)
(* counters: neither a re-run nor a deploy executed late.                  *)
LEMMA SealedVaultsStay ==
    ASSUME DemoInv, [DemoNext]_demoVars, NEW r \in Runs, Sealed(r), plan.pay > 0
    PROVE  vaults'[r] = vaults[r] /\ funds'[vaults'[r].token][r] = funds[vaults[r].token][r]
<1>1. /\ run[r].vault = r /\ run[r].token \in Packages /\ r \in Packages
      /\ \A s \in DeploySteps : deploy[r][s].status = Expected(s)
      /\ vaults[r].token = run[r].token
      /\ \A q \in Runs \ {r} : run[q].vault # r /\ run[q].token # run[r].token
    BY SealedRuns
<1>2. \A s \in DeploySteps : ~ Taken(r, s)
    BY <1>1 DEF Taken, Expected
<1>3. {"installVault", "fund", "allowAgent", "allowReceiver"} \cup Payments \subseteq DeploySteps
    BY DeployPlaces DEF Payments
<1>4. CASE UNCHANGED <<vaults, funds>>
    BY <1>4
<1>5. ASSUME NEW q \in Runs, ExecuteInstallVault(q)
      PROVE  vaults'[r] = vaults[r] /\ UNCHANGED funds
    <2>1. q # r
        BY <1>2, <1>3, <1>5 DEF ExecuteInstallVault
    <2>. QED BY <1>5, <2>1 DEF ExecuteInstallVault, DemoInv, DemoTypeOK, Packages
<1>6. ASSUME NEW q \in Runs, NEW s \in {"allowAgent", "allowReceiver"}, ExecuteAllow(q, s)
      PROVE  vaults'[r] = vaults[r] /\ UNCHANGED funds
    <2>1. q # r /\ UNCHANGED funds
        BY <1>2, <1>3, <1>6 DEF ExecuteAllow
    <2>2. r # run[q].vault
        BY <1>1, <2>1
    <2>. QED BY <1>1, <1>6, <2>1, <2>2, Allows
<1>7. ASSUME NEW q \in Runs, ExecuteFund(q)
      PROVE  UNCHANGED vaults /\ funds'[run[r].token][r] = funds[run[r].token][r]
    <2>1. q # r
        BY <1>2, <1>3, <1>7 DEF ExecuteFund
    <2>2. run[r].token # run[q].token
        BY <1>1, <2>1
    <2>. QED BY <1>1, <1>7, <2>2, Funds
<1>8. ASSUME NEW q \in Runs, NEW s \in Payments, ExecutePayment(q, s)
      PROVE  vaults'[r] = vaults[r] /\ funds'[run[r].token][r] = funds[run[r].token][r]
    <2>1. q # r
        BY <1>2, <1>3, <1>8, Zenon DEF ExecutePayment
    <2>2. r # run[q].vault
        BY <1>1, <2>1
    <2>. QED BY <1>1, <1>8, <2>2, Payouts
<1>9. ASSUME NEW q \in Runs, ScriptStep(q) \/ ExecuteInstallCep18(q)
      PROVE  UNCHANGED <<vaults, funds>>
    BY <1>9, ScriptForms DEF DemoInv, ExecuteInstallCep18
<1>10. CASE Tick \/ UNCHANGED demoVars
    BY <1>10 DEF Tick, demoVars, onChain
<1>. QED BY <1>1, <1>4, <1>5, <1>6, <1>7, <1>8, <1>9, <1>10 DEF DemoNext, Execute

(* What the artifact of a sealed run points at never changes afterwards: no *)
(* re-run and no deploy executed late pays from its vault or funds it again *)
(* (run-tier1.ts, live-tier1-ops.ts).                                       *)
THEOREM SealedVaultsAreFinal == DemoSpec => SealedVaultIsFinal
<1>1. DemoInv /\ [DemoNext]_demoVars =>
        [\A r \in Runs : Sealed(r) /\ plan.pay > 0 =>
            UNCHANGED <<vaults[r], funds[vaults[r].token][r]>>]_demoVars
    BY SealedVaultsStay
<1>. QED BY <1>1, DemoInvariant, PTL DEF DemoSpec, SealedVaultIsFinal

=============================================================================

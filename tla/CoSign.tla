------------------------------- MODULE CoSign -------------------------------
(***************************************************************************)
(* The human co-sign: what a user's own wallet is made to sign and pay for   *)
(* an intent, from the form that creates it to the hash recorded for it.     *)
(*                                                                          *)
(* An address is read four times by four rules: the form's shapes, the       *)
(* policy's allowlists, the builder's parsing and the chain.  The connected  *)
(* account is known in three places: the wallet's session, the page's copy   *)
(* of it, and what a co-sign under way captured when it was clicked.         *)
(*                                                                          *)
(* IntentApi has the API's handlers await by await and IntentConsole the     *)
(* page's polling and failures; here they are as coarse as what is signed    *)
(* and paid allows.  A transaction hash names one build (builds carry a      *)
(* millisecond timestamp), so each broadcast has a hash of its own.          *)
(***************************************************************************)
EXTENDS Integers

CONSTANTS
    Intents, Jobs, Hashes,
    Names,         \* what an address is an address of
    Accounts,      \* the user's accounts: public keys
    DemoReceiver, DemoPackage, DemoToken,   \* DEFAULT_DEMO_POLICY
    DemoCap, NativeCap,
    Operators,     \* what CASPILOT_NATIVE_RECEIVER may be set to
    Receivers, Contracts, Tokens, Amounts,  \* what can be typed into the form
    OtherBodies    \* what other clients send

(* Hex strings by their shape: "00", "01" and "02" are the two-character tags *)
(* in front of an address, "bare" has none, "account-hash" and "hash" are key *)
(* strings.  An ED25519 public key and a tagged contract address look alike.  *)
Tags == {"00", "01", "02", "bare", "account-hash", "hash", "word"}
Address == [tag : Tags, name : Names]
Amount == [form : {"digits", "decimal", "text"}, value : Nat]

Sentinel == [tag |-> "word", name |-> "native-cspr-transfer"]
Body == [token : Tokens \cup {"CSPR"}, contract : Address \cup {Sentinel},
         receiver : Address, amount : Amount]

IsPublicKey(address) == address.tag \in {"01", "02"}

ASSUME CoSignAssumption ==
    /\ Accounts \subseteq {a \in Address : IsPublicKey(a)}
    /\ DemoReceiver \in Address /\ DemoReceiver.tag = "00"
    /\ DemoPackage \in Address /\ DemoPackage.tag = "00"
    /\ DemoToken \in Tokens /\ DemoToken # "CSPR"
    /\ DemoCap \in Nat /\ NativeCap \in Nat
    /\ Operators \subseteq Address
    /\ Receivers \subseteq Address /\ Contracts \subseteq Address
    /\ Amounts \subseteq Amount
    /\ OtherBodies \subseteq Body

VARIABLES
    policy,    \* the policy the API runs with
    entry,     \* intent -> its entry in the API's map, Unused or Lost
    active,    \* the account of the wallet's session, or None
    account,   \* the page's copy of it (wallet-context.tsx), or None
    job,       \* the co-signs under way
    chain      \* hash -> the transaction broadcast under it, or None

vars == <<policy, entry, active, account, job, chain>>

None == [tag |-> "none"]
Unused == [state |-> "unused"]   \* the id is not minted
Lost == [state |-> "lost"]       \* the API restarted since
NoJob == [pc |-> "over"]

Exists(i) == entry[i] \notin {Unused, Lost}
StateIs(i, state) == Exists(i) /\ entry[i].state = state

-----------------------------------------------------------------------------
(* Policies. *)
DefaultPolicy ==
    [token |-> DemoToken, contract |-> DemoPackage, receiver |-> DemoReceiver, cap |-> DemoCap]

NativePolicy(receiver) ==
    [token |-> "CSPR", contract |-> Sentinel, receiver |-> receiver, cap |-> NativeCap]

(* Mutated form: the operator's receiver is not looked at. *)
StartsWithAny(p) == p = DefaultPolicy \/ \E r \in Operators : p = NativePolicy(r)

(* The server starts only with a native receiver that is a public key. *)
StartsWith(p) ==
    \/ p = DefaultPolicy
    \/ \E r \in Operators : IsPublicKey(r) /\ p = NativePolicy(r)

(* checkPolicyRules(): both policies allow one token, one package and one    *)
(* receiver, compared as strings, and an amount of digits within the cap.    *)
PolicyAllows(p, body) ==
    /\ body.token = p.token
    /\ body.contract = p.contract
    /\ body.receiver = p.receiver
    /\ body.amount.form = "digits"
    /\ body.amount.value <= p.cap

-----------------------------------------------------------------------------
(* The builder. *)
AccountKey(name) == [kind |-> "account", name |-> name]
ContractKey(name) == [kind |-> "contract", name |-> name]

(* recipientKeyString() *)
RecipientKey(receiver) ==
    IF receiver.tag \in {"00", "account-hash"}
    THEN AccountKey(receiver.name) ELSE ContractKey(receiver.name)

RecipientParses(receiver) == receiver.tag \in {"00", "01", "account-hash", "hash"}

(* bareHash(): 64 hex characters, or 66 with a tag in front. *)
PackageParses(contract) == contract.tag \in {"00", "01", "bare"}

SelfTransfer(body, payer) == body.token = "CSPR" /\ body.receiver = payer

NativeBuilds(body, payer) ==
    /\ body.receiver # payer
    /\ IsPublicKey(body.receiver)
    /\ body.amount.form = "digits"

Cep18Builds(body) ==
    /\ PackageParses(body.contract)
    /\ RecipientParses(body.receiver)
    /\ body.amount.form = "digits"

Builds(body, payer) ==
    IF body.token = "CSPR" THEN NativeBuilds(body, payer) ELSE Cep18Builds(body)

(* What the built transaction moves: native value to the account of a public *)
(* key, or tokens of a package to a key.                                     *)
Pays(body) ==
    IF body.token = "CSPR"
    THEN [asset |-> Sentinel, to |-> AccountKey(body.receiver.name), amount |-> body.amount]
    ELSE [asset |-> body.contract, to |-> RecipientKey(body.receiver), amount |-> body.amount]

-----------------------------------------------------------------------------
Init ==
    /\ StartsWith(policy)
    /\ entry = [i \in Intents |-> Unused]
    /\ active \in Accounts \cup {None}
    /\ account = None
    /\ job = [j \in Jobs |-> NoJob]
    /\ chain = [h \in Hashes |-> None]

(* The form: validate() on what is typed, then submit(). *)
FormAccepts(f) ==
    /\ IF f.native THEN IsPublicKey(f.receiver)
       ELSE f.receiver.tag = "00" /\ f.contract.tag = "00"
    /\ f.amount.form \in {"digits", "decimal"}

Submitted(f) ==
    [token |-> IF f.native THEN "CSPR" ELSE f.token,
     contract |-> IF f.native THEN Sentinel ELSE f.contract,
     receiver |-> f.receiver, amount |-> f.amount]

Forms == [native : BOOLEAN, receiver : Receivers, contract : Contracts,
          token : Tokens, amount : Amounts]
FormBodies == {Submitted(f) : f \in {f \in Forms : FormAccepts(f)}}

Create(i, body) ==
    /\ entry[i] = Unused
    /\ entry' = [entry EXCEPT ![i] = [state |-> "DRAFT", body |-> body, hash |-> None]]
    /\ UNCHANGED <<policy, active, account, job, chain>>

(* The policy's rules, then the day's cap, which depends on other intents.   *)
Validate(i) ==
    /\ StateIs(i, "DRAFT")
    /\ \E withinDay \in BOOLEAN :
        entry' = [entry EXCEPT ![i].state =
            IF PolicyAllows(policy, entry[i].body) /\ withinDay
            THEN "POLICY_VALIDATED" ELSE "REJECTED"]
    /\ UNCHANGED <<policy, active, account, job, chain>>

(* Somebody rejects the intent or marks it executed with a hash of his own,   *)
(* which goes to the audit trace only.                                       *)
Decide(i) ==
    /\ Exists(i) /\ entry[i].state # "REJECTED"
    /\ \/ entry' = [entry EXCEPT ![i].state = "REJECTED"]
       \/ StateIs(i, "POLICY_VALIDATED") /\ entry' = [entry EXCEPT ![i].state = "EXECUTED"]
    /\ UNCHANGED <<policy, active, account, job, chain>>

-----------------------------------------------------------------------------
(* The wallet: the session follows the extension; the page's copy is taken   *)
(* when the user presses connect, from the session or from a popup.          *)
SwitchAccount ==
    /\ active' \in (Accounts \cup {None}) \ {active}
    /\ UNCHANGED <<policy, entry, account, job, chain>>

(* The adapter's connect(): the session there is, or the one the popup makes. *)
Session == IF active # None THEN {active} ELSE Accounts

Connect ==
    /\ active' \in Session
    /\ account' = active'
    /\ UNCHANGED <<policy, entry, job, chain>>

-----------------------------------------------------------------------------
(* onSignAndSubmit(): the intent and the account are those of the click. *)
At(j, pc) == job[j].pc = pc
Goes(j, pc) == job' = [job EXCEPT ![j].pc = pc]
Ends(j) == job' = [job EXCEPT ![j] = NoJob]

ClickSign(j, i) ==
    /\ At(j, "over")
    /\ Exists(i) /\ account # None
    /\ job' = [job EXCEPT ![j] = [pc |-> "asked", id |-> i, payer |-> account]]
    /\ UNCHANGED <<policy, entry, active, account, chain>>

(* build-unsigned-deploy: unknown intent, policy, state and self-transfer are *)
(* refused, and the builder throws on what it cannot parse.                   *)
Refused(i, payer) ==
    \/ ~ Exists(i)
    \/ ~ PolicyAllows(policy, entry[i].body)
    \/ entry[i].state # "POLICY_VALIDATED"
    \/ SelfTransfer(entry[i].body, payer)
    \/ ~ Builds(entry[i].body, payer)

BuildAnswered(j) ==
    LET i == job[j].id IN
    /\ At(j, "asked")
    /\ IF Refused(i, job[j].payer) THEN Ends(j)
       ELSE job' = [job EXCEPT ![j] =
                [pc |-> "built", id |-> i, payer |-> job[j].payer,
                 pays |-> Pays(entry[i].body)]]
    /\ UNCHANGED <<policy, entry, active, account, chain>>

(* Mutated form: the signer is looked up again when the wallet is called. *)
SignerNow(j) == account

(* signAndSubmit() closes over the account of the same rendering as the click. *)
Signer(j) == job[j].payer

(* send(): the SDK refuses a signer that is not the session's account, before *)
(* it pops the wallet.                                                        *)
Send(j) ==
    /\ At(j, "built")
    /\ IF Signer(j) = active
       THEN job' = [job EXCEPT ![j] =
                [pc |-> "popup", id |-> job[j].id, payer |-> job[j].payer,
                 pays |-> job[j].pays, signer |-> Signer(j)]]
       ELSE Ends(j)
    /\ UNCHANGED <<policy, entry, active, account, chain>>

(* Mutated form: a status update wakes any send that waits for one. *)
WakesAnother(j, h) ==
    \E k \in Jobs :
        /\ At(k, "popup")
        /\ job' = [job EXCEPT ![k] = [pc |-> "handed", id |-> job[k].id, hash |-> h]]

(* The promise of this send() resolves with the hash of its status update. *)
HandsOff(j, h) ==
    job' = [job EXCEPT ![j] = [pc |-> "handed", id |-> job[j].id, hash |-> h]]

(* The user approves: the wallet signs with the key it was asked for and      *)
(* broadcasts.  Field "for" is not part of a transaction: it names the intent *)
(* whose co-sign this was.                                                    *)
Approve(j, h) ==
    /\ At(j, "popup")
    /\ chain[h] = None
    /\ chain' = [chain EXCEPT ![h] =
            [fate |-> "pending", payer |-> job[j].payer, signer |-> job[j].signer,
             pays |-> job[j].pays, for |-> job[j].id]]
    /\ HandsOff(j, h) \/ Ends(j)
    /\ UNCHANGED <<policy, entry, active, account>>

(* The user cancels, the wallet or a request fails, or the tab is closed. *)
GivesUp(j) ==
    /\ ~ At(j, "over") /\ ~ At(j, "node")
    /\ Ends(j)
    /\ UNCHANGED <<policy, entry, active, account, chain>>

(* confirm-onchain: an executed intent is echoed and any other state but one  *)
(* refused; then the node is asked.                                           *)
ConfirmArrives(j) ==
    /\ At(j, "handed")
    /\ IF StateIs(job[j].id, "POLICY_VALIDATED") THEN Goes(j, "node") ELSE Ends(j)
    /\ UNCHANGED <<policy, entry, active, account, chain>>

(* A finalized success is recorded, without another look at the state; a      *)
(* revert, or a wait that gives up, records nothing.                          *)
NodeAnswers(j) ==
    LET i == job[j].id
        h == job[j].hash
    IN  /\ At(j, "node")
        /\ \/ /\ chain[h].fate = "success"
              /\ entry' = [entry EXCEPT ![i].state = "EXECUTED", ![i].hash = h]
           \/ UNCHANGED entry
        /\ Ends(j)
        /\ UNCHANGED <<policy, active, account, chain>>

ChainDecides(h) ==
    /\ chain[h] # None /\ chain[h].fate = "pending"
    /\ \E fate \in {"success", "reverted"} : chain' = [chain EXCEPT ![h].fate = fate]
    /\ UNCHANGED <<policy, entry, active, account, job>>

(* The server restarts, perhaps with another policy: the map is empty and its *)
(* requests in flight are gone.                                               *)
Restart ==
    /\ StartsWith(policy')
    /\ entry' = [i \in Intents |-> IF entry[i] = Unused THEN Unused ELSE Lost]
    /\ job' = [j \in Jobs |-> IF job[j].pc \in {"asked", "node"} THEN NoJob ELSE job[j]]
    /\ UNCHANGED <<active, account, chain>>

Next ==
    \/ \E i \in Intents :
        \/ \E body \in FormBodies \cup OtherBodies : Create(i, body)
        \/ Validate(i) \/ Decide(i)
    \/ SwitchAccount \/ Connect
    \/ \E j \in Jobs :
        \/ \E i \in Intents : ClickSign(j, i)
        \/ BuildAnswered(j) \/ Send(j) \/ GivesUp(j)
        \/ \E h \in Hashes : Approve(j, h)
        \/ ConfirmArrives(j) \/ NodeAnswers(j)
    \/ \E h \in Hashes : ChainDecides(h)
    \/ Restart

Spec == Init /\ [][Next]_vars
-----------------------------------------------------------------------------
(* Whoever signs pays: no transaction is broadcast with another account's     *)
(* signature than its initiator's, whatever accounts the user switches and    *)
(* connects between the click and the signature ("signed AND paid from their  *)
(* own key", router.ts:379-380).                                              *)
SignedByPayer == \A h \in Hashes : chain[h] # None => chain[h].signer = chain[h].payer

(* What the intent's creator asked for: this amount, of this asset, to the    *)
(* account that the form's labels say an address stands for.                  *)
Asked(body) ==
    [asset |-> IF body.token = "CSPR" THEN Sentinel ELSE body.contract,
     to |-> AccountKey(body.receiver.name), amount |-> body.amount]

(* While all clients report the hashes their wallets gave them, the hash on   *)
(* record for an intent is of a transaction that succeeded, pays what the     *)
(* intent asks for and pays no other intent, although confirm-onchain reads   *)
(* neither the transaction's receiver nor its amount.                         *)
ConfirmedPaysIntent ==
    \A i \in Intents : Exists(i) /\ entry[i].hash # None =>
        LET h == entry[i].hash IN
        /\ chain[h] # None /\ chain[h].fate = "success"
        /\ chain[h].pays = Asked(entry[i].body)
        /\ \A k \in Intents \ {i} : Exists(k) => entry[k].hash # h

(* The policy admits nothing that the builder cannot build: for a validated   *)
(* intent the unsigned transfer is refused to no account but, natively, the   *)
(* receiver's own, whichever policy the server was started with.              *)
AdmittedIsBuildable ==
    \A i \in Intents, payer \in Accounts :
        StateIs(i, "POLICY_VALIDATED") /\ Refused(i, payer) =>
            SelfTransfer(entry[i].body, payer)
=============================================================================

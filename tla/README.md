# Caspilot: verification project

Caspilot lets an agent propose payments on the Casper network. A payment intent is checked against a
policy, holds budget in a ledger, is signed (by a guarded signer or by a human's wallet), is executed
on chain, and leaves an audit trace. An on-chain vault enforces the same kind of policy a second time.

This directory holds TLA+ models of the parts that decide anything, the TLC configurations that check
them, and machine-checked proofs about most of them. `PROJECT.json` maps every definition to the source
lines it models, lists the runs, the mutations each property detects, the hazards and the findings.

    tlc -workers 2 -config MCPolicyVault.cfg MCPolicyVault     # one run
    tlapm PolicyVaultProofs.tla                                # one module's proofs

## 1. Inventory

| Component | State it keeps | Operations | Talks to |
|---|---|---|---|
| PolicyVault contract (`contracts/policy-vault`) | owner, agents, receivers, caps, expiry, day counter, total, replay map | init, allow/revoke, set_limits, set_valid_until, expire_now, pay, views | CEP-18 token (transfer) |
| Spend ledger (`packages/signer-guard/src/spend-ledger.ts`) | SQLite table, one row per intent: reserved, committed or released | reserve, commit, release, releaseExpired, queries | called by the API, the guard and the vault projection |
| Vault projection and pages (`apps/api/src/vaults`, `VaultsListView`, `VaultDetailView`) | a page's one answer | list, detail, drawing the meter | ledger, the policy in force |
| SignerGuard (`packages/signer-guard`) | none of its own | authorize | ledger, raw signer |
| Intents API (`apps/api/src/intents`) | in-memory map of intents; audit rows in SQLite | create, validate-policy, mark-executed, build-unsigned-deploy, confirm-onchain, reject, reads | ledger, audit store, deploy adapter |
| Audit trace (`packages/audit-trace`) | append-only SQLite rows | append, list (ordered by time, then insertion) | API |
| Deploy adapter (`packages/adapters/src/casper-deploy.ts`) | none; a wait is a loop in flight | submit, await finality | Casper node |
| Deploy builders (`packages/adapters/src/deploy-builder.ts`, `cep18.ts`) | none | build a transfer, refuse what cannot be parsed | API, demonstration |
| x402 gateway, payment ledger (`packages/x402-gateway`, `packages/payment-ledger`) | SQLite table with two unique constraints | verify, settle | facilitator |
| Tier-1 demonstration (`apps/harness`) | a script's progress; one artifact file | plan, install, fund, pay, provoke two refusals, write | deploy adapter, state reader, vault |
| Console page, intents page, creation form (`ConsoleView`, `IntentsListView`, `NewIntentDrawer`) | rows, one list request, a creation in flight | load, filter, create, open | API |
| Page of an intent (`IntentDetailView`, `use-intent-trace`) | per tab: rows shown, poll timer, busy flag, status of a co-sign | poll, validate, co-sign, mark executed, reject | API, wallet |
| Wallet connection (`wallet-context.tsx`, `click-adapter.ts`) | the session's account and the page's copy of it | connect, send | CSPR.click |
| Read-only adapters, canonical JSON, intent-fsm table, start-up, scripts, static views | none that is read to decide | pure functions, one-shot reads, text | |

How they interact. The console (or an agent) sends requests to the API; the API reserves budget in the
ledger, commits it when the chain confirms an execution and releases it on rejection; every decision is
an audit row, which the page of an intent polls. The API also builds the unsigned transfer that a user's
wallet signs and broadcasts, and is told the hash afterwards. The vault pages show the ledger's rows of the
policy the API was started with. The guard reserves in the same way around a server-side signature. The
Tier-1 script goes to the chain directly and meets the vault, whose package it finds by the deployer's
named keys.

Which behaviours are hard. API handlers interleave at their awaits (a request body, a ledger promise, up
to a minute of polling the node) over a map that another handler may have changed. Restarts lose the map
but not the tables, and may bring another policy. Deploys, once submitted, are executed whenever the chain
likes, also after the caller gave up. A node's failed call looks like an unknown hash. The facilitator may
have charged when its answer is lost. The vault resets its day counter lazily while its limits may change in
mid-day. Two tabs and a wallet popup act on one intent without a lock, while the user switches accounts; a page
that is left goes on signing and confirming, and the page opened in its place does not know of it. An
address is read by the form, the policy, the builder and the chain by four rules. Lists, creations and
navigations are answered in any order, and clocks of pages and of the API fall on two sides of midnight.

What makes each part correct:

* vault: no more than the limit leaves it in a day, no payload is paid twice, its books match what left
  it, nothing is paid after `expire_now`;
* ledger: reserved plus committed never exceed the day's cap; a settled row is final;
* vault pages: meter, debits and warnings of the vault shown agree, and what a page once showed as committed
  stays counted;
* guard: no signature without budget, none twice, no budget stuck without a cause;
* API: what is executed was validated, fits the cap and stays committed; terminal states are final; the
  trace ends in the state the API is in; budget is committed for executions only;
* adapter: a report is what the chain decided, and every wait ends;
* gateway: at most one authorization of a nonce is ever accepted; what is charged is on record;
* demonstration: what the artifact says happened on chain, and stays so;
* intents pages and form: no row that was not recorded, none twice, an idle form is done, counters are true;
* page of an intent: what it says agrees with the record, and a broadcast payment reaches the API, also when
  the page is left meanwhile;
* wallet and builder: who signs pays, a confirmed hash pays its intent, and what the policy admits can be built.

## 2. Modules

| Module | Models | Composition |
|---|---|---|
| `DailyBudget` | what a vault promises, free of its book-keeping | implemented by `PolicyVault` |
| `PolicyVault` | the contract | |
| `SpendLedger` | the ledger's table | instantiated by `IntentApi` and `SignerGuard`, extended by `VaultPages` |
| `VaultPages` | the API's writes under one policy, its restarts with another, the projection, the two pages | extends `SpendLedger`; implements its specification |
| `SignerGuard` | authorize() and its signer | over `SpendLedger` |
| `IntentApi` | the API's handlers, map, audit rows | over `SpendLedger` |
| `X402Gateway` | the gateway with its payment ledger and facilitator | |
| `FinalityWait` | what waiting for a deploy promises | implemented by `DeployObserver` |
| `DeployObserver` | awaitDeployFinalized() and the node | |
| `Tier1Demo` | the script, its deploys, the chain | instantiates `PolicyVault` per installed vault |
| `IntentConsole` | the page of one intent, per tab; its wallet; the API seen from it | has a one-intent reduction of `IntentApi` of its own |
| `IntentPages` | the console page, the intents page and its form | has the API reduced to states and times |
| `CoSign` | form, policy, builder, wallet session, broadcast and confirmation of transfers | has `IntentApi` and `IntentConsole` reduced to what is signed and paid |
| `MC*` | model values and bounds for TLC | one per module checked |
| `SumLaws` | lemmas about sums over finite sets, and induction over them | extended by the proofs that need it |
| `PaymentProofs` | theorems about `X402Gateway`, `CoSign`, `Tier1Demo` and `DeployObserver` | extends the first three, instantiates the last as `Wait` |
| other `*Proofs` | theorems about `PolicyVault`, `VaultPages` (with `SpendLedger`), `SignerGuard`, `IntentApi`, `IntentConsole`, `IntentPages` | each extends the module it is about and `TLAPS` |

Definitions called "mutated form" in a comment are not part of any specification: each is a plausible bug
that the property named in `PROJECT.json` must detect.

### How state and actions correspond to the code

*PolicyVault.* The variables are the contract's `Var`s and `Mapping`s by name. Each entry point is an action
that stands for a call that succeeds; a call that reverts is rolled back by the host and so changes
nothing. `PayVerdict` holds the order of `pay()`'s checks, each with the error it raises. `spentOn`,
`timesPaid`, `deposited` and `stopped` record what really happened, apart from the vault's own books.

*SpendLedger.* `rows` is the table, a function of the intent because of `UNIQUE(intent_id)`. `Reserve`
is one synchronous transaction: cap first, uniqueness second, as in the code.

*VaultPages.* `policy` is the policy the process runs with, which a restart may change over the same table: its
key (role, signer and token), under which the ledger files rows, and its terms, the receivers. A vault's id is
the digest of the whole policy, so two vaults may share a key; that digests do not collide is an assumption
(`PagesAssumption`). All policies of the model have one pair of caps: in the code each key has its own, but a
key's rows only ever meet the caps of that key. `page` is the page on screen with the answer to its one request;
a page that is left takes its request along, because the effect's clean-up drops the answer and reading changes
nothing. `Newest` is the query behind the debits: live rows of the key, of any day, cut at a limit, ties in any
order. `Card`, `SpendMeter` and `Screen` are what is drawn, in tenths of a percent. `seen` is history: the
debits that were shown as committed.

*IntentApi.* `entry` is the map, `trace` the audit rows, `request` the handlers suspended at an await with
what they carry across it. Everything between two awaits is one action. `Restart` forgets `entry` and
`request` and keeps `rows` and `trace`. Two constants say how much is asked of clients:
`OneRequestPerIntent` (no second request for an intent before the answer to the first) and `LedgerYields`
(whether another handler may run at the await of an already resolved ledger promise).

*SignerGuard.* `signing` holds the calls waiting for a signature. Requests bring their own policy, so the
ledger is instantiated per cap.

*X402Gateway.* (Its specification is called `GatewaySpec`, so that one module can extend it beside `CoSign`.)
`call` holds calls waiting for the facilitator, whose answer may be yes, no, or lost after it charged. `payment`
is the ledger's table, `charged` the nonces settled on chain.

*DeployObserver.* `wait` is the loop of a call: which request it is in, its attempt, and its report.
`stage` and `kind` are the node's and the hash's.

*Tier1Demo.* `run` is the script's program counter and the packages it recovered; `deploy` holds each
step's deploy from submission to its verdict; `key` the deployer's named keys; `vaults`, `funds`, `purse`
the contracts' state. Verdicts of payments are `PolicyVault`'s own `PayVerdict`. A `plan` is an environment the
script is started with; its field `faults` says whether waits may fail and script and chain may lag in it.
A submission may be refused offline, before it reaches a node (`RefusedOffline`), or lose its answer after it
did (`SubmitLost`).

*IntentConsole.* `tab` is a tab's hook and panel (`poll`: its loop; `shown`: how many rows of the trace it last
saw; `busy` and `status`: the state its jobs share), `job` one `run()` of `IntentDetailView`, with the point its
promise chain has reached, `request` what the API holds of it. A click, a wallet event, an answer and a poll are
one action each. `LeavePage` is navigation inside the app: the clean-up stops the poll, and the jobs go on, no
longer `mounted`, so that their end changes nothing on screen. `OpenPage` mounts the page anew, with a busy flag
of its own that knows of no job. `CloseTab` closes the tab or loads a page anew, and only it cuts jobs short. Which
hash a transaction gets does not matter, so the wallet takes the next (`NextHash`). `Page(t)` is what the tab
draws: the rail of states and its off-ramp (`FsmStepper`), the proof panel with its link, and the live mark. The
API's handlers are the ones of `IntentApi` without the ledger, one step each; only `confirm-onchain` is split at
its wait for the node, where the page's hazards are. `toConfirm` and `smooth` are history: the hashes a living
tab still has to pass on, and whether no job failed and nobody acted behind a job's back (in another tab, by
validating, rejecting, closing the tab or coming back to the page).

*IntentPages.* `page` is the view on screen with its rows, its one list request and its form; `posts` are the
creations, each with whether the page that asked for it is still there (`mine`); `leaving` says that the router
was told to go to a new intent. `intents` is the API's map reduced to states and times, `audit` what was
recorded. Every change of a page's state renders it anew and reads the clock (`renderedAt`). `early` is
history: the form was used before the list came.

*CoSign.* An address is a shape (its tag) and what it names, so that the form's, the policy's, the builder's and
the chain's reading of it can differ as they do in the code. `active` is the wallet session's account,
`account` the page's copy, and `job` keeps the account and the intent of the click. A `Restart` comes up with
the default or the native policy. Broadcasts carry their initiator, their signer and what they move; the field
`for` is history.

## 3. Runs

| Run | Question | Bounds |
|---|---|---|
| `vault` | do the books match what left the vault; does it implement the daily budget | one agent, two receivers (one is the vault), 3 hashes, `MaxU256` 3, three days (`MaxTime` 4, `DayLen` 2) |
| `pages` | does the cap hold in every order of reservations, settlements, sweeps and restarts; does the vault on screen add up, and count what was once shown as committed | 3 intents, 2 keys with 2 policies each, amounts 2 and 3, `DayCap` 5, `MaxSingle` 3, `RecentLimit` 2, two days of one instant each |
| `guard` | can a signature exist without budget | 3 intents, caps 1 and 2, two calls waiting, two days |
| `api` | clients that wait for answers: executions, budget, trace, terminal states | 2 intents, 2 requests in flight, one deploy, two days |
| `api_over_cap` | disagreement, see section 6 | one day, ledger promises resolved at once |
| `x402` | replay protection and the link from ledger to chain | 3 authorizations, two of one nonce, `MaxCalls` 3 each, 2 slots |
| `x402_reconcile` | disagreement, see section 6 | 1 slot |
| `observer` | do waits end, is the abstract wait implemented (so that reports are true) | 2 hashes of any kind, 2 waits, `MaxAttempts` 3 |
| `tier1` | is the artifact true however late deploys of abandoned runs execute; does a sound plan always reach it | `NRuns` 3; two environments with faults, every environment of amounts 0 to 3 without |
| `console` | does the page agree with the record, pass on what was broadcast though it is left, let an undisturbed user pay once, and come to show the end | 2 tabs, 2 transactions, `MaxJobs` 2 |
| `intents_pages` | are rows real and shown once, is an idle form done, are the counters true | 2 ids, `MaxPosts` 2, one midnight (`MaxTime` 1, `DayLen` 1) |
| `cosign` | who signs, what is paid, can what is admitted be built | 2 intents, 2 co-signs, 2 hashes, 2 accounts, both policies, addresses of the shapes that differ |

Why the bounds are enough to show what they should. Budgets: two payments that fit alone and not together need
two intents and a cap below their sum; in `pages` a third, and a limit of two, makes the list of debits leave
one out, and amounts 2 and 3 against a cap of 5 meet the cap exactly and cross the thresholds of the meter. A
row can be shown, swept and shown again, by a page of the same id and of the other id of its key. Days: every
hazard is about one midnight, and the vault's lazy reset about a day without payments between two with, hence
three days there. Integers: `MaxU256` is small so that the sums do overflow. Races: every hazard of the API is
between two handlers of one intent, or between them and one other intent. Runs of the script: an abandoned run,
one that may be abandoned too, and the one that seals. Console: a double payment needs two jobs, of one page, of
two tabs, or of a page left and opened again. Pages: a second creation is needed for one that meets the first's
answer, and a second intent for one that others made. Co-signs: one intent's hash for another, and one account's
signature for another, need two of each. `MaxAttempts`, `MaxCalls`, `MaxTime`, `MaxJobs`, `MaxPosts` and `NRuns`
are the only caps on counters; each is a guard or a range named after its constant.

`CHECK_DEADLOCK FALSE` is set where the bounded clock, calls or intents run out and nothing is left to do.

### Fairness

Only three modules state it.

* `DeployObserver`: a wait never stops between two steps, because every call is ended by an answer, an error
  or its 8 s abort timer (`rpc-fetch-handler.ts`) and every sleep by its own timer: `WF_vars(WaitStep(w))`.
  Nothing is assumed of the node.
* `Tier1Demo`: the script always goes on, because its waits end: `WF_demoVars(ScriptStep(r))`. That the chain
  executes a submitted deploy is assumed only of plans without faults, `WF_demoVars(~plan.faults /\ Execute(r))`,
  which are the ones asked whether a sound plan is carried through.
* `IntentConsole`: the poll's timer fires (`WF_vars(PollAgain(t))`), and a poll that is repeated for ever is
  answered at last (`SF_vars(PollAnswered(t))`: blips may be any number but not all). Nothing is assumed of
  the user, the wallet, the chain or the other requests.

## 4. Proofs

Every theorem is about all values of the constants that satisfy the named assumption of its module:
any number of intents, hashes, slots, signers and calls, any horizon and day length. Each module proves its
types (`TypeCorrect`); every other theorem follows from an inductive invariant that contains them.

`PolicyVaultProofs` (assumes `VaultAssumption`):

* `TypeCorrect`: the types, and that the limits in force are always a legal pair;
* `BooksCorrect`: the inductive invariant `IInv`, the conjunction of `TypeOK`, `BooksInv` (the stored day is
  not in the future, the stored counter is what left on that day, nothing left on later days), `NonceOnce` and
  `FundsAccounted`. `DayBookExact` alone is not inductive: it speaks of today, and after midnight it holds
  only because nothing can have left on a day not yet reached, which is what `BooksInv` adds;
* `DayBook`, `NonceOnlyOnce`, `FundsAreAccounted`: its consequences that the `vault` run checks;
* `DailyLimitHolds`, `StopIsKept`: action properties, from `IInv` and the fact (`OnlyPaySpends`) that no
  other entry point moves tokens out;
* `Refinement`: every step of the vault is a step of `DailyBudget` or leaves it unchanged, under the
  mapping that reads the counter as 0 once the stored day is past.

`SumLaws` is what the proofs about budgets rest on. A day's spend is a sum over a finite set of rows, a fold
over a recursive function, and the library's induction theorems cannot be instantiated here. The laws are
proved by its least-element form: of the subsets of a finite set that break a law one would be minimal (strict
inclusion of finite sets is well-founded), and its parts keep the law (`SubsetInduction`). From it: a sum of
naturals is a natural, taking an element out takes its term out, sums over fewer or smaller terms are smaller.

`VaultPagesProofs` (`LedgerAssumption`, `PagesAssumption`):

* `SettlementIsFinal`: no statement of the ledger changes a committed or released row; it needs no more than the
  types, because every update names the status it expects and the insert needs the row to be missing;
* `CapIsNeverPassed`, for any callers: inductive with the types, because only a reservation adds a term to a
  day's sum, after the check, and every other statement drops terms or keeps them;
* `PagesKeepTheLedger`: the API with its restarts and pages implements the ledger's specification, so that what
  the ledger promises any caller (`SettledUnderPages`, `CapUnderPages`) holds under them;
* `WhatWasShownIsKept`: what a page showed as committed is committed and stays so, because no statement leaves that
  status (`KeptInv`: every debit seen, and every debit an answer on its way lists as committed, is a committed row
  still); and the vault on screen counted, when it was read, all that had been shown of its key and day until
  then. No answer on its way can be older than what was shown, for one page is on screen at a time;
* `MetersMatchDebits`: the vault shown adds up because it did when it was read. The debits listed are some of the
  rows counted, and all of today's when the list is not full or a row of an earlier day made it, for rows come
  newest first and are filed under the day they were made on (`RowDays`).

`SignerGuardProofs` (`GuardAssumption`): `NeverSignedTwice`, `SignaturesHoldBudget` and `NoBudgetLeaks`.
The three are not inductive alone: when a signature comes back, nothing in them says that the intent was
unsigned and its row still open. `WaitingInv` adds that a call waiting for the signer is the only one of its
intent, holds its open row, and that the intent has no signature; it is kept because an intent gets one row
in its life, whatever the policy of the request. `NoCapIsOverrun` is about the one step that reserves: the sum
that was checked with the amount is the sum the table has afterwards.

`IntentApiProofs` (`ApiAssumption`). For any clients, races and restarts, also the ones that make the API
exceed its cap:

* `NoExecutionSkipsTheGate`. A handler checks the state before an await and records after it, so the check
  may be stale when the record is made. What cannot be undone meanwhile is the audit row: `GateInv` says that an
  intent in an executable state, and one with a request that has passed the check, has its POLICY_VALIDATED
  row, and rows are only ever appended. `InFlightExists` (a request in flight has its intent in the map: a
  restart loses both) is needed for the types. `HandlerForms` reduces the fifteen handler steps to two shapes,
  waiting and recording.
* `CommitIsForAnExecution`. `CommitInv` ties a committed row of a living intent to an execution on record or to
  the one request between the ledger's write and the audit's; and, since a fresh id must have no row, says that
  every intent with an entry or a row has a trace.
* `TableWithinCap`: the table itself never holds more than a day's cap. What `api_over_cap` shows is therefore not
  a fault of the ledger, but of executions whose budget was given back.

For clients that send no second request for an intent before the answer to the first (`OneRequestPerIntent`, a
hypothesis of each theorem: racing requests do break these, as section 6 says): `BudgetIsKept`,
`NeverExecutedTwice`, `TraceEndsInState`, `TerminalStatesAreFinal` and `ExecutionsWithinCap`. None of them is
inductive, for each speaks of intents at rest. `WaitingInv` says for every intent, at rest or with its one request
in flight, which status its row has for the point the request has reached and the state it is in (`RowFollows`),
what the last audit row is and that an execution was recorded at most once and is the only thing that can still be
recorded (`TraceFollows`), and that times on the trace are no later than the one a handler carries
(`TimesFollow`, without which an insertion would not go to its end). `ExecutionsWithinCap` adds `TableWithinCap`:
executed amounts are a part of the committed ones of the day.

`IntentConsoleProofs` (`ConsoleAssumption`), for any tabs, jobs and transactions:

* `ReportedHashesAreKept`, from `KeptInv`: a hash reported and not yet sent is with a job in the state "handed", and
  such a job leaves that state only by sending it or with its tab (leaving the page changes no job but for
  `mounted`);
* `PagesAreTrue`: a page says verified only if an execution is on record, a kind is only ever of a transaction
  that succeeded, the rail agrees with the proof, and the live mark with the loop. It does not say that the
  chain was asked for the hash shown (section 6). What a page shows is a prefix of rows that are never changed,
  so the invariant speaks of rows (`RowsInv`: the rows with a hash are the executions, one with a kind is of a
  transaction that succeeded), of the loop (`PollInv`: a poll that stopped has seen a final row or a 404, and
  one that goes on has not) and of answers (`AnswerInv`: a confirmation answered well has an execution on
  record, and so has a tab that says verified). `SentInv` is what requests and jobs have to do with one another;
* `PaymentsAreRecorded`. Nothing in the code keeps two co-signs apart but a tab's busy flag, so paying once is an
  invariant of undisturbed histories (`PaidInv`, under `smooth`): one job at a time, its page busy or left
  (`OneJob`); a job
  that may still be paid or confirmed is of an intent the API holds validated (`JobInv`), so that no execution is
  on record (`FreshInv`); and the one broadcast transaction is carried by that job or on record (`ChainInv`). A
  second payment would need a job in the wallet's popup, which has no hash, while the first one is neither on
  record nor carried by another job (`PopupIsFirst`).

`IntentPagesProofs` (`IntentPagesAssumption`):

* `RowsOnScreenAreReal`, for which `RowsInv` says that whatever can still reach the screen (an entry of the map, a
  list on its way, the answer to a creation) is recorded;
* `IdleFormIsDone`, for which `FormInv` adds that at most one creation of the page is in flight, and that the
  list was there before the first of them unless the form was used early, so that no list can overwrite it;
* `NoIntentIsListedTwice`, for which `OnceInv` says that the list on its way has one row for each intent, and that
  what a creation in flight has minted is on no list of its page yet, unless the form was used early;
* `CountersAreTrue`, for which `AuditInv` says that an intent is recorded in each state at most once and only in
  states up to its own, and `ConsoleInv` that the console's rows are rows of the audit trail: the form, which
  prepends rows with states of its own, is not on that page.

`PaymentProofs` has four parts that share nothing but the chain.

* The gateway (`GatewayAssumption`): `NoReplay`, from `RowsInv` (the rows are an injection into nonces,
  and an authorization is accepted exactly when its row is made); `SettledRowsWereCharged`, and, if callers
  verify before they settle (`VerifyFirst`), `ChargesAreRecorded`. The link between chain and ledger is a call in
  flight, so the invariant says of those (`CallsInv`) that they settle recorded authorizations only and that a
  confirmed one was charged.
* The co-sign (`CoSignAssumption`): `WhoSignsPays`, `ConfirmedHashPaysIntent` and `AdmittedCanBeBuilt`. A payment
  is followed from the click through the built transfer and the transaction to the entry (`JobsInv`, `ChainInv`,
  `RecordInv`) by the intent it was built for. That it pays what was asked needs the policy: a validated intent
  was allowed by the policy in force (`ValidatedAllowed`: a restart loses both the intents and their policy), and
  what a policy of the code allows is read alike by builder and chain (`AllowedIsAsked`) and can be built
  (`AllowedBuilds`). A lost id is never minted again, which is why a transfer that outlives a restart is
  recorded nowhere.
* The wait (under `WaitConstants`, which is what `DeployObserver` assumes): `ReportsAreTrue` is inductive with the
  types, since a stage with a result is never left; `Refinement` is the safety part of `ImplementsFinalityWait`:
  every step is a step of `FinalityWait` under the mapping from stages to verdicts and from loops to outcomes, or a
  stutter.
* The demonstration (`DemoAssumption`): `RecordIsTrue`, `SealedVaultsAreEmpty` and `SealedVaultsAreFinal`, for
  any number of runs and any plans that pay something. `ProgressInv` and `TurnInv` say that the deploys of a run
  are begun in the order of its steps, that a step left behind ended as expected, and that one run is active at
  a time (its predecessors' deploys may still be pending). The hard part is the named key, which an install of
  an abandoned run may take over between a later run's install and its read, so a run may well drive a vault it
  did not install. `KeyInv` and `FoundInv` say that two runs never find the same package: a key that an active
  run's install has taken leads to no package of another run, because an install succeeds once. The foreign
  vault therefore pays with a token the run does not have: `FlowInv` follows the tokens (a vault holds a payment
  exactly if the run that found both the vault and its token funded it and has not paid yet), so that payment is
  refused and the run fails. The payment's verdict is `PolicyVault`'s own `PayVerdict`, of which the proof uses
  that an accepted payment has an allowed receiver, no more than the cap, and the balance for it; that the two
  other payments are refused follows from the allowlist and the pre-flight.

Only model-checked: liveness (`EveryWaitEnds`, `HealthyRunsSeal`, `FollowsTheApi`) and the fairness part of the
abstract wait, which are out of the prover's reach. Every invariant and every action property of a passing run is
stated by a theorem.

## 5. What the models leave out

Cryptography: signatures, hashing, canonical JSON and serialisation are taken as faithful (equal digest, equal
content), and two builds are taken to have two hashes, because each carries a timestamp of a millisecond. The
x402 header codec, the redactor, the read-only adapters with the boot check that runs them, the seed and
dry-run scripts, the static views and the page chrome keep no state that any decision reads: nothing to check
beyond what a unit test sees. The contract's events and views only report. The CEP-18 token is external: a
plain ledger that calls nothing back. The table of `intent-fsm` is called by no other part.

Of the modelled parts: `ArtifactIsTrue` and its companions are stated for payments above zero (a payment of
zero is refused nowhere and moves nothing, so it cannot tell two vaults apart). `IntentConsole` takes the rows
of the trace in the order of their appends; that the trace ends in the state the API is in is `TraceShowsState`
of `IntentApi`. Its wallet is connected and the live co-sign is wired; connecting is `CoSign`'s. `IntentPages`
leaves out search, toast and relative ages, `VaultPages` the countdown to midnight. That a tab closed, or a wallet
that lost its answer, between broadcast and `confirm-onchain` leaves a payment nobody reports is in the model,
and no property covers it: the client keeps no record and the API watches no chain, so nothing could hold. So it
is with the other hazards of `PROJECT.json` that carry a note and no property: the models contain them, the code
does not prevent them, and the note names the premise or the disjunct by which a property steps around them.

## 6. Findings

1. `api_over_cap`: a rejection served while a confirmation polls the node releases budget that another
   intent then spends; both are executed and the cap is exceeded. The confirmation also writes EXECUTED over
   REJECTED, although REJECTED is terminal (`TerminalIsFinal` is therefore checked for clients that wait).
2. `x402_reconcile`: a settle repeated after a success marks a charged payment failed.

Observations without a run of their own:

* a reject that ends during a co-sign clears the busy flag both share (`IntentDetailView.tsx:73`), and the sign
  button then starts a second co-sign beside the first, although the flag "disables the primary action
  mid-submit" (`ActionsPanel.tsx:10`); `PaidOnceOnRecord` excludes it by its premise;
* the busy flag is the mounted page's (`IntentDetailView.tsx:55`), while `run()` outlives it (`:65-111`): a user who
  leaves the page during a co-sign and comes back, all in one tab and without an error, is offered Sign again while
  the first popup is open, and may pay twice. TLC finds it (click, leave, open, click, two
  broadcasts) once `OpenPage` leaves `smooth` alone; `PaidOnceOnRecord` excludes it by its premise;
* the debits panel is headed "today" and "against the day cap" (`RecentDebits.tsx:5,12`), but the query behind it is
  of any day; hence the restriction to the vault's day in `AddsUp`;
* a creation answered after the user left its page still takes the user to the new intent; and a list answered
  after an early creation overwrites its row or shows it twice, which `EachIntentOnce` and `FormTellsTheTruth`
  exclude by `early`;
* when the list cannot be loaded, the intents page says so above "No intents yet", and the vault list does the
  same; the console page does not;
* the panel says it takes "a real 64-hex casper-test deploy hash so the on-chain proof link can never be
  fabricated" (`ActionsPanel.tsx:8-9`), but only the form of the hash is tested (`:28`, `router.ts:212-219`):
  the proof panel shows VERIFIED, with a link, for any hash a client gives to `mark-executed`; and
  `confirm-onchain` of an executed intent answers ok whatever the hash, so the page may call verified a
  transaction nobody checked; `PageIsTrue` says what is left to say, that the intent's execution is on record;
* an executed intent can be rejected, which adds a row to a trace the page calls sealed
  (`ActionsPanel.tsx:62`) and, having stopped polling, never shows;
* `confirm-onchain` compares neither receiver nor amount, so any finalized deploy confirms any validated intent;
  `ConfirmedPaysIntent` holds of clients that report the hash their wallet gave them;
* the builder takes a `01` receiver of a token transfer for a contract and of a native one for a public key; only
  the policies the server can start with keep the two apart;
* the form accepts decimal amounts, which every policy rejects;
* a restart forgets every intent, although `apps/api/src/index.ts:8` says their state survives;
* `releaseExpired` is called by no code, so a reservation cut off by a restart stays
  (`docs/development-status.md` says "until restart", but the table outlives it).

## 7. Plan

Done: the vault and its proofs (the contract decides about money), ledger, guard, API, gateway, deploy adapter,
demonstration, the page of an intent; then the vault pages over the ledger, the intents pages and their form,
the co-sign from address to confirmation, and the proofs of all their safety properties. What is left:

1. an abstract specification of an intent's life that `IntentApi` implements for clients that wait, in the
   place of its weaker properties: `WaitingInv` has what its refinement needs;
2. the guard and the API over one ledger: the start-up gives both the same one (`deps.ts:97-111`), but no handler
   calls the guard yet.

# A TLA+ model of Alterford

Alterford runs prediction markets, bounties and challenges on an EVM chain (`src/packages/contracts`), with an off-chain
gateway that sponsors transactions and handles Monero (`src/packages/gateway`), an indexer that projects the contracts'
events (`src/packages/indexer`), a TypeScript SDK (`src/packages/sdk`) and a web application (`src/apps/web`). The modules
in this directory model the parts that hold money or decide who receives it, from the contracts to the buttons a visitor
presses; TLC checks them on small instances and TLAPS proves the most important properties for every instance.

## 1. Inventory

| Component | State | Operations | What is hard | What makes it correct |
|---|---|---|---|---|
| `MarketFactory.sol` | markets, stakes per user and outcome, pools, fees, payouts, bonds, nonces; one token balance for all markets | create, bet (direct, permit, signature, module), lock, resolve, cancel, fraud, release of the bond, claim of reward or refund, pause | claims in any order with rounding; replayed and reordered signatures; shared balance; operations without a condition on the state | books of a market balance; winners receive exactly the payout; no replay; rights to claim last |
| `FeePolicy.sol` | none | fees by tier | rounding, tier boundaries | fees come out of the losing pool |
| `BountyFactory.sol`, `BountyRecoveryVault.sol` | bounties, submissions, escrowed rewards and bonds, vault | create, submit, resolve, cancel, release or slash the bond, set the vault, recover under a pause, move to the cold wallet | several roles settle the same bounty in any order; marks that survive creation | a reward leaves once and whole; balance equals what is held |
| `ChallengeFactory.sol` | challenges, proposals, four deposits each | create, accept, evidence, propose, confirm, dispute, finalize, arbitrate, cancel, fraud, release or slash | windows, disputes, pause, two funding models, six ways to settle | nobody settles alone inside the window; the verdict decides the payment |
| `Governed.sol` | roles, pause | pause, unpause, grant | pause in the middle of a protocol | money can leave only by the rules above, paused or not |
| `CreationBondPolicy.sol`, `CreationBondContextResolver.sol`, the estimate of `sdk/src/bondPolicy.ts` | configuration, rules of categories, profiles of creators | set each, compute a bond | 16-bit truncation, clamping, two codes of one rule | a bond within its bounds that grows with risk, and that the application foretells |
| oracle, moderation, treasury, rewards, registry, reputation, growth, social, monetization contracts | small records | one writer each | little | once-only claims and withdrawals |
| Gateway: `service.ts`, `ledger.ts` | sponsorship reservations, file | prepare, submit, status | `await` between check and use, crash between reserve and commit, rollback after a send | a request is sent once per key; budgets hold |
| Gateway: `xmrConversion*.ts` | quotes, conversions, nonces, cases, file | quote, convert, sync | concurrent requests, a provider that lags or jumps, a stop between two writes | statuses only advance; completion needs a verified settlement |
| Gateway: `cryptoLedger.ts`, `moneroService.ts` | deposits, withdrawals, nonces | create, sync, withdraw | reorganized transfers, a transfer that times out | reserved never exceeds confirmed; one transfer per authorization |
| Indexer | journal, cursor, block checkpoints, projection, file | poll, hydrate, roll back, save, replay | overlapping polls, reorganizations, torn writes, a file from an older poll | what is shown follows from the journal, nothing confirmed is skipped, and everything confirmed is shown in the end |
| SDK, web application | what the hook and the screens hold: a ticket, a click under way, one line of text | quote, choose, approve, send, sign, relay, show | a click that falls back from relay to wallet, lost answers, callbacks that hold old values, three codes of one rule | a click runs once at most; a button shown is accepted; a quote is what is paid; the screen promises nothing false |
| Scripts | none | deploy, check | little | |

The contracts interact through the settlement token only: each factory pulls deposits with `transferFrom` and pays with
`transfer` out of one pooled balance. The gateway submits users' signed requests to the contracts (through a forwarder,
or `placeBetBySig`, which needs none), the indexer reads the contracts' events, and the web application uses all three.

`PROJECT.json` lists every component with its status, and the hazards by source line.

## 2. Modules, and how they correspond to the code

| Module | Models | Used by |
|---|---|---|
| `Totals` | sums over finite sets, as cardinalities so that they can be reasoned about | the contracts |
| `FeePolicy` | `FeePolicy.sol` | `MarketFactory`, `ChallengeFactory` |
| `MarketFactory` | `MarketFactory.sol`, pause of `Governed.sol` | `MarketScreens` |
| `MarketScreens` | the lists, the ticket's quote (`economics.ts`) and the buttons of markets, over `MarketFactory` | `MCMarketScreens`, `MarketTicket`, `MarketFactory_proofs` |
| `MarketTicket` | the two selections of a market behind the ticket | `MCMarketTicket` |
| `EscrowLots` | the abstract promise of the two escrow contracts | instantiated by the next two; `BountyFactory_proofs` |
| `BountyFactory` | `BountyFactory.sol`, `BountyRecoveryVault.sol` | `BountyViews`, `BountyFactory_proofs` |
| `ChallengeFactory` | `ChallengeFactory.sol` | `ChallengeViews`, `ChallengeFactory_proofs` |
| `CreationBondPolicy` | `CreationBondPolicy.sol`, `CreationBondContextResolver.sol`, the estimate of the SDK and of `App.tsx` | `BountyFactory_proofs` |
| `ReadModel` | `projections.ts`: the effect of an event, idempotence, replay | `BountyViews`, `ChallengeViews`, `Indexer` |
| `BountyViews` | `BountyFactory`, its events, the read model made of them, `bountyWorkflow.ts` and the buttons of bounties | `MCBountyViews`, `BountyFactory_proofs` |
| `ChallengeScreens` | `challengeWorkflow.ts`, `lifecycle.ts` and the buttons of challenges, as functions | `ChallengeViews` |
| `ChallengeViews` | `ChallengeFactory`, its events, the read model and `ChallengeScreens` | `MCChallengeViews`, `ChallengeFactory_proofs` |
| `SponsorshipGateway` | `service.ts` `prepareRelay` and `submitRelay`, `policy.ts`, `ledger.ts`, `ledgerFile.ts` | `MCSponsorshipGateway`, `SponsorshipGateway_proofs` |
| `XmrConversion` | `xmrConversionService.ts`, `xmrConversion.ts`, `xmrConversionLedger.ts`, `baseSettlementVerifier.ts` | `MCXmrConversion`, `XmrConversion_proofs` |
| `MoneroGateway` | `cryptoLedger.ts`, its file, `moneroService.ts`, `moneroRpc.ts`, the timer of `cli.ts` | `MCMoneroGateway`, `MoneroGateway_proofs` |
| `Indexer` | `listener.ts`, `reorg.ts`, `store.ts`, `cli.ts` over a chain that reorganizes | `MCIndexer`, `Clients_proofs` |
| `Web3Flow` | `useWeb3Flow.ts`, `transactionErrors.ts`, `gatewayClient.ts`: connection, approvals, wallet and relayed transactions | `MCWeb3Flow`, `Clients_proofs` |

A `MC` module gives values to the constants of the module it extends, and its `.cfg` files name what TLC checks. A
definition whose comment begins with "Mutant" is not used: it is the mutated form of the definition after it, with which
the property named in `PROJECT.json` fails. The map from definitions to source lines is in `PROJECT.json` too.

### 2.1 `MarketFactory`, `MarketScreens`, `MarketTicket`

One record per market holds what the contract keeps in `markets`, `stakeByUserOutcome`, `totalStakeByUser`,
`poolByOutcome`, `rewardClaimed` and `refundClaimed`, with three ghost fields: `paidIn` and `paidOut`, the tokens the
market brought in and paid, and `unfunded`, the stakes a module recorded. `wallet` and `escrow` are the settlement token's
balances, `nonces` the nonces of `placeBetBySig`; `signed`, `executed` and `invalidated` are the authorizations a bettor's
wallet signed, those executed, in order, and the nonces a bettor gave up.

| Action | Code |
|---|---|
| `CreateMarket` | `createMarket`, `createMarketWithPermit`: `_createMarket` |
| `PlaceBet` | `placeBet`, `placeBetWithPermit`: `_placeBet`, `_recordBet` |
| `RecordBet` | `recordBet`, by a holder of `MODULE_ROLE`, without a transfer |
| `SignBet`, `PlaceBetBySig`, `InvalidateNonce` | a wallet off chain, `placeBetBySig` by any caller, `invalidateNonce` |
| `LockMarket`, `ResolveMarket`, `CancelMarket` | the functions of these names; `ResolveMarket` includes `_settleFees` and `_releaseBond` |
| `ConfirmFraud`, `ReleaseBond` | `confirmFraud` with `_slashBond`; `releaseBond`, which has no condition on the state |
| `ClaimReward`, `ClaimRefund` | the two claims, with their transfer |
| `Pause`, `Unpause`, `Tick` | `Governed.pause`, `unpause`; the block's time |

A transaction is atomic, so that each is one action. One that reverts changes nothing and is no action.

`MarketScreens` adds no state. It states what the application computes from a market: in which list it is, what its clock
counts down to, whether the bet and the resolution are offered, and what `calculateSelectedMarketQuote` says a bet would
return; the properties compare each with the guards and the arithmetic of the contract. `MarketTicket` adds the two ids a
bet depends on, `selectedMarketId` of `App.tsx` and `marketId` of the hook, and who writes them.

### 2.2 `EscrowLots`, `BountyFactory`, `ChallengeFactory`

Bounties and challenges have the same promise: every deposit is a *lot* that enters the pooled balance once, whole, and
leaves once, whole, to somebody or to the slashed remainder. `EscrowLots` states it with three variables, and the two
contracts implement it: `ImplementsEscrowLots` instantiates it with the pairs (id, deposit) as lots and the record fields
`posted` and `held` as their state. A bounty has two deposits (reward, creator's bond), a challenge four (reward, creator's
bond, executor's bond, dispute bond).

`BountyFactory` has an action for each of `createBounty`, `submit`, `releaseBond`, `slashBond`, `resolveBounty`,
`cancelBounty`, `setRecoveryVault`, `emergencyRecoverBounty`, the vault's `recoverToColdWallet`, `pause` and `unpause`.
The functions that no state restricts (`releaseBond`, `slashBond`, and `cancelBounty` for an id not created yet) are
unrestricted here too; what they leave in the record is what a later creation under the id finds.

`ChallengeFactory` has the life of a challenge in either funding model (`sponsorOf`, `performerOf`): `CreateChallenge`,
`AcceptChallenge`, `SubmitEvidence`, `ProposeResolution`, `ConfirmResolution`, `FinalizeUndisputed`, `DisputeResolution`,
`ResolveDispute`, `ResolveChallenge`, `ResolveEarly`, `CancelChallenge`, `ConfirmFraud`, `ReleaseBond`, `SlashBond`,
`setStandardResolutionWindow`, pause and time. The ghost field `endorsers` records who agreed to the settlement: the two
parties, the window, or an arbiter.

`CreationBondPolicy` has the three setters (`UpdateConfig`, `SetCategoryRule`, `SetCreatorProfile`) as actions; a bond is a
function of the state. `PreviewBond` is `previewBond` of what `resolve` returns, step by step in the order of the source,
with the cut of the disputes' surcharge to 16 bits; `EstimatedBond` is `calculateCreationBond`, which does not cut it, and
`FallbackContext` what the application estimates from before the node has answered. The real amounts times basis points
exceed the 32-bit integers of TLC, and scaled-down ones would change the rounding and the cut, so that no run is made of
this module: its properties are proved.

### 2.3 `ReadModel`, `BountyViews`, `ChallengeViews`, `ChallengeScreens`

Every screen shows what `projectEvent` has made of the contracts' events. `ReadModel` is that function: `Effect` has one
case per event, `ProjectEvent` applies an event unless its identity was processed, `Replay` folds a journal. It is written
with recursive functions, so that it can be reasoned about.

`BountyViews` and `ChallengeViews` are compositions. Each action of the contract is conjoined with the events it emits, in
the order of the source, and `view' = ` the read model after them. On top of it stand the roles, the next step and the
buttons that the application derives from the entry alone, so that "no button the contract would refuse" relates three
codes that nobody compiles together: the contract's guards, the indexer's projection and the screen's conditions.

### 2.4 `SponsorshipGateway`

`submitRelay` runs alone between two awaits: each stretch is one action, and `calls[c].pc` is where a call awaits.

| Action | Stretch of `submitRelay` |
|---|---|
| `Answered` | `taskFor` finds a task: answered without an await |
| `Unauthorized` | the policy refuses the call before the first await |
| `Started` | up to `await getNonce`; `now` is read here and used after all the awaits |
| `Checked`, `Rejected` | `getNonce` and `verify` answer; or one of the three checks fails |
| `KeyInProgress`, `OverBudget`, `Reserved` | `simulate` answers and `ledger.reserve` refuses or writes; the write may fail |
| `RelayAccepts` | the provider has accepted the transaction and its answer is under way |
| `Committed`, `RolledBack` | the answer arrives and `commit` writes; or the provider refused, its answer was lost, or a write failed |
| `Execute`, `Crash`, `Tick` | the forwarder on chain; a restart from the file; the clock |

### 2.5 `XmrConversion`

Again a stretch between two awaits is one action. A stretch here may write the file more than once (`createConversion` and
`consumeConversionNonce`; one write per status of a poll that catches up). The process may stop between two
writes: the disjunct with `RestartFrom` of `Created` and `Advanced` is that stop. And a write may fail, after memory has
changed (`xmrConversion.ts:224-226`, `:261-263`), which ends the handler with memory ahead of the file: `Unsaved`.

| Action | Stretch |
|---|---|
| `Assisted`, `QuoteKnown`, `QuoteAsked`, `Quoted` | `createQuote`: a case for a person, the key's quote, or the provider's offer, looked up again when it arrives |
| `Known`, `Begun` | `createConversion` up to `await verifyTypedData`: the key has a conversion, or the nonce is the wallet's |
| `Signed`, `ProviderOrders` | the signature is valid; the provider makes the order |
| `Unanswered` | a signature that is not valid, a refusal, or a lost answer: the call throws |
| `Conflict`, `Created` | the answer arrives: the key has another order's conversion by now; or conversion and nonce are written |
| `Asked` | `syncConversion` reads the status and asks |
| `Same`, `Advanced` | the provider's answer, any status with any settlement hash or none; `advance` has nothing to do, or makes the transitions from the status *seen*, each checked against the status *now* |
| `Settled`, `GivenUp` | `verify` accepts the transaction named (`Verified`: chain, success, confirmations, token, destination and amount, read from its receipt) and `recordVerifiedSettlement` runs with its own checks; or someone does not answer or does not accept |
| `Confirmed`, `Crash` | a transaction gets its confirmations; a restart from the file |

### 2.6 `MoneroGateway`

| Action | Stretch |
|---|---|
| `DepositKnown`, `AddressAsked`, `Addressed`, `NotAddressed` | `createDeposit` around `await createSubaddress` |
| `SyncStarts`, `WalletAnswers`, `Synced`, `WalletFails` | the timer's `syncDeposits`: one answer per deposit, in order, the list being that of the start |
| `WithdrawalKnown`, `WithdrawalBegun`, `Reserves`, `NotReserved` | `submitWithdrawal` up to the reservation on disk |
| `WalletPays`, `WalletSilent`, `Marked` | the transfer: it is made and answered, made or not and not answered, and its result written |
| `Pay`, `Progress`, `Crash` | a payment on the Monero chain and its depth; a restart from the file |

A write that fails is part of each action that writes; `failures` counts them. `sent` is what the wallet really paid. An
owner has an address, which `ownerOf` gives for each of its spellings: the ledger compares owners, and the nonces alone
are kept by the spelling of the request, as in `cryptoLedger.ts:227` and `:242`.

### 2.7 `Indexer`

| Action | Stretch |
|---|---|
| `Tick` | the timer of `cli.ts` starts a poll, whether or not the last one has ended |
| `DetailsRead`, `Hydrated` | the details of the markets that have none, read at the head, and their assignment |
| `NothingNew`, `LogsRead`, `RpcFails` | no block is confirmed after the cursor; or the logs of the range arrive; or a call fails |
| `LoopStarts`, `LogDecoded` | the loop over the logs: the block of a log is compared with its checkpoint, with a roll-back if they differ, then the log is decoded, pushed and projected |
| `WriteStarts`, `SaveEnds`, `SaveFails` | `saveIndexerState` writes over the old file, which is empty or torn in between |
| `Mine`, `Reorg`, `Crash` | the chain; a restart from the file |

### 2.8 `Web3Flow`

A click starts a *try*, which carries what its callback closed over. The actions up to `Sends` are what a click does before
its first await; `Switched` to `RelayStillPending` are the answers of the wallet, the node and the gateway, each of which
may be a refusal or be lost; `DirectMined` and `RelayRuns` are the chain. `tx` is the line of text the screen shows, with
the try it is about. What it says of an error on the wallet's route depends on the error's words (`readableTransactionError`), which may be any:
`Readings` are the two outcomes. A try that ends without an answer it waited for ends `lost`, any other `done`.

## 3. What the runs check

| Run | Instance | Question |
|---|---|---|
| `market` | 1 market, 3 accounts, a module, 3 outcomes of which 2 exist, bets of 70 and 40, 3 signatures (two with one nonce, one bound to a relayer), 2 relayers, schedule 0 < lock < resolve | books, rounding, order and time of the claims, replay and order of signed bets, quotes and buttons |
| `bounty` | 2 bounties, 2 accounts who both may win, rewards of 0 or 2, 2 vaults | do reward and bond leave once, under pause and recovery; is the read model true; are its buttons accepted |
| `challenge` | 1 challenge, 4 accounts, one of them an arbiter and one a watcher, rewards of 0 or 50 | who can settle, who is paid, does each deposit leave once; is the read model true; are its buttons accepted |
| `gateway` | 3 calls, 2 keys, 2 users, 1 address, a restart, two sets of limits | is a sent transaction remembered, one answer per key, limits |
| `xmr` | 2 quotes, 2 calls, 2 polls, 2 keys, 1 wallet, 3 transactions (one that pays, one that pays too little, one of another chain), 1 restart, 1 failed write | does what is on disk only advance, are completed ones paid, has a key one quote and one conversion |
| `monero` | 2 deposits, 2 withdrawals whose calls spell the owner's address alike or not, 2 polls, 1 transaction that may pay both deposits, 1 restart, 1 failed write | is a payment credited once, a withdrawal paid once, and out of deposits |
| `monero_credited` | the deposits alone | is a deep payment credited in the end |
| `indexer` | 2 polls, a chain of 3 blocks, a reorganization of up to 2 with 1 confirmation, 1 restart | do journal, cursor and projection agree, is anything skipped or counted twice |
| `indexer_shown` | 2 polls, a chain of 2 blocks, 1 reorganization, 1 restart | is a confirmed log shown in the end |
| `web` | 2 clicks that overlap, 15 operations, by wallet, relay or relay with permit | does a click run at most once, is what the screen says true |
| `ticket`, `indexer_served` | as `market` with 2 markets; as `indexer` | a sentence of the documentation that the code does not keep (section 6) |

**Why these bounds are enough.** The amounts 70 and 40 with `OneUsdt = 1` put the pool of a market on both sides of the
first fee tier (100 USDT) and make divisions inexact; two bettors and a module on two outcomes give one or two winners
and every order of claims. Fees of the other tiers differ in the percentages only, which `FeesBounded` covers for every amount.
Outcome 2 exists in `Outcomes` and not in the market, so that the range check matters. Three signatures are the fewest in
which a nonce is shared, skipped and bound; two winners are the fewest that share a reward. That one market never lives on
another's tokens is proved, not run (`MarketsSelfFunded` for any number of markets). Times are steps of a clock up to
`MaxTime`, far enough for every deadline to be before, at and after the present. In a challenge `HalfDay` is the unit of
the windows, and `MaxTime` exceeds the longest standard window of a challenge of ordinary risk and value. Three
calls are the fewest in which one call prunes what a second should have counted for a third; `Day`, `Hour` and
`MaxLatency` keep the order of the real values (86 400 s, 3 600 s, a request's duration). Two polls are the fewest in which one acts
on a state the other has changed; conversions, deposits and withdrawals share only keys, nonces, transactions and the
balance, so that two calls meet every conflict. The three transactions of `xmr` and the block number, which is compared with
the receipt's for each, give `Verified` an acceptance and a refusal for chain, amount and depth; that a transaction succeeded is a condition of the same
form. A chain of three blocks has a confirmed block to lose to a reorganization of two, and one that
survives it. `indexer_shown` has two blocks, of which one gets the confirmation it needs, so that it shows the progress of one
confirmed log; with three the liveness check does not end in the five minutes the other runs keep to. Two clicks are the fewest whose lines of text overwrite each other.

`CHECK_DEADLOCK FALSE` stands where a behaviour ends because the ids, the clock or the calls are used up.

**Fairness.** The two liveness runs assume what the processes do of themselves, and nothing of the outside beyond "a call
that is repeated for ever succeeds now and then":

- `monero_credited`: weak fairness of `SyncStarts` (the timer of `cli.ts` fires for ever) and of `Synced` (a stretch without an
  await ends); strong fairness of `WalletAnswers` for each deposit (the wallet may fail any number of times, not always).
- `indexer_shown`: weak fairness of `Tick`, `DetailsRead`, `Hydrated`, `LoopStarts` and `LogDecoded` (the timer, and reads
  whose failure the code catches); strong fairness of `NothingNew`, `LogsRead`, `WriteStarts` and `SaveEnds`
  (the node and the disk, which may fail between any two successes). The numbers of restarts and reorganizations are bounded.

No other run assumes any. Every operation of the contracts waits for an account to call it, and nothing in the
code obliges anybody to; what can be said of progress there is stated as safety: `RightsEndOnlyByPaymentOrFraud`
(a right to be paid stays until it is), `EscrowBacksClaims` (when it is used the tokens are there).

**Symmetry.** `gateway`, `xmr`, `monero`, `indexer`, `indexer_served` and `web` use the symmetry of calls, keys, polls or
clicks, which the modules compare for equality only; the liveness runs use none.

## 4. What is proved

TLAPS proves, for every value of the constants that the named assumptions allow (finite users, ids, calls, keys and
transactions, natural amounts, positive bonds):

| Module | Theorem | Statement |
|---|---|---|
| `MarketFactory_proofs` | `TypeCorrect` | every variable of `MarketFactory` keeps its type: no balance, fee, payout or pool underflows |
| | `SelfFunded` | `MarketsSelfFunded`: what a market holds is what it owes, its bond and what was slashed |
| | `RewardsExhaust` | `RewardsExhaustPayout`: the winners together get exactly `remainingPayout` |
| | `RewardOrRefund` | `RewardXorRefund` |
| | `NoReplay` | `SignedBetsHold`: nonces executed in order, and none that was invalidated |
| | `EscrowBacks` | `EscrowBacksClaims`: the balance, with the stakes modules recorded without tokens, covers every reward, refund and bond due |
| | `WinnersKeepStakes` | `WinnerNeverLoses`: a reward is at least the stake, in every tier and with every rounding |
| | `RightsLast` | `RightsEndOnlyByPaymentOrFraud` |
| | `LateStakesRefused` | `NoLateStake`, for all four ways to bet |
| | `ShapedInvariant` | in every market the times are in order, there are two outcomes at least and the pools add up to the stakes |
| | `ButtonsAgree` | `MarketButtonsAreAccepted`: lists, clock and the resolver's button agree with the contract's guards, and so does the bet outside a pause, which the application does not read |
| | `QuoteHolds` | `QuoteIsPaid`: what the ticket quotes is what the contract pays, for every stake, pool and fee tier |
| `BountyFactory_proofs` | `LotsCovered`, `SlashedForGood` | `BalanceCoversLots`, `SlashedStays` of `EscrowLots` |
| | `TypeCorrect` | `TypeOK`: no balance underflows |
| | `SettledOnceOnly` | `RewardSettledOnce` |
| | `Implements` | `ImplementsEscrowLots`: `BountyFactory` implements `EscrowLots` |
| | `BountiesCovered` | the balance covers the rewards and bonds of all bounties at once |
| | `BountyViewTrue` | `BountyViewIsTrue`: what the events were projected to is what the contract holds |
| | `BountyButtonsAgree` | `BountyButtonsAreAccepted`: the buttons shown to any account are accepted, and the balance pays for them |
| | `PolicyTypesCorrect`, `BondWithinLimits` | `PolicyTypeOK`, `BondInLimits` of `CreationBondPolicy`: whatever is configured, a bond is positive and within the limits |
| | `DisputesRaiseBond`, `DisputesLowerBond` | more disputes never lower the bond while their surcharge fits 16 bits; with the constructor's configuration the 56th lowers it from the maximum to the minimum |
| | `EstimateIsBond`, `FallbackIsBond` | the SDK's estimate is the contract's bond under the same condition; what a creator without a profile is shown at first is the bond, but for two categories |
| `ChallengeFactory_proofs` | `TypeCorrect` | `TypeOK`: no balance underflows |
| | `Endorsement` | `SettlementIsEndorsed`: nobody settles alone inside the window |
| | `VerdictDecides` | `VerdictDecidesPayout`: the winner gets the reward less the fee, the loser at most the loser's own bonds |
| | `Implements` | `ImplementsEscrowLots`: `ChallengeFactory` implements `EscrowLots` |
| | `ChallengeViewTrue` | `ChallengeViewIsTrue`: what the events were projected to is what the contract holds, and the books of the three bonds balance |
| | `ChallengeButtonsAgree` | `ButtonsAreAccepted`: the buttons shown to any account are accepted, and the next step is one of them |
| `SponsorshipGateway_proofs` | `TypeCorrect`, `SentOnDisk`, `OneAnswer` | `TypeOK`, `SentIsOnDisk`, `OneAnswerPerKey` |
| | `LimitsKept` | `LimitsHold`: in no window does the gateway send more than its limits |
| `XmrConversion_proofs` | `TypeCorrect`, `OnePerKey` | `TypeOK`, `OneConversionPerKey` |
| | `ConversionsPaid` | `CompletedIsPaid`: a conversion is completed exactly when it holds the hash of a confirmed transaction that brought its wallet the net amount of its quote, whatever the provider says |
| | `OnlyAdvances` | `StatusOnlyAdvances`: what is on disk only advances, and a restart takes memory back to the disk at most |
| `MoneroGateway_proofs` | `TypeCorrect`, `CreditedOnce` | `TypeOK`, `NoDoubleCredit` |
| | `PaidOnce` | `PaidOnceAndOnDisk`: for an owner whose calls spell the address alike a withdrawal and a nonce are paid once at most, and only when the withdrawal is on disk |
| | `Funded` | `WithdrawalsAreFunded`: such an owner is paid no more than the owner's deep transfers |
| `Clients_proofs` | `TypeCorrect`, `ClickedOnce` | `WebTypeOK`, `OneExecutionPerClick` |
| | `LineKeepsItsWord` | `PromisesHold`: what the line of the screen says of a click is so, for as long as it is shown, unless the click ended without an answer it waited for |
| | `IndexerTypes` | `TypeOK` of `Indexer`: cursor, checkpoints and journal are of confirmed blocks |
| | `ReplayIsTheSame` | `ReplayGivesTheSame`: a restart at any moment gives the read model the process had |
| | `NoneSkipped` | `NothingSkipped`: unless the chain drops what it confirmed, every log up to the cursor is in the journal |
| | `BetsCountedOnce` | `PoolsCountBetsOnce`: under the same condition a pool is the number of its indexed bets |

**The market's invariant.** `MarketsSelfFunded` is not inductive: that a claim does not overdraw the books depends on who
claimed before. `IInv` is `TypeOK` and, for every market, `MarketInv`, which is

- `StakesAdd`: the pools are the sums of the stakes, by outcome and in total;
- `Phases`: in which states rewards or refunds may have been paid. A market that pays rewards satisfies `Rewarding`, whose
  heart is `rewardPaid * W <= remainingPayout * claimedWinningStake` (`W` the winning pool). A bound on `rewardPaid` alone is lost
  after one rounded claim; this product is kept by every claim that rounds down, and when the last claimer takes
  the rest it becomes an equality;
- `Balanced`: the tokens the market brought in, less those it paid, are what it owes.

`InitInv` and `NextInv` show it inductive, with one lemma for each change of a market (`OpenedInv`, `BetInv`,
`SettledInv`, `RewardedInv`, ...) and one step for each action. `SettledInv` rests on `FeesBounded`, that the fees of every tier are at most 350
basis points of the losing pool. Sums over sets (`Totals`) are defined as cardinalities of a disjoint union, since the
library's induction theorems cannot be instantiated; `Totals_proofs` derives from the theorems on cardinalities that a
total splits over disjoint sets, is monotonic and changes with one element.

**The escrow and the steps.** What concerns all markets or a step rests on `SolventInv`, which adds to `IInv` that ids not
handed out have no market (`Unborn`), that the balance and the recorded stakes together are the sum of what the markets hold
(`BalanceIsHoldings`), and that a payout is at least the winning pool (`FeesFromLosers`). `StepOperates` says once, for all
actions, that a step writes at most one market, by one of the kinds of `Change`, and moves the balance as that market's books say
(`Booked`): the sum follows (`SolventNext`), and each step property is a case split over the kinds. A claim is covered because the
record it would leave still holds a natural number; a reward covers its stake because `R >= W` and the product bound of
`Rewarding` survive the division and the last claimer's rest (`ShareCoversStake`).

**Signatures.** `SignedInv` adds to `SignedBetsHold` that every executed nonce of a bettor is below the bettor's current
one and that invalidated nonces are, too (`NoncesPassed`); `PlaceBetBySig` and `InvalidateNonce` both raise the current one.

**The screens.** They add no state, so that their two theorems are about the markets a contract can be in. `ButtonsAgree` compares a bet with all
of `placeBet` (`BetGoesThrough`), its pause included, and says nothing of the bet while that lasts. It needs
`ShapedInv` beside the types (a market that exists was opened with a lock time before its resolution, and with two outcomes
at least): with it, each guard of the contract and each condition of the application is the same comparison of times and
states. `QuoteHolds` is arithmetic. The ticket multiplies and divides in an order of its own, and its fees and payout are
rounded separately; the lemmas before the theorem show that each of its quotients is the contract's, tier by tier, and that
the share of the only winner is the whole payout. The module's `toPoolArray` takes the two lowest pools, without a sort.

**Lots.** The invariant of `EscrowLots` says that the balance is at least the total held and that each lot is held whole or
not at all; the step is arithmetic on totals over the lots that enter and those that leave. These two theorems assume
`LotsAssumption`, a plain definition, so that they can be used of an instance.

**Bounties.** `BountyInv` is `TypeOK` and, for every bounty, `Sound`: an open one has its whole reward and has paid none, one
not created yet has nothing (also when its id was cancelled before), and what it paid is nothing or the reward, once. The
refinement maps each action to the lots that enter and the lots that leave, with the money moved as their total.

**The screens of bounties.** `BountyViewIsTrue` relates a contract to the fold of the events it has emitted. `ViewInv` carries
the relation: `Told` says that the entry and the bond book of a bounty are those of its record, and `BountiesTold` that this
is so of every bounty created and that no other has an entry or a book. Each action is shown event by event: `Framed`
says that its events touch one entry and one book, and `FramedTwice` that this composes, so that `TellingStep` is the same
for all actions. Two things had to be added for it to be inductive: the amounts released and slashed in the book are
zero until the bond is finalized (the property speaks of the difference alone), and an id not created has no book, also when it was cancelled
before. `Effects` is a recursive function of the number of events; that it exists is shown by `SetInduction`, an instance
of the library's theorem on well-founded relations for one set of numbers, which needs no operator as a parameter. The
buttons follow from `Told` and the guards, except that the balance suffices for a resolution, which is `BountiesCovered`.

**Challenges.** `ChallengeInv` is `TypeOK` and, for every challenge, `Sound`, whose parts are `Deposits` (each of the four
deposits is held whole or not at all, a reward held is the reward pool, and what is held has an account to go back to: this is why
no payment goes to the zero address), `Stage` (in each state, which deposits cannot have been made yet, who the parties are, and that a challenge
in review is endorsed by its proposer alone) and `Endorsed` for the resolved ones. One formula, `Steps`, is shown of every
action: the invariant again, a step of `EscrowLots`, and `Verdict`, the payment to winner and loser. The actions come in
three shapes: `EnteringStep` (deposits come in), `LeavingStep` (deposits end, and those in `out` are paid) and `QuietStep`.
What a settlement pays in all is the sum of functions from users to amounts, added by `TotalSum`; that this sum is the one over the lots that
leave is `FourTotal`. `VerdictDecidesPayout` needs `Stage` too: it holds because the parties of an accepted challenge differ.

**The screens of challenges.** The argument is that of bounties, with more to carry: `EntryTold` relates the entry to the
record, with the proposal and the dispute once there are any, and `BooksTold` relates three books to three deposits. An
operation emits up to four events, some of them only if there is a bond to speak of; `EffectsInTurn` splits the sequence, and
each part is shown on its own (`BondsEnd` for the ends of the bonds, `ResolutionTells` for a resolution, whichever event comes
before it). Since a settlement is told in several events, what holds between two of them needs names: `Following` for an entry that
already says all, `Undecided` for one whose dispute is not over yet. `Ready` is what the buttons take for granted of the contract and
its guards alone do not say: a challenge with a sponsor that is not settled has its reward in escrow, unless it was closed
before it was created, and one in evidence has evidence. `ScreenRoles` shows that the roles the screen works out are the
contract's, in both funding models; then each button is one comparison of guards (`ButtonIsAccepted`), and each
state one of the workflow's steps with the buttons (`StepIsOffered`).

**The bond.** The theorems are arithmetic: each step of `previewBond` is monotonic in the amount (`ScaledMono`), so that more disputes
give at least the amount before, and the clamp keeps the order. The condition that the low-risk base is not above the standard one is
needed for the first dispute, which takes a small market out of the low-risk tier.

**The relay.** `GatewayInv` follows a key through the map and the file: while a call awaits the relay both hold its
reservation without a task (`Flying`), after the commit both hold the task until a day has passed (`Kept`), a task in the
ledger was answered to somebody (`Known`), and two calls of one key that were sent share the task or began `SafeDay` apart
(`Pairs`). It looks at a call only through its *view* (not sent, in flight, or owner of a task), so that each action is one change of the
view and one of the ledger. The assumption it rests on is that a call lasts at most `MaxLatency <= Day - Hour`: the code has
no such limit for a whole request, and a call suspended for a day would indeed lose its reservation.

**The limits.** `LimitsHold` speaks of transactions, and `reserve` counts reservations, which expire, are rolled back and are lost
in a crash. `LimitInv` puts *marks* between the two: one for each transaction the property counts and one for each call that is
about to send. `Backed` says that the map and the file hold the reservation of every mark younger than a day; `Separate`
that marks with one key are `SafeDay` apart, so that two of them in a window never stand for one reservation; `Awaited` that
an answer that arrives is that of a counted transaction. When a call reserves with a clock it read before its awaits, every window
of `SafeDay` that its mark joins is inside the day `reserve` counts, hence `Budgets`, which is stated for all windows and is
what `LimitsHold` is an instance of. The hourly limit of an address follows in the same way from the same
reservations. Rolling back removes a reservation with the mark of the call that owned it, and no other.

**The conversion.** `ConversionInv` says that ledger and file are each in order (`Good`: records under one key are one
record, a conversion has a quote and an order, and one is completed exactly when it holds a settlement that is confirmed and pays
its quote), that the ledger is `Ahead` of the file, and that a call or poll under way names what the ledger holds. A write that
fails leaves them apart, so that each must be in order by itself: that is what a restart needs. Every step is shown to move file and ledger
`Onward` (`Steps`); a poll that catches up goes through statuses that are each later than the last (`Stops`), so that a stop or a failure at any
of its writes loses nothing that is on disk. That the settlement pays comes from `Verified` alone: the provider's answer is any status with any hash.

**Monero.** Calls that spell one address in two ways are in the model and in the invariant; what they break (section 6) is said of no
owner who has such calls (`AlikeTo`), and the deposits, the balance reserved and `WithdrawalsOK` hold for all. `MoneroInv` asks the same, `LedgerOK`, of the ledger and of the file, so that a restart needs no argument of its own. `DepositsOK`
and `WithdrawalsOK` tie each record to the call that made it (a deposit to a finished creation, a withdrawal to a call
past its reservation, whose nonce is below the next one of its spelling); `TransfersOK` says that the transfers of two deposits are
disjoint, are on the chain, and are deep there when they are deep here. `FundedOK` bounds the withdrawals by the payments that are deep on
chain, which only grow: the ledger's own balance would not do, since a wallet's late answer may take a transfer back. An answer
on its way (`SyncsOK`) may be old, and its transfers are on the chain all the same. `SentOK` says that what the wallet paid is a withdrawal of the
call's owner, and, if the owner's calls spell the address alike, the call's own, in ledger and file.

**The screen.** `WebInv` adds two things to the types. `OneRoute`: a try is on one route, decided by what it still awaits and what the chain
and the relay did with it; a try whose relay may have been sent has no direct transaction and never gets one. `LineIsTrue`: what the
line says of the try it is about. A try that is over never changes, which is why a promise made when the answer came stays true, whatever the
other tries do; a line about the wallet is of no try. A `lost` try is over and may still have an effect, and nothing is claimed of its line.

**The indexer.** Each of its four copies of the truth is made from another: memory from the file, the file from what a poll was
writing, that from memory, and the journal from what a poll had fetched some time ago. `IndexerInv` states one thing of all of them. `Stored`: the
journal, the checkpoints and the cursor are of confirmed blocks. `Sound`, while no reorganization was `deep`: they agree with those
blocks, the journal has every log up to the cursor, and the pools of its replay are the bets. The logs a poll holds are in order, and
together with the journal *of this moment* they leave out none up to the block where that poll will set the cursor (`LogsSound`); since
the journal only grows while nothing is rolled back, what the other polls do keeps this true, and so a cursor that an older
poll sets back, or a file with an older one, skips nothing.

That the process and a replay agree rests on `Same`: two read models that hold the same facts, whatever details of markets they were told, hold the
same facts after one event more (`ProjectedSame`) and after details for either (`DetailsSame`); `ReplayAppend` unfolds one step of
the replay, a recursive function of the length of the journal, and a roll-back starts from a replay anyway. A pool counts a bet once because `projectEvent`
ignores an id it has. That it counts *every* bet needs the order: a bet projected before the creation of its market would be
lost. `CountedPushed` excludes it, from `WellFormed` (a contract emits the creation before the bet) and `Follows` (when an event is
pushed, those of all logs before it are in the journal). `MineChain` and `ReorgChain` show that a chain that grows, or reorganizes
no deeper than `Confirmations`, keeps its confirmed blocks.

**Only model-checked:** the two liveness properties, `DeepPaymentsAreCredited` and `ConfirmedLogsAreShown`: liveness and `ENABLED` are
out of the provers' reach. Every invariant and every step property of a passing run is proved. No module that is proved
about reaches a `RECURSIVE` operator.

## 5. Assumptions, and what is not modelled

- One settlement token that moves exactly the amount it is asked to and reverts when it cannot. `MarketFactory` accepts a list of tokens; a market uses one.
- In the factories the bond policy returns any positive bond. Its computation is a module of its own, `CreationBondPolicy`, where `BondWithinLimits` proves it positive; who may call its setters, and the flags that explain an amount, are left out.
- Roles belong to arbitrary accounts: `Admin` collects fees, and any step that needs a role may come at any time. Granting and revoking roles is not modelled.
- `noWinnersPolicy` is stored and never read by the contract, and is left out, as are metadata, URIs and hashes, `updateLiveStreamURI` and the setters of policies and resolvers.
- A challenge run has one id: challenges share the balance and nothing else, and the refinement of `EscrowLots` counts lots one by one.
- Signatures are data that only their bettor can create; hashing and recovery are not modelled.
- In the gateway the content of a call is left out: the policy accepts it or does not. `relayStatus` reads only. `createFiatSession` (service.ts:153-172) is left out: a map of promises per key, in which the late failure of an expired session deletes the newer one.
- In `XmrConversion` a request carries the wallet's current nonce, since any other is refused. A transaction has one receipt (it is not moved by a reorganization), and receipt and block number are read at one moment; token, destination and amount are one number, what its logs bring a wallet. The provider's answers are arbitrary, and its order says nothing of what it will answer.
- In `MoneroGateway` an amount is one unit, and the wallet's own balance suffices for what the ledger promises.
- In `Indexer` a block has at most one log; the addresses are one contract's, and only market events occur. The other events are projected in `BountyViews` and `ChallengeViews`. Referral, quest, reputation, oracle and moderation events are never decoded by the listener and are left out.
- In `Web3Flow` all prices are one price and approvals are of one contract; a click refused for what was typed changes nothing and is left out.
- Not modelled: see the components marked so in `PROJECT.json`, each with its reason.

## 6. Where the code and its documentation disagree

Two runs refute a sentence of the repository:

1. `ticket`. The ticket shows the first open market when the selected one has closed, and `placeBet` sends the market id of the hook, which no refresh moves and which the claims card edits too (`useWeb3Flow.ts:1290`, `App.tsx:246`, `App.tsx:606`): a bet is confirmed for another market than the one shown. `docs/superpowers/specs/2026-07-18-alterford-visual-refinement-design.md:85` says that the selection always references the filtered collection.
2. `indexer_served`. After a roll-back the listener puts a new object in place of the projection (`listener.ts:141`), and the read server keeps serving the one it was started with (`cli.ts:39-44`); `docs/PRODUCTION_RUNBOOK.md:109` says that the read model is replayed from the journal.

The models have these behaviours too, and their properties are stated around them:

3. Nonces of withdrawals are kept under the address as the request spells it (`cryptoLedger.ts:227`, `:242-245`, from `server.ts:255`), everything else under the address in lower case, and the idempotency key is not among what is signed (`moneroService.ts:178-187`): one signed withdrawal is reserved and paid once for each spelling. `moneroService.test.ts:61` says "consumes the nonce and submits one withdrawal", and its lines 79-82 expect a second key to be refused with "nonce".
4. Two overlapping calls with one key pass the nonce check under two spellings; the second is given the first one's reservation (`cryptoLedger.ts:207-218`) and the wallet pays for it again: `moneroService.test.ts:85` says "never withdraws more XMR than the beneficiary has confirmed". `PaidOnceAndOnDisk` and `WithdrawalsAreFunded` say what is left, for owners whose calls spell the address alike; without that condition (`SpelledAlike`) TLC refutes both.
5. Whatever the relayed route throws, the line says "No se movieron aUSDT" (`useWeb3Flow.ts:702`), also when the gateway has sent the transaction and an answer to `submitRelay` or about the status is lost: the relay is executed afterwards. The help text of the gasless mode says "si el relay falla, no se moveran fondos" (`App.tsx:1194`).
6. A lost answer of the relay rolls the key back (`service.ts:145`), and the same key sends a second transaction; `docs/superpowers/plans/2026-07-14-phase2-conversion-abstraction.md:62` says that idempotency keys prevent duplicate sponsorship. The first transaction is counted by no limit.
7. `recordBet` (`MarketFactory.sol:288`) credits stakes nobody paid in; `README.md:15` says that funds are escrow-first. The contract may then owe more than it holds; each market still pays no more than its own books promise.
8. After `releaseBond` or `slashBond` on an open challenge (`ChallengeFactory.sol:701`) the executor's bond, which copies the creator's, is zero; `docs/PHASE1_RESILIENCE_SECURITY_SPEC.md:84` says "Open --> Accepted: executor + bond".
9. An arbiter may cancel a challenge id before it is created (`ChallengeFactory.sol:669`): `rewardFinalized` stays set, and a challenge created later under the id reaches review and cannot be settled, though line 89 of the same document says "Review --> Resolved: window expires, no dispute". `BountyFactory.cancelBounty` has the same gap: creation does not reset `bondFinalized`, and the bond of such a bounty never leaves the contract.
10. The workflow says that any account can finalize a challenge (`challengeWorkflow.ts:135`), and `App.tsx:1347` and `:1373` show the button to the parties only.
11. The application does not read the pause: buttons of markets, bounties and challenges stay, and the contracts refuse what they offer. The three properties about buttons except a pause.
12. `README.md:172` says "confirmed logs only"; the details of a market are read at the head (`listener.ts:186` and `:229`), so that a replay may show other details than the process did. `ReplayGivesTheSame` compares the rest.
13. On the wallet's route an error is classified by its words (`transactionErrors.ts:20-43`, `useWeb3Flow.ts:620`): one with "rejected", "network", "allowance" or "insufficient funds" makes the line say "No se movieron fondos", also when the transaction was sent and only the wallet's answer or the receipt was lost. The status of a receipt is not read (`useWeb3Flow.ts:609`), so that a transaction that reverted, as one with an underestimated bond does, is shown as confirmed. `PromisesHold` says what is left: it excepts a click that ended `lost`, and of a direct transaction shown as confirmed it says nothing.
14. No settlement hash is compared with those recorded (`xmrConversion.ts:267-287`): one transfer can complete two conversions of one wallet, each with an order of its own. `CompletedIsPaid` speaks of each conversion by itself. The document on the conversion rail asks for an independent verification of the transfer (`docs/superpowers/specs/2026-07-17-noncustodial-xmr-conversion-rail.md:14`), which each of them has.
15. The conversion ledger changes memory before it writes the file (`xmrConversion.ts:224-226` and `:261-263`). After a write that failed, calls are answered from memory, and a restart takes a status back, or forgets a conversion that was answered already. `StatusOnlyAdvances` is stated of the disk, and of memory between restarts.
16. Pools are positional lists (`toPoolArray`, `App.tsx:2624`, and its copies `useIndexerFeed.ts:92` and `server.ts:72`): a market with bets on NO only shows that pool as SI's. `QuoteIsPaid` excepts it.
17. The ticket offers SI and NO whatever the number of outcomes, and a resolver cannot choose a third one in the application; the contract accepts up to `outcomesCount`. Nor does the quote count the pools beyond the second: `QuoteIsPaid` is stated for markets of two outcomes.
18. `errorCount` of `observability.ts:79` never resets, and the key of a bet in `projections.ts:269` has no block, so that equal positions in two blocks collide.
19. Two overlapping calls with one key make two orders at the conversion provider, of which one is stored and the other forgotten (`docs/superpowers/specs/2026-07-17-noncustodial-xmr-conversion-rail.md:18` says that orders are idempotent); two with one nonce and different keys are both stored, and the second throws afterwards; a provider that jumps over a status which `transitions` asks for makes every later poll of that conversion throw.
20. A Monero transaction that pays two deposits makes `syncDeposit` throw for the second one for ever (`moneroService.ts:109`), and every deposit after it in the list is polled no more. `DeepPaymentsAreCredited` assumes that there is none.
21. The surcharge of a creator's disputes is cut to 16 bits (`CreationBondPolicy.sol:118`): with the constructor's configuration 55 disputes cost the maximum of 10 USDT and 56 the minimum of 0.5, less than the 3 of a creator with none (`DisputesLowerBond`); `README.md:19` says that disputed creators require progressively higher bonds. The SDK's estimate goes on showing 10.
22. Until the node answers, the application estimates the bond of every Underworld market from a medium risk (`App.tsx:179`); the resolver has a high one for the viral and strange categories (`FallbackIsBond` excepts them). `updateConfig` accepts a step of zero volume and a discount above the whole, with which `previewBond` reverts for some contexts; the SDK returns the minimum for the latter.

`LimitsHold` and `OneAnswerPerKey` are stated for a day less the duration of a request (`SafeDay`). For a full day they fail:
a call that began late drops expired reservations which one that began earlier, and is still under way, should have counted.

## 7. What is left

The order in which the work went was: the contracts, the gateway's ledgers, the indexer, the read model, the screens, the
proofs of the escrow contracts, of the conversions, of the bond, of the relay's limits, of Monero, of the wallet, of the
screens of markets, bounties and challenges, and of the indexer. Left, in order:

1. Granting and revoking of roles in `Governed`, `Treasury` and `RewardDistributor`, which no other contract calls.
2. The composition of `Indexer` with the events of bounties and challenges, whose projections are checked without delays.

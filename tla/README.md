# Facture in TLA+

Facture sells receivables. A seller raises an invoice, its customer confirms it, an instrument
for it is issued on Hedera, and standing bids of buyers (mandates) quote on it. A sale moves two
legs on two chains: the paper by a hold on the instrument, the cash either by a payment the
buyer signs (x402) or by a payout from capital the buyer deposited in a vault on Arc. One
Node process over SQLite coordinates the legs, with no transaction that spans them.

That coordination is what this project models: which orders of requests, answers, timeouts and
crashes leave the store, the instrument and the two cash rails agreeing, and which do not.

## Inventory

| component | state | operations | what makes it correct |
|---|---|---|---|
| trade lifecycle (`routes/trades.ts`, `services/settlement.ts`) | trade row, the hold and the payout it names | arm, pay, deliver, unwind, sweep | delivery versus payment; capital reserved while a trade is live, and freed once |
| store (`db/sqlite-store.ts`, `db/status.ts`) | invoices, quotes, mandates, trades, confirmations, issuance jobs, outcomes | one synchronous transaction per call | `allocated <= funded`; one outcome and one row per receivable |
| invoice lifecycle (`routes/invoices.ts`, `services/confirmation.ts`) | invoice row, confirmation links | create, request confirmation, confirm, dispute, list, delist, mature, default | an answer stands; what the chain says confirmed was confirmed |
| mandate capital (`routes/mandates.ts`, `services/arc.ts`) | mandate row, vault balance | create, fund, withdraw, close | what is quoted is in the vault; closed only when the vault is empty |
| issuance (`services/issuance.ts`) | durable job queue | enqueue, claim, deploy, retry, resume | the registries name the row's bond; an issuance concludes |
| maturity and default (`services/settlement.ts`, `rating.ts`, `schedule.ts`) | outcome ledger, scheduled payout | mature, default | one outcome, status and ledger agree, the owner is paid |
| payment leg (`MandateVault.sol`, `DvpEscrow.sol`) | balances, payouts, hash-time locks | deposit, register, pay out, claim, refund, reclaim | conservation of USDC; claim and refund exclude each other |
| match ledger (`MandateBook.sol`, `InvoiceRegistry.sol`, `UniquenessRegistry.sol`) | mandates, matches, terms | post, credit, match, confirm, cancel, mature | allocation covered by commitment; a match ends once, a receivable is sold once |
| the two chains together | deposits and authorisations on their way | relay, late or twice | capital conserved; a cancelled match was not delivered |
| pricing (`shared/pricing`, `quote-engine.ts`) | quotes | price, screen, rank, re-price at arming | no fill below the accepted quote; limits kept |
| buyer agent (`packages/agent`) | what it read, took and signed; its funding run | poll, decide, arm, pay, fund | within its mandates; ranks as the venue does; no shortfall posted twice |
| consensus log, indexer, profiles, wallet policy, web | append-only or read-only mirrors | | |

The components meet in three ways. Routes call the store synchronously and the adapters
asynchronously; every `await` of an adapter is a point where other requests run. The store is
the only shared state inside the process. The chains are shared with the world and remember
what a crashed process did.

The hard behaviours are the ones between an `await` and the write that follows it: the row may
have been changed by another request, the call may have landed although it was answered with an
error, and the process may be gone.

## Modules

**Settlement.tla** is the trade lifecycle. `invoice`, `quote`, `row` and `capital` are the
store's rows; `owner`, `hold`, `vault`, `payout` and `paid` are the instrument, the vault and
the facilitator; `job` is, per request, the adapter call it is waiting on and what it has heard;
`todo` is the run of store writes a request still makes before its next await.

A handler becomes one action per stretch of code between two awaits:

| code | actions |
|---|---|
| `POST /v1/trades`, first half (`prepareTrade`) | `ArmTrade`, `GateAdmits` / `GateRefuses`, `ChooseRail` |
| `prepare` (x402) | `PositionRead`, `HoldAnswered`, `ChallengeBuilt` |
| `settleFromVault` | `PositionRead`, `HoldAnswered`, `MatchAnswered`, `PayoutAnswered`, `DeliverAnswered` |
| the failure path of both (`abandon`) | `ReadFails`, `CallFails` |
| `POST /v1/trades`, second half (`executeTrade`, `execute`) | `Pay`, `RequirementsBuilt`, `Verified`, `SettleAnswered`, `SettleDeclined`, `SettleFails`, `PaidDeliveryAnswered` |
| `unwind`, `reclaimExpired` | `AskUnwind`, `Sweep`, `Reclaim`, `ReleaseAnswered` |
| listing and delisting | `List`, `Delist` |
| a call landing outside | `HoldCreated`, `HoldExecuted`, `HoldReleased`, `MatchRegistered`, `PayoutExecuted`, `PaymentSettled`, `PaymentDeclined`, `CallRefused`, `ExpireHold` |

An adapter call lands in one action and is heard of in a later one; with `Lossy` it may land and
be heard as an error, which is what a receipt timeout is. `CallRefused` is an error with nothing
landed. `StoreWrite` makes the next write of the run, and `Crash` may fall between any two.
`Age` is the passing of `EXPIRED_AFTER_SECONDS`. The capital taken by `store.allocate` and the
status written in `SettleDeclined` share a step with the read before them; both are single
transactions with no await in between. A route that sweeps before its own work (`Sweep`) becomes
arming, paying or delisting only when the sweep is done and it starts: the sweep is the same for all.

**MCSettlement.tla** gives its instances, **SettlementProofs.tla** its theorems.

**MandateCapital.tla** is the capital of one mandate; mandates share nothing. `funded`,
`allocated` and `status` are its row; `registered`, `balance`, `wallet` and `pending` are Arc;
`position` is what each trade has done to the capital and `again` what was freed that no trade was
holding; `job` is what each request read, planned and heard.

| code | actions |
|---|---|
| `POST /v1/mandates` | `Create`, `Registered` / `NotRegistered` |
| `POST /:id/fund` | `AskFund`, `BuyerRead` / `BuyerUnread`, `Registered` / `NotRegistered`, `BackingRead` / `BackingUnread`, `FundBacked` / `FundShort` |
| `POST /:id/withdraw` | `AskWithdraw`, `PlanRead` / `PlanRefused`, `BookOnly` / `BookRelease` / `BookRefused`, `ReleaseAnswered` |
| `MandateVault.executeRelease`, `deposit`, `executePayout` | `ReleaseMined`, `ReleaseReverted`, `ReleaseTimesOut`, `MinedLate`, `Deposit`, `Pay` |
| `allocate` | `Reserve` |
| `release` | `GiveBack` (an arming that failed, an unwinding), `Mature` (a signed trade matured or sold on) |
| `retireAllocatedCapital` | `WriteOff` |
| a trade's own row | `Hear` (it records a payout), `Revive` (it is written live again) |

It composes with Settlement through the store's three calls, which look at amounts and at no
trade: `Release` and `Retire` take a price off the row whoever calls. What stands before them is
what the routes check. A reserved trade fails or is unwound also when the vault has paid for it
unheard (`Pay` and no `Hear`); a failed one may still be unwound; a crash between the release and
the trade's row (`Writes`) leaves a trade that is released again; and a second request may free,
pay or revive a trade under the first (`Overlapping`). The sweep a withdrawal starts with is
Settlement's; here it is a `GiveBack` that may come before it.
`Scale` is how many units of the book one unit of USDC settles; the code's
`toSettlementAmount` multiplies by a rational, and at the deployed scale it is a division.

**MCMandateCapital.tla** gives its instances, **MandateCapitalProofs.tla** its theorems.

**DvpEscrow.tla** is the escrow contract, **MandateVault.tla** the vault that extends it: the cash
leg as two contracts, each external function one atomic action with its reverts as guards.
`lock`, `revealed` and `token` are the escrow's storage and the USDC ledger; `balance`, `buyer`,
`payout`, `payoutLock` and `consumed` are the vault's. Nothing of the backend is assumed: whoever
is the attester relays any release or payout with any authorisation, wallets open, claim and refund
locks of their own under any id, and anybody reclaims. A secret is known to whoever is to use it.
Payees are wallets, money reaches the vault by `deposit` only, and every lock is of USDC.

**PayoutLedger.tla** is what that leg promises, with no locks, transfers or authorisations in it:
a match is bound once, leaves its own mandate's fund once, and is paid while its window is open or
returned after it, never both. MandateVault implements it under `Ledger`: a match is `open` while
a lock the vault opened for it is locked, `paid` once that lock's preimage is published, `returned`
otherwise.

**MCMandateVault.tla** gives the instance, **MandateVaultProofs.tla** the theorems. Settlement and
MandateCapital see of these contracts only what their code calls: a payout that has executed once
for a trade, a balance that pays no more than it holds.

**Maturity.tla** is how a sold receivable ends. `invoice`, `trade`, `capital`, `ledger`, `record`,
`rating` are the store's rows, `owner` the instrument, `schedule` the network's scheduled
transactions; `job` and `todo` are as in Settlement. A position may still be resold over either
rail while an observer is under way; such a sale is its two legs here, and its delivery may be
answered an error whether or not it was made (`Deliver`, then `FailSale`), after which the rows and
the instrument name different owners.

| code | actions |
|---|---|
| `settleAtMaturity` | `Observe`, `Mature` and the writes `WriteOutcome`, `WriteRating`, `WriteRelease`, `WriteStatus` |
| `recordDefault` | `Default`, `DefaultOverPayment`, `DefaultReleases` |
| `schedulePayout`, `schedule.ts` | `RequirementsBuilt` / `RequirementsFail`, `PayoutScheduled` / `PayoutNotScheduled`, `ScheduleAnswered`, `StatusRead`, `WriteScheduled` |
| a resale meanwhile | `PayFromVault`, `ArmToSign`, `Unwind`, `Deliver`, `RecordSale` or `FailSale`, `HandOver`, `Relist`, `Delist` |
| time, the network, the process | `Day`, `ScheduleEnds`, `Crash` |

**Receivable.tla** is a receivable before it is sold. `row` and `job` are the store's rows,
`link` the confirmation tokens, `pending` and `worker` the queue of the issuance service in
memory, the claim and `record` of a receivable the two registries; bonds are numbered as deployed.

| code | actions |
|---|---|
| `POST /v1/invoices` | `AskRegistry`, `RegistryAnswered` with `InsertRow`, then `Enqueue` |
| `services/issuance.ts` | `Take`, `Submit`, `DeployAnswered`, `Persist`, `BackoffEnds`, `ClaimAnswered`, `ListingAnswered`; at start `Restart` |
| `services/confirmation.ts`, `POST /confirm` | `RequestConfirmation`, `Expire`, `Decide`, `TellingEnds` |
| list, delist | `Offer`, `Withdraw` |
| the world | `ClaimedElsewhere`, `InFlightLands` at a `Crash` |

**InvoiceRegistry.tla** is the two registries on Hedera, **MandateBook.tla** the book that extends
it, each external function an action with its reverts as guards: `PostMandate`, `CreditFunding`,
`ReleaseCommitted`, `AuthoriseRelease`, `SetMandateStatus`, `MatchInvoice`, `ConfirmSettlement`,
`CancelMatch`, `ConfirmMaturity`, with the delivery locks of the escrow (`OpenLock`, `ClaimLock`,
`RefundLock`). The compliance gate is `CanReceive`, the integer price `Price`. With `Diligent` a
seller locks within the window and confirms what was claimed at once; without it nobody does
anything in time.

**TwoLegs.tla** composes the book with what it knows of the vault on Arc through an honest relay
that is slow, skips about and repeats itself: `RelayDeposit` carries deposits to the book,
`RelayRelease` and `RelayPayout` carry authorisations to the vault, whose locks are claimed
(`ClaimPayout`) or given back (`ReclaimPayout`). The registries relay only "confirmed" in its run.

**Market.tla** is how a standing bid becomes a trade. Pricing (`Tenor`, `Discount`, `Proceeds`),
the screens (`Screened`, `Fits`), the ranking (`Better`, `BestQuote`) and the fall-through over
refused buyers (`Pool`, `Offers`) are operators in the shape of `shared/pricing`; so are the agent's own
(`Decides`, `Accepts`, `Prefers`, `PickBest`), translated from the agent's code and not from the
venue's.

| code | actions |
|---|---|
| `GET /v1/quotes`, `materialiseQuote` | `Look`, `Materialise` |
| `POST /v1/trades` | `SellerArms` / `AgentArms` (`Arm`: the quote is re-priced), `GateRefuses`, `Reserve`, `RailFails`, `VaultSettles`, `Challenges` |
| paying, giving up, the sweep | `Payment`, `PaymentDeclined`, `GivesUp`, `DoesNotPay`, `Unwind`, `Reclaim` |
| `tick` of the agent | `ReadMandates`, `ReadBook`, `Pass`, `Take`, `QuoteAgrees` / `QuoteDiffers`, `AgentArms` / `ArmRefused`, `AgentPays`, `EndTick`, `TickFails` |

Settlement takes any price of a small set and Market any verdict of a rail: each leaves to the
other what it does not decide.

**Funding.tla** is the agent's funding command against Circle, which answers before anything
happened: a run reads the shortfall, approves and deposits (`ReadVault`, `PlanDeposit`, `Approve`,
`ApprovalAwaited`, `MakeDeposit`, `DepositAwaited`, `Conclude`), may time out or die anywhere and
is resumed under its key (`Start`), while `Land` and `Dropped` decide what Circle does with what is
queued and `OthersDeposit` and `Leaves` move the balance behind its back.

**Totals.tla** defines the sum of a function over a finite set, which Settlement, MandateCapital,
MandateVault, MandateBook, TwoLegs and Market state their balances with; **TotalProofs.tla** proves how a sum
changes when its set or one of its terms does.

**MCMaturity, MCReceivable, MCMandateBook, MCTwoLegs, MCMarket, MCFunding** give the instances;
**MaturityProofs, ReceivableProofs, MandateBookProofs** (of TwoLegs too), **MarketProofs** and
**MandateVaultProofs** (of Funding too) the theorems.

## Runs

| run | instance | shows |
|---|---|---|
| SettlementRaces | 1 invoice, 1 mandate, 1 signature, 2 trades, 2 requests, 1 crash | `DeliveredImpliesPaid`, `SettledMeansBothLegs`, `OneRail`, `CapitalWithinFunded` |
| SettlementSerial | 2 mandates of 3, prices 1 and 2, 2 trades, 2 signatures, 1 request, lost answers | `AllocationExact`, `FreeCapitalBacked`, `HolderOwnsPaper` |
| SettlementEnds | 1 trade, 2 requests, fairness | `ArmedTradesEnd` |
| CapitalSerial | limit 4, 2 units to one of USDC, 2 trades, 1 request, 1 crash, capital freed again | `BookWithinVault`, `QuotedIsBacked` |
| CapitalRaces | limit 2, 1 trade, 2 requests, late transactions, 1 crash | `WithinCommitment`, `CloseStrandsNothing` |
| PaymentLeg | 2 wallets, 2 mandates, 1 match, 2 lock ids, 2 authorisations, 1 deadline | `Solvent`, `PaidAsBound`, `Reclaimable`, `ImplementsLedger` |
| Maturity | 1 invoice, 2 buyers, one of them vaulted, 2 requests, 2 schedules, lost answers, 1 crash, fairness | `StatusFollowsLedger`, `CountedOnce`, `PaysTheOwner`, `LossKept`, `PaymentSeenThrough` |
| Book | 2 invoices, 2 bonds, 2 receivables, 1 mandate, the buyer as settler, careless sellers | `AllocatedIsOpen`, `ExposureExact`, `OneSalePerReceivable`, `PreviewNeverReverts` |
| TwoLegs | 1 invoice, 2 deposits, 2 attempts, diligent sellers, no settler, fairness | `Conserved`, `CancelledMeansUndelivered`, `DeliveryIsPaid`, `NothingStranded` |
| Receivable | 2 invoices, 2 receivables, 2 requests, 2 links, 1 rival, 2 attempts, 1 crash, fairness | `OneRowPerReceivable`, `RegistryFollowsRow`, `ConfirmedOnChainIsAnswered`, `AnswerStands`, `IssuanceConcludes` |
| Market | 1 agent with 2 mandates, 1 rival mandate, 2 invoices of 1 debtor, 2 days, 2 quotes, 2 trades, 2 requests | `TickWithinMandates`, `PartsOnlyByRoom`, `NeverBelowAccepted`, `LimitsBrokenOnlyByRaces`, `PaysUnderItsOwnQuote` |
| Funding | 1 mandate, 3 keys, 4 runs, 5 units in the wallet for 3 required, 2 units of others, 1 that leaves | `NothingPostedTwice` |

Why these bounds are enough. Two requests are what a race needs: every conflict in the code is
between one request that read the row and one that wrote it. Two trades of one invoice are what
a resale and a double sale need. One crash reaches every window between two writes. The runs that
need many trades have few requests and the runs that need many requests have one invoice, because
the product does not fit; what a run leaves out is never the thing it is about, and where a
property is also proved, the theorem has no such bound. In SettlementSerial any call may
land and be heard as an error, and a client may ask to unwind any trade, failed ones too. In
SettlementRaces no answer is lost: overlap and a crash are its subject, and its theorems have all three.

In the capital runs a limit of 4 with two book units to one of USDC makes every conversion of
an odd amount leave a remainder, and gives a mandate two trades of different prices. What is
quoted is backed only while requests come one at a time and no transaction is late, so
CapitalSerial has one request and `Late` is false; CapitalRaces, which has both, states what
survives them. A request slot has one late release at most, and `MaxAgain` bounds what is freed
again: in CapitalSerial by the most its two trades can free with one crash (9), in CapitalRaces by
one price.

In the payment leg two mandates and a shared token are what spending another's capital needs;
two lock ids let a wallet take the id a payout will name, or a match have two locks; two
authorisations let a payout follow a payout or a release; and the clock passes the deadline once.

In Maturity two overlapping observers, a default and one resale meet one crash and one lost answer;
two buyers, one on each rail, let the owner change while a payout is arranged, by a delivery the
rows know of or not. In Book, two invoices over two bonds and two receivables are what selling one under both needs. In TwoLegs two deposits
let the relay reorder and repeat, two attempts let a match follow a cancelled one. In Receivable,
two attempts and a crash let a deployment be lost, repeated and superseded by another process's. In
Market two of one agent's mandates share a yield, and come to the same depth with different room for
the debtor, so that agent and venue do part; the rival's bid is the better one, two days change every price, and one debtor makes the caps bind. In Funding
four runs let a run be resumed and another run follow it.

Fairness. In Settlement a started handler runs to its next await (`WF` on `Handler` and
`StoreWrite`: Node runs its queue). A call is answered, since every adapter has a timeout (`WF` on
`Outside`). A release that is retried for ever lands (`SF` on `HoldReleased`): an instrument that
refuses for ever is the one case in which nothing can end the trade. Time passes (`WF` on `Age`).
Some trade or mandate route keeps being called (`SF` on `Sweep(r, "idle")`): the code sweeps on
reads and has no timer, and says so. Nobody has to list, arm, pay or unwind.

In Maturity, writes and awaits end (`WF` on `StoreWrite` and `Payout`), and the operator presses the
route of a recorded payment again whenever it would be answered (`SF` on `Retry`): after a crash the
code waits for that and for nothing else. In Receivable, writes return, the queue's worker goes
on (`WF` on `Work`: its own timers) and a dead process is started again (`WF` on `Restart`, where
`resume` reads the rows back). In TwoLegs, blocks come (`WF` on `Tick`), a claimed lock is
confirmed, an overdue match is cancelled, and the relay does not give an authorisation up (`WF` on
each): `cancelMatch` and `confirmSettlement` may be called by anybody once they are due. Nobody has
to deposit, post, match, lock or claim.

MandateCapital, MandateVault, Market and Funding state no fairness: nobody has to claim or reclaim
a payout, and a withdrawal that is never answered leaves the mandate open, which is what the code
promises.

## What the code does not promise

Modelling met statements that are natural to expect and that some order of events breaks. The
properties are stated so as to hold of the code as it is; these are the edges they stop at.

- *An unwind passes a cash leg.* `unwind` reads the cash columns, awaits `releaseHold` and writes
  `unwound`; a payment or payout that lands meanwhile is in no column it read.
- *A failed trade gives its capital back twice.* `abandon` frees the capital and leaves the trade
  `failed`, which `unwind` does not refuse. `AllocationExact`, `FreeCapitalBacked` and
  `QuotedIsBacked` grant exactly these amounts (`FreedAgain`, `again`).
- *A payout that landed but was heard as an error* is abandoned, its capital released, and the
  invoice stays for sale: the mandate quotes what the vault has paid (`PaidUnawares`, `Unheard`), and
  a second trade may draw a second payout.
- *A payout goes to a former owner*: a resale over x402 that is delivered and answered an error
  fails the trade and leaves the seller the live holder; delisting puts the invoice back to sold, and
  maturity schedules the face value to them (`SoldUnheard` in `PaysTheOwner`).
- *A crash after the hold was released* and before the capital is, leaves a trade whose every later
  unwind fails at the instrument.
- *Two fundings share a deposit*: the funding route compares the deposit with the total it read
  before it awaited the vault; the store adds to the total it finds.
- *Capital comes back twice at maturity* when the process dies between `release` and the write of
  `matured`; only the second write marks a finished run.
- *Two payouts of one receivable are scheduled* when two observers both read no schedule, or an
  answer is lost.
- *Agent and venue rank differently*: `pickBest` says that it mirrors the order of `bestQuote`
  exactly (`agent.ts:710`), but between bids of one yield and depth `bestQuote` prefers the one with
  more room for the debtor (`best-quote.ts:169`) and `pickBest` the lower id. `PartsOnlyByRoom` says
  that this is the only difference. The agent then finds another mandate in the quote and skips the
  row (`QuoteDiffers`).
- *An agent pays for a rival's paper*: arming may move the trade to another buyer's mandate that
  came free since the quote, and neither the answer nor the payment compares the two.
- *Receipts of the funding command mislead* after a resumed run whose larger approval failed: they
  say no capital moved while the first deposit is live. A final balance that others raised counts
  as the run's own deposit.

## Proofs

All theorems hold for every value of the constants allowed by the modules' assumptions:
any number of requests, trades, mandates, matches, deposits and crashes. Where a theorem needs
more, it says so in its ASSUME. Every inductive invariant was model-checked on an instance first.

**Sums** (`TotalProofs`). Most balances are sums over sets no theorem bounds. `Total` folds over a
finite set in some order; `FoldsTo` characterises its running sum, and an induction over
cardinalities, with the good ones as a set rather than a predicate, shows that the order does
not matter. From this come the facts cited everywhere: `TotalAdd`, `TotalRemove`, `TotalSame`, `TotalMove`,
`TotalEnter`, `TotalLeave`, `TotalShift`, `TotalSplit`, `TotalCover`, and `TotalScaled` for sums of
rounded conversions.

**SettlementProofs**. `TypeCorrect`: `TypeOK` alone is not inductive, since a write takes its terms
from the queue and a handler from the row of the trade it serves, so `TypeInv` adds `WellFormed`,
that a request past the gate and a trade that exists carry real terms. `DeliveryAfterPayment` and
`SettledIsTrue`: `DvpInv` ties what a request is about to do to what has happened outside: a
request at `deliver` has a payout executed, at `deliverPaid` a settled payment (`JobHonest`); a
queued write of `settled` is for a trade whose hold executed (`WritesHonest`); and a trade not yet
inserted has nothing outside (`FreshApart`). `OneRailOnly`: `RailInv` says which path a trade is
on, whether that stands in its row or in a write still queued, and that at most one request
arms it. `NeverOverAllocated`: from the store's own re-check of the headroom.
`CommittedIsInVaultOrDrawn`, in every order of requests, crashes and lost answers: what a mandate in
the vault committed is what the vault holds for it and what was drawn by trades that were not sold
on. `FundedInv` adds that a request at work keeps its trade's terms and that what was sold on was
paid.

`CapitalAccounted`, `PaperHasOneHolder` and `FreeIsBacked` assume `OneAtATime`: one request at most
and no crash. Without it the first and the last are false: a second request, or a crash between two
writes, leaks capital or frees more than the unwound failures that the statements name. Whether the
second needs all of it is open. `SerialInv` says what one
request may rely on. `InStep`: the row is as its handler read it, the first queued write finds it so
(`Ready`), and the others follow from the first (`TodoFit`, `JobFit`). `OneHolder`: two settled
trades of one invoice are live only between the writes of a handover. `Balanced`: an allocation is
the sum of the promised trades' prices between two writes too, where a trade about to be inserted
counts already and one about to end no more, less at most the prices of the failures unwound
(`FreedAgain`). `LockFit` adds that a payout the row knows of is cash
and cash is not unwound; with it and `FundedInv`, what the vault lacks was drawn by trades that are
promised or were paid unheard (`TotalCover`).

**MandateCapitalProofs**. `CapitalTyped`, `NeverOvercommitted`, `StaysClosed`: `LedgerInv` adds to
the types that nothing is committed in a closed mandate; each store call keeps it by what it
re-reads, whatever the request had read before. `NothingStranded`: `VaultInv` says what a
withdrawal knows of the balance it read: until a deposit comes it only fell, and by the release
once that was seen. `AllocationIsHeld`: the row's allocation is at most the sum of what the trades
hold and short of it by at most `again`, for overlapping requests, repeated releases and crashes
between the two writes of one. `VaultBacksTheBook` and `QuotesAreBacked` assume `OneAtATime`, one
request at most and no late release, because the statements are false otherwise (two fundings share a
deposit; a late release leaves after a new funding). `BackedInv` adds what each request under way
knows (`JobBacked`): the balance a funding read still covers what it will commit, and a planned
release leaves what the rest of the book needs, rounding included. What was drawn is counted whether
or not the trade heard of it; an active mandate's offer is then short by `again` and by the payouts
of trades given up unheard.

**MandateVaultProofs**. `VaultTyped`, `PayoutAsBound`, `PayoutTraceable`: `VaultInv` ties the two
contracts together: a lock never opened is blank and only a claim publishes a preimage (`Blank`),
only a record bound in full is paid out (`Whole`), and every lock whose depositor is the vault is
the one lock of one executed payout (`OneEach`). `VaultSolvent`: with it, every transfer between a
holder, the vault and the escrow moves both sides of `Solvent` alike; that a transfer is never to
its own sender is where the vault and the escrow being two contracts matters.
`VaultImplementsLedger`: the refinement, action by action; what wallets do with locks of their own
is a stutter of the ledger (`ForeignHidden`).

The same module proves `ShortfallMadeUpOnce` of Funding. `NothingPostedTwice` is not inductive: it
says nothing of deposits that have not landed. `FundingInv` bounds what was deposited behind a
mandate together with all that may still land (`Fit`). It stays bounded because others put at least
as much behind it as deposits under an earlier key may still land, and as all of them may for a
mandate the operator heard the end of; and because a run that has not made its deposit read a
balance to which nothing of the wallet was added since. `QueueFit`: a request is queued once, while
it is live, so that an answer takes it out of the sum exactly (`PendingLess`, `PendingMore`).

**MandateBookProofs**. `BookInvAlways`, `PreviewTotal`, `OneSale`: `BookInv` says that terms are
sound, that a match is struck as its invoice was listed and that a receivable or bond is listed
once. `CancelsUndelivered` assumes diligent sellers and no settler: deadlines of locks, of the
window and of the match are ordered so that what is cancelled can no longer be claimed, whatever
their lengths. `AllocatedExact` and `ExposureWithinCap`: `Sums` relates allocation and exposure to
the prices of the open matches and of those at stake; a match enters, changes or leaves a sum as
its status does. `LegsConserve`: `LegsInv` adds the shapes of deposits and authorisations, and that
nothing is counted for a mandate before it is posted; for each kind of step both
sides of `Conserved` change alike, for deposits and relays in any number and order.
`RelayNeverReverts`: from the same invariant, what was authorised can always be paid.
`LegsCancelsUndelivered`: the argument of `CancelsUndelivered` in the composition.

**MaturityProofs**. `MaturityInv` holds the story together across crashes: a sale in flight is the
only one of its invoice (`SalesApart`), rows and instrument differ on the owner only by a sale in
flight or a delivery recorded as failed (`Parted`), a queued status has its outcome in the ledger or ahead of
it in the queue (`WritesFollow`), a request that arranges a payout acts for the live holder of a
receivable that has matured or will before anything else runs (`JobsFollow`), and what was given
back was paid (`ReturnedIsPaid`). From it follow `StatusFollows`, `PayoutsFindTheOwner`,
`LossIsKept` and `MarksStay`. `EachIsCountedOnce`: a write that enters a receivable in the ledger
raises one counter and one cardinality, and every other write leaves both.

**ReceivableProofs**. `ReceivableInv`: an invoice is on its way through the queue once
(`QueueFollows`), a bond the worker knows was deployed for it (`BondsFollow`), a claim or a record
that is ours names the row's bond (`ClaimsFollow`), and a live link is the only one of an unanswered
invoice (`AnswersFollow`). From it: `OneRow`, `RegistriesFollow`, `ConfirmedIsAnswered` and, as an
action property, `AnswersStand`.

**MarketProofs**. `MarketInv` says that a trade, a request and an agent keep honouring the quote
they started from (`TradesHonour`, `RequestsHonour`, `AgentsHonour`) and that an agent has one
request at most and waits for it: `SellersGetWhatTheyAccepted`, `AgentsPayUnderTheirQuotes`.
`LimitsInv` adds that what waits at the gate still fits its mandate unless another reservation on it
came first, which then marks the trade raced (`GateFits`): `OnlyRacesBreakLimits`. `TicksInv` says
what a tick took fits what it read: `TicksStayWithin`. `AgentRanksAsTheVenue` compares the two
implementations of the screens and of the order, which part over the room and nothing else; that there is a best bid to compare rests on a
finite set of numbers having a least and a greatest.

The assumptions on constants are the named `ASSUME`s of the modules, each evaluated by the runs:
finiteness of what is summed over, amounts and times that are natural numbers, and values such as
`Null` or `"a browser"` that are no member of what they stand beside.

Only model-checked:

- *Liveness* (`ArmedTradesEnd`, `PaymentSeenThrough`, `IssuanceConcludes`, `NothingStranded`) and
  what rests on ENABLED: out of the prover's reach.
- *`DeliveryIsPaid`*, that the relay brings what a delivery is owed, is liveness too.
- *What a recursive definition would compute for every input*: there is none; the sums of
  `TotalProofs` are folds, whose characterisation is proved by induction on cardinality.

Every invariant a run checks is also stated by a theorem.

## Not modelled, and why

- *The awaits inside an arming before the reservation* (`routes/trades.ts:170`, `171`: pricing and
  the record of refusals), between the checks of listing and quote and the reading of mandate and
  holder: `ArmTrade` and Market's `Arm` make one step of them.
- *The amount an operator may name* to the funding command (`agent/src/vault.ts:392`,
  `fund.ts:183`): `--amount` skips the check that the mandate is backed already and may post past its
  requirement, so `NothingPostedTwice` is about runs without it.
- *The cast of a tenor to 32 bits* (`MandateBook.sol:562`): days are far below 2^32 for any due date
  within some eleven million years of now; `Tenor` is the identity there.
- *The choice of rail on a resale* (`routes/trades.ts:393`) in Settlement: any rail is taken, so who
  is asked is not told apart.
- *What the payout's recipient does*: in Settlement a payout that executed has paid. That it can be
  claimed, or lapses and is reclaimed to the mandate, is MandateVault's; no code of the backend
  calls `reclaimPayout`.
- *A deployment without a vault*, an address already bound to another wallet, and the posting of a
  mandate to the book: the mandate routes then only write the row, and no route acts on the verdict.
- *Roles*: the owners' grants of attesters, issuers and settlers are those of the deployment.
- *The delivery leg's escrow instance* that no code of the backend uses.
- *Refusal receipts, the batch form of pricing, dry runs and the budget in tinybars* of the agent.
- *Consensus log, indexer, profiles, wallet policies, proof and health routes, web client,
  scripts*: publication after the fact, one row per request, read-only views and fixtures; nothing
  the models decide depends on them.
- *Canonical hashing, ISIN check digits, signing, encoding, gas*: functions of strings and bytes, of
  which the models use only that equal receivables hash alike.

----------------------------- MODULE Settlement -----------------------------
(***************************************************************************)
(* The trade lifecycle of the backend: arming, paying, delivering and      *)
(* unwinding a sale over either cash rail, with every request of the       *)
(* process running concurrently.                                           *)
(*                                                                         *)
(* The backend is one Node process over a synchronous SQLite store.  A     *)
(* request runs alone until it awaits something outside the process (the   *)
(* Hedera instrument, the Arc vault, the x402 facilitator), so requests    *)
(* interleave at those awaits and nowhere else; but the process may die    *)
(* between any two store writes.  Hence:                                   *)
(*   - `job` holds, for every request, the outside call it waits on;       *)
(*   - `todo` is the run of store writes the current request still has to  *)
(*     make before its next await; nothing but the next write, or a crash, *)
(*     happens while it is not empty;                                      *)
(*   - a call that changes the outside world lands in one step and is      *)
(*     heard of in a later one, so the row can be stale in between.        *)
(* The outside world is modelled by how the backend uses it.               *)
(***************************************************************************)
EXTENDS Integers, Sequences, FiniteSets, Totals

CONSTANTS
    Invoices,    \* receivables whose instrument has been issued
    Mandates,    \* standing bids; each stands for the buyer who funds it
    Originator,  \* the seller that raised the invoices
    Quotes,      \* quotes that may be issued
    Requests,    \* requests the process may be serving at one time
    Payments,    \* signed x402 payments buyers may present
    Prices,      \* proceeds a sale may be priced at
    MaxTrades,   \* bound: trades ever armed
    Funded,      \* capital each mandate starts with, fully unallocated
    Escrowed,    \* mandates whose capital was deposited in the Arc vault
    Resellers,   \* mandates of the buyers whose resale key the venue holds
    Lossy,       \* a call may land outside and still be heard as an error
    MaxCrashes   \* bound: times the process may die

ASSUME ConstantsAssumption ==
    /\ MaxTrades \in Nat
    /\ MaxCrashes \in Nat
    /\ Prices \subseteq Nat \ {0}
    /\ Funded \in [Mandates -> Nat \ {0}]
    /\ Escrowed \subseteq Mandates
    /\ Resellers \subseteq Mandates
    /\ Lossy \in BOOLEAN

Trades == 1..MaxTrades
NoTrade == 0
Parties == Mandates \cup {Originator}

(* What one sale was priced at: the intent, frozen onto the trade row.      *)
Terms == [invoice : Invoices, quote : Quotes, mandate : Mandates,
          seller : Parties, price : Prices]
NoTerms == [invoice |-> "none"]
NoPayment == "no payment"

VARIABLES
    invoice,   \* invoice row status
    quote,     \* quote row: the invoice it prices and its status
    row,       \* trade rows
    capital,   \* mandate rows: funded, allocated, status
    job,       \* what every request of the process is doing
    todo,      \* store writes still to make before the next await
    owner,     \* on the instrument: who owns the whole position
    hold,      \* on the instrument: each trade's hold
    vault,     \* on Arc: each mandate's balance in MandateVault
    payout,    \* on Arc: each trade's payout binding
    paid,      \* at the facilitator: payments settled for each trade
    clock,     \* settlements stamped so far: orders settledAt
    crashes    \* times the process has died

rows == <<invoice, quote, row, capital>>
chain == <<owner, hold, vault, payout, paid>>
bounds == <<clock, crashes>>
vars == <<invoice, quote, row, capital, job, todo, owner, hold, vault,
          payout, paid, clock, crashes>>

-----------------------------------------------------------------------------
(* Types.                                                                   *)

InvoiceStatus == {"confirmed", "listed", "sold"}
QuoteStatus == {"none", "live", "accepted", "expired"}
TradeStatus == {"none", "preparing", "awaiting_payment", "settled", "unwound",
                "failed"}
MandateStatus == {"active", "exhausted"}
Rail == {"none", "x402", "arc-vault"}

Row == [status : TradeStatus, terms : Terms \cup {NoTerms}, rail : Rail,
        holdId : BOOLEAN, cashTransaction : BOOLEAN, arcLockId : BOOLEAN,
        superseded : BOOLEAN, settledAt : Nat, stale : BOOLEAN]

NoRow == [status |-> "none", terms |-> NoTerms, rail |-> "none",
          holdId |-> FALSE, cashTransaction |-> FALSE, arcLockId |-> FALSE,
          superseded |-> FALSE, settledAt |-> 0, stale |-> FALSE]

Capital == [funded : Nat, allocated : Nat, status : MandateStatus]

(* The awaits of a request: reads first, then the calls with an effect.     *)
Reads == {"gate", "rail", "position", "challenge", "requirements", "verify"}
Calls == {"createHold", "register", "payout", "deliver",
          "settle", "deliverPaid", "releaseHold"}

(* A request that sweeps expired trades first is at "reclaim" with the       *)
(* `batch` it listed.  What comes `after` is nothing, for a route that only  *)
(* reads, or its own handler, which the sweep neither knows nor changes: it  *)
(* is told apart when it starts.                                             *)
Handlers == {"idle", "start"}

Job == [pc : Handlers \cup {"reclaim"} \cup Reads \cup Calls,
        heard : {"nothing", "ok", "error", "declined"},
        trade : Trades \cup {NoTrade}, terms : Terms \cup {NoTerms},
        payment : Payments \cup {NoPayment}, rail : Rail,
        batch : SUBSET Trades, after : Handlers]

IdleJob == [pc |-> "idle", heard |-> "nothing", trade |-> NoTrade,
            terms |-> NoTerms, payment |-> NoPayment, rail |-> "none",
            batch |-> {}, after |-> "idle"]

WriteOps == {"insert", "release", "failed", "armed", "armedVault", "locked",
             "sold", "accepted", "handover", "settled", "paidSettled",
             "paidFailed", "unwound", "expired"}
Write == [op : WriteOps, trade : Trades, terms : Terms]

HoldState == {"none", "held", "executed", "released", "expired"}
PayoutState == {"none", "registered", "executed"}

TypeOK ==
    /\ invoice \in [Invoices -> InvoiceStatus]
    /\ quote \in [Quotes -> [invoice : Invoices \cup {"none"},
                             status : QuoteStatus]]
    /\ row \in [Trades -> Row]
    /\ capital \in [Mandates -> Capital]
    /\ job \in [Requests -> Job]
    /\ todo \in Seq(Write)
    /\ owner \in [Invoices -> Parties]
    /\ hold \in [Trades -> HoldState]
    /\ vault \in [Mandates -> Nat]
    /\ payout \in [Trades -> PayoutState]
    /\ paid \in [Trades -> SUBSET Payments]
    /\ clock \in Nat
    /\ crashes \in Nat

Init ==
    /\ invoice = [i \in Invoices |-> "confirmed"]
    /\ quote = [q \in Quotes |-> [invoice |-> "none", status |-> "none"]]
    /\ row = [t \in Trades |-> NoRow]
    /\ capital = [m \in Mandates |->
           [funded |-> Funded[m], allocated |-> 0, status |-> "active"]]
    /\ job = [r \in Requests |-> IdleJob]
    /\ todo = <<>>
    /\ owner = [i \in Invoices |-> Originator]
    /\ hold = [t \in Trades |-> "none"]
    /\ vault = [m \in Mandates |-> IF m \in Escrowed THEN Funded[m] ELSE 0]
    /\ payout = [t \in Trades |-> "none"]
    /\ paid = [t \in Trades |-> {}]
    /\ clock = 0
    /\ crashes = 0

-----------------------------------------------------------------------------
(* The store.                                                               *)

(* Mutated form: subtraction is not clamped.                                *)
Unclamped(n) == n

AtLeast0(n) == IF n < 0 THEN 0 ELSE n
Free(m) == AtLeast0(capital[m].funded - capital[m].allocated)
TermsOf(t) == row[t].terms

Exists(t) == row[t].status # "none"
Armed(t) == row[t].status \in {"preparing", "awaiting_payment"}
On(i) == {t \in Trades : Exists(t) /\ TermsOf(t).invoice = i}

(* The trade that holds an invoice's paper, among the trades of S.          *)
HolderAmong(i, S) ==
    LET live == {t \in On(i) \cap S :
                     row[t].status = "settled" /\ ~row[t].superseded}
    IN  IF live = {} THEN NoTrade
        ELSE CHOOSE t \in live :
                 \A u \in live : row[u].settledAt <= row[t].settledAt
CurrentHolder(i) == HolderAmong(i, Trades)
PartyHolding(i) == IF CurrentHolder(i) = NoTrade THEN Originator
                   ELSE TermsOf(CurrentHolder(i)).mandate

(* Trades are numbered in the order they are armed, so the newest is the    *)
(* largest.                                                                 *)
IsNewest(i, t) == t \in On(i) /\ \A u \in On(i) : u <= t
IsNext(t) == ~Exists(t) /\ \A u \in Trades : Exists(u) <=> u < t

(* Mandate rows.  Giving capital back reopens an exhausted mandate; capital *)
(* that left the vault is retired from both totals.                         *)
Allocate(c, n) ==
    [c EXCEPT !.allocated = @ + n,
              !.status = IF c.allocated + n >= c.funded THEN "exhausted" ELSE @]
Reopened(c) ==
    [c EXCEPT !.status = IF @ = "exhausted" /\ c.allocated < c.funded
                         THEN "active" ELSE @]
Release(c, n) == Reopened([c EXCEPT !.allocated = AtLeast0(@ - n)])
Retire(c, n) == Reopened([c EXCEPT !.allocated = AtLeast0(@ - n),
                                   !.funded = AtLeast0(@ - n)])

-----------------------------------------------------------------------------
(* Store writes, one action for each kind.                                  *)

RowOps == {"insert", "failed", "armed", "armedVault", "locked", "paidFailed",
           "unwound"}
Patched(r, w) ==
    CASE w.op = "insert" ->
           [NoRow EXCEPT !.status = "preparing", !.terms = w.terms]
      [] w.op = "armed" ->
           [r EXCEPT !.status = "awaiting_payment", !.holdId = TRUE]
      [] w.op = "armedVault" ->
           [r EXCEPT !.status = "awaiting_payment", !.holdId = TRUE,
                     !.rail = "arc-vault"]
      [] w.op = "locked" ->
           [r EXCEPT !.arcLockId = TRUE, !.cashTransaction = TRUE]
      [] w.op = "paidFailed" ->
           [r EXCEPT !.status = "failed", !.rail = "x402",
                     !.cashTransaction = TRUE]
      [] w.op \in {"failed", "unwound"} -> [r EXCEPT !.status = w.op]

WriteTrade(w) ==
    /\ w.op \in RowOps
    /\ row' = [row EXCEPT ![w.trade] = Patched(@, w)]
    /\ UNCHANGED <<invoice, quote, capital, clock>>

Settled(r, w) ==
    [r EXCEPT !.status = "settled",
              !.settledAt = clock + 1,
              !.rail = IF w.op = "paidSettled" THEN "x402" ELSE @,
              !.cashTransaction = @ \/ w.op = "paidSettled"]
WriteSettled(w) ==
    /\ w.op \in {"settled", "paidSettled"}
    /\ clock' = clock + 1
    /\ row' = [row EXCEPT ![w.trade] = Settled(@, w)]
    /\ UNCHANGED <<invoice, quote, capital>>

WriteRelease(w) ==
    /\ w.op = "release"
    /\ capital' = [capital EXCEPT
           ![w.terms.mandate] = Release(@, w.terms.price)]
    /\ UNCHANGED <<invoice, quote, row, clock>>

WriteSold(w) ==
    /\ w.op = "sold"
    /\ invoice' = [invoice EXCEPT ![w.terms.invoice] = "sold"]
    /\ UNCHANGED <<quote, row, capital, clock>>

WriteQuote(w) ==
    /\ w.op \in {"accepted", "expired"}
    /\ quote' = [quote EXCEPT ![w.terms.quote].status = w.op]
    /\ UNCHANGED <<invoice, row, capital, clock>>

(* Mutated form: the previous holder is never superseded.                   *)
KeepsHolder(w) ==
    /\ w.op = "handover"
    /\ UNCHANGED <<invoice, quote, row, capital, clock>>

(* Mutated form: capital that left the vault is reopened like any other.    *)
ReopensVaultCapital(w) ==
    /\ w.op = "handover"
    /\ LET previous == HolderAmong(w.terms.invoice, Trades \ {w.trade})
           terms == TermsOf(previous)
       IN  IF previous = NoTrade THEN UNCHANGED <<row, capital>>
           ELSE /\ row' = [row EXCEPT ![previous].superseded = TRUE]
                /\ capital' = [capital EXCEPT ![terms.mandate] =
                                   Release(@, terms.price)]
    /\ UNCHANGED <<invoice, quote, clock>>

(* handOverPosition: the sold position stops answering as the holder and    *)
(* gives its capital back; capital that left the vault is retired instead.  *)
WriteHandOver(w) ==
    /\ w.op = "handover"
    /\ LET previous == HolderAmong(w.terms.invoice, Trades \ {w.trade})
           terms == TermsOf(previous)
       IN  IF previous = NoTrade THEN UNCHANGED <<row, capital>>
           ELSE /\ row' = [row EXCEPT ![previous].superseded = TRUE]
                /\ capital' = [capital EXCEPT ![terms.mandate] =
                       IF row[previous].rail = "arc-vault"
                       THEN Retire(@, terms.price)
                       ELSE Release(@, terms.price)]
    /\ UNCHANGED <<invoice, quote, clock>>

StoreWrite ==
    /\ todo # <<>>
    /\ LET w == Head(todo) IN
         \/ WriteTrade(w)
         \/ WriteSettled(w)
         \/ WriteRelease(w)
         \/ WriteSold(w)
         \/ WriteQuote(w)
         \/ WriteHandOver(w)
    /\ todo' = Tail(todo)
    /\ UNCHANGED <<job, chain, crashes>>

-----------------------------------------------------------------------------
(* How a request moves on.                                                  *)

Running(r, pc) == todo = <<>> /\ job[r].pc = pc
Heard(r, pc, answer) == Running(r, pc) /\ job[r].heard = answer

GoOn(r, j, writes) ==
    /\ job' = [job EXCEPT ![r] = j]
    /\ todo' = writes
At(r, pc) == [job[r] EXCEPT !.pc = pc, !.heard = "nothing"]
Writes(ops, t, terms) ==
    [k \in 1..Len(ops) |-> [op |-> ops[k], trade |-> t, terms |-> terms]]
Do(r, ops) == Writes(ops, job[r].trade, job[r].terms)

(* After unwinding one trade a sweep takes the next of its batch, and after *)
(* the last the request's own handler starts; any other request has ended.  *)
Swept(batch, after) ==
    [IdleJob EXCEPT !.pc = IF batch = {} THEN after ELSE "reclaim",
                    !.batch = batch,
                    !.after = IF batch = {} THEN "idle" ELSE after]

(* Mutated form: a failed arming keeps the capital.                         *)
AbandonKeeps(r) == GoOn(r, IdleJob, Do(r, <<"failed">>))

(* Both kinds of arming give the capital back when they fail.               *)
Abandon(r) == GoOn(r, IdleJob, Do(r, <<"release", "failed">>))

(* unwind: refused once the row shows the trade ended or its cash moved.    *)
UnwindRefused(t) == \/ row[t].status \in {"unwound", "settled"}
                    \/ row[t].cashTransaction
                    \/ row[t].arcLockId
UnwindWrites(t) == Writes(<<"release", "unwound", "expired">>, t, TermsOf(t))
Unwind(r, t, batch, after) ==
    IF UnwindRefused(t) THEN GoOn(r, Swept(batch, after), <<>>)
    ELSE IF row[t].holdId
         THEN GoOn(r, [IdleJob EXCEPT !.pc = "releaseHold", !.trade = t,
                                      !.batch = batch, !.after = after], <<>>)
         ELSE GoOn(r, Swept(batch, after), UnwindWrites(t))

-----------------------------------------------------------------------------
(* Offering an invoice, and withdrawing the offer.                          *)

IssueQuote(q, i) ==
    /\ todo = <<>>
    /\ quote[q].status = "none"
    /\ quote' = [quote EXCEPT ![q] = [invoice |-> i, status |-> "live"]]
    /\ UNCHANGED <<invoice, row, capital, job, todo, chain, bounds>>

List(i) ==
    /\ todo = <<>>
    /\ \/ invoice[i] = "confirmed"
       \/ invoice[i] = "sold" /\ PartyHolding(i) \in Resellers
    /\ invoice' = [invoice EXCEPT ![i] = "listed"]
    /\ UNCHANGED <<quote, row, capital, job, todo, chain, bounds>>

(* Mutated form: trades that wait for a signature are not listed.           *)
StalePreparing == {t \in Trades : row[t].status = "preparing" /\ row[t].stale}

(* The handlers that settle a sale sweep the expired trades before they     *)
(* start; reading the trades does nothing else.                             *)
Stale == {t \in Trades : Armed(t) /\ row[t].stale}
Starting(r) == \/ Running(r, "start")
               \/ Running(r, "idle") /\ Stale = {}
Sweep(r, handler) ==
    /\ Running(r, "idle")
    /\ Stale # {}
    /\ GoOn(r, Swept(Stale, handler), <<>>)
    /\ UNCHANGED <<rows, chain, bounds>>

Reclaim(r, t) ==
    /\ Running(r, "reclaim")
    /\ t \in job[r].batch
    /\ \A u \in job[r].batch : t <= u
    /\ Unwind(r, t, job[r].batch \ {t}, job[r].after)
    /\ UNCHANGED <<rows, chain, bounds>>

Refuse(r) ==
    /\ Running(r, "start")
    /\ GoOn(r, IdleJob, <<>>)
    /\ UNCHANGED <<rows, chain, bounds>>

Delist(r, i) ==
    /\ Starting(r)
    /\ invoice[i] = "listed"
    /\ ~ \E t \in On(i) : Armed(t)
    /\ invoice' = [invoice EXCEPT ![i] =
                       IF CurrentHolder(i) = NoTrade THEN "confirmed" ELSE "sold"]
    /\ GoOn(r, IdleJob, <<>>)
    /\ UNCHANGED <<quote, row, capital, chain, bounds>>

-----------------------------------------------------------------------------
(* prepareTrade: what is checked here is not checked again.                 *)

ArmTrade(r, i, q, m, price) ==
    /\ Starting(r)
    /\ invoice[i] = "listed"
    /\ quote[q] = [invoice |-> i, status |-> "live"]
    /\ capital[m].status = "active"
    /\ price <= Free(m)
    /\ \E t \in Trades : IsNext(t)
    /\ GoOn(r, [IdleJob EXCEPT
                   !.pc = "gate",
                   !.terms = [invoice |-> i, quote |-> q, mandate |-> m,
                              seller |-> PartyHolding(i), price |-> price]],
            <<>>)
    /\ UNCHANGED <<rows, chain, bounds>>

GateRefuses(r) ==
    /\ Running(r, "gate")
    /\ GoOn(r, IdleJob, <<>>)
    /\ UNCHANGED <<rows, chain, bounds>>

(* Mutated form: the headroom read before the gate is trusted.              *)
GateAdmitsStale(r, t) ==
    LET terms == job[r].terms IN
    /\ Running(r, "gate")
    /\ IsNext(t)
    /\ capital' = [capital EXCEPT ![terms.mandate] = Allocate(@, terms.price)]
    /\ GoOn(r, [job[r] EXCEPT !.pc = "rail", !.trade = t],
            Writes(<<"insert">>, t, terms))
    /\ UNCHANGED <<invoice, quote, row, chain, bounds>>

(* The buyer is eligible: the capital is taken and the trade inserted.      *)
GateAdmits(r, t) ==
    LET terms == job[r].terms IN
    /\ Running(r, "gate")
    /\ IsNext(t)
    /\ terms.price <= Free(terms.mandate)
    /\ capital' = [capital EXCEPT ![terms.mandate] = Allocate(@, terms.price)]
    /\ GoOn(r, [job[r] EXCEPT !.pc = "rail", !.trade = t],
            Writes(<<"insert">>, t, terms))
    /\ UNCHANGED <<invoice, quote, row, chain, bounds>>

(* chooseRail: the vault when it can be read and covers the price.          *)
ChooseRail(r, rail) ==
    /\ Running(r, "rail")
    /\ rail = "arc-vault" => job[r].terms.mandate \in Escrowed /\
                             vault[job[r].terms.mandate] >= job[r].terms.price
    /\ GoOn(r, [At(r, "position") EXCEPT !.rail = rail], <<>>)
    /\ UNCHANGED <<rows, chain, bounds>>

Reserved(i) == \E t \in On(i) : hold[t] = "held"
Sellable(r) == /\ owner[job[r].terms.invoice] = job[r].terms.seller
               /\ ~Reserved(job[r].terms.invoice)

PositionRead(r) ==
    /\ Running(r, "position")
    /\ Sellable(r)
    /\ GoOn(r, At(r, "createHold"), <<>>)
    /\ UNCHANGED <<rows, chain, bounds>>

(* A read that fails, or finds no position, abandons the arming.            *)
ReadFails(r) ==
    /\ \E pc \in {"position", "challenge"} : Running(r, pc)
    /\ Abandon(r)
    /\ UNCHANGED <<rows, chain, bounds>>

HoldAnswered(r) ==
    /\ Heard(r, "createHold", "ok")
    /\ \/ /\ job[r].rail = "x402"
          /\ GoOn(r, At(r, "challenge"), <<>>)
       \/ /\ job[r].rail = "arc-vault"
          /\ GoOn(r, At(r, "register"), Do(r, <<"armedVault">>))
    /\ UNCHANGED <<rows, chain, bounds>>

(* The x402 rail: the trade waits for the buyer's signature.                *)
ChallengeBuilt(r) ==
    /\ Running(r, "challenge")
    /\ GoOn(r, IdleJob, Do(r, <<"armed">>))
    /\ UNCHANGED <<rows, chain, bounds>>

(* The vault rail: settled in the same request.                             *)
MatchAnswered(r) ==
    /\ Heard(r, "register", "ok")
    /\ GoOn(r, At(r, "payout"), <<>>)
    /\ UNCHANGED <<rows, chain, bounds>>

PayoutAnswered(r) ==
    /\ Heard(r, "payout", "ok")
    /\ GoOn(r, At(r, "deliver"),
            Do(r, <<"locked", "sold", "accepted", "handover">>))
    /\ UNCHANGED <<rows, chain, bounds>>

CallFails(r) ==
    /\ \E pc \in {"createHold", "register", "payout"} : Heard(r, pc, "error")
    /\ Abandon(r)
    /\ UNCHANGED <<rows, chain, bounds>>

(* Mutated form: settled whatever the instrument answered.                  *)
DeliverAssumed(r) ==
    /\ Heard(r, "deliver", "ok") \/ Heard(r, "deliver", "error")
    /\ GoOn(r, IdleJob, Do(r, <<"settled">>))
    /\ UNCHANGED <<rows, chain, bounds>>

(* The payout is locked, so a failed delivery is not abandoned.             *)
DeliverAnswered(r) ==
    /\ \/ Heard(r, "deliver", "ok") /\ GoOn(r, IdleJob, Do(r, <<"settled">>))
       \/ Heard(r, "deliver", "error") /\ GoOn(r, IdleJob, Do(r, <<"failed">>))
    /\ UNCHANGED <<rows, chain, bounds>>

-----------------------------------------------------------------------------
(* executeTrade: the buyer's signature, x402 only.                          *)

(* Mutated form: any armed trade takes a signature.                         *)
PayAnyRail(r, t, p) ==
    /\ Starting(r)
    /\ Exists(t)
    /\ IsNewest(TermsOf(t).invoice, t)
    /\ row[t].status = "awaiting_payment"
    /\ GoOn(r, [IdleJob EXCEPT !.pc = "requirements", !.trade = t,
                               !.terms = TermsOf(t), !.payment = p], <<>>)
    /\ UNCHANGED <<rows, chain, bounds>>

Pay(r, t, p) ==
    /\ Starting(r)
    /\ Exists(t)
    /\ IsNewest(TermsOf(t).invoice, t)
    /\ row[t].rail # "arc-vault"
    /\ row[t].status = "awaiting_payment"
    /\ GoOn(r, [IdleJob EXCEPT !.pc = "requirements", !.trade = t,
                               !.terms = TermsOf(t), !.payment = p], <<>>)
    /\ UNCHANGED <<rows, chain, bounds>>

(* A payment that fails from here on unwinds the trade.                     *)
UnwindPaid(r) == Unwind(r, job[r].trade, {}, "idle")

RequirementsBuilt(r) ==
    /\ Running(r, "requirements")
    /\ IF row[job[r].trade].status # "settled" /\ row[job[r].trade].holdId
       THEN GoOn(r, At(r, "verify"), <<>>)
       ELSE UnwindPaid(r)
    /\ UNCHANGED <<rows, chain, bounds>>

RequirementsFail(r) ==
    /\ Running(r, "requirements")
    /\ GoOn(r, IdleJob, <<>>)
    /\ UNCHANGED <<rows, chain, bounds>>

(* Mutated form: delivered on a verified signature, before it is settled.   *)
VerifiedDelivers(r) ==
    /\ Running(r, "verify")
    /\ GoOn(r, At(r, "deliverPaid"), <<>>)
    /\ UNCHANGED <<rows, chain, bounds>>

Verified(r) ==
    /\ Running(r, "verify")
    /\ GoOn(r, At(r, "settle"), <<>>)
    /\ UNCHANGED <<rows, chain, bounds>>

NotVerified(r) ==
    /\ Running(r, "verify")
    /\ UnwindPaid(r)
    /\ UNCHANGED <<rows, chain, bounds>>

SettleAnswered(r) ==
    /\ Heard(r, "settle", "ok")
    /\ GoOn(r, At(r, "deliverPaid"), <<>>)
    /\ UNCHANGED <<rows, chain, bounds>>

(* The facilitator said no: the trade is failed, and then unwound, which    *)
(* reads only the cash columns.                                             *)
SettleDeclined(r) ==
    LET t == job[r].trade IN
    /\ Heard(r, "settle", "declined")
    /\ row' = [row EXCEPT ![t].status = "failed"]
    /\ IF row[t].cashTransaction \/ row[t].arcLockId
       THEN GoOn(r, IdleJob, <<>>)
       ELSE GoOn(r, [IdleJob EXCEPT !.pc = "releaseHold", !.trade = t], <<>>)
    /\ UNCHANGED <<invoice, quote, capital, chain, bounds>>

SettleFails(r) ==
    /\ Heard(r, "settle", "error")
    /\ UnwindPaid(r)
    /\ UNCHANGED <<rows, chain, bounds>>

PaidDeliveryAnswered(r) ==
    /\ \/ /\ Heard(r, "deliverPaid", "ok")
          /\ GoOn(r, IdleJob, Do(r, <<"paidSettled", "accepted", "sold", "handover">>))
       \/ /\ Heard(r, "deliverPaid", "error")
          /\ GoOn(r, IdleJob, Do(r, <<"paidFailed">>))
    /\ UNCHANGED <<rows, chain, bounds>>

-----------------------------------------------------------------------------
(* Unwinding: asked for by a client, or ending a sweep or a failed payment. *)

AskUnwind(r, t) ==
    /\ Running(r, "idle")
    /\ Exists(t)
    /\ ~UnwindRefused(t)
    /\ Unwind(r, t, {}, "idle")
    /\ UNCHANGED <<rows, chain, bounds>>

(* The row is not read again after the release is answered.                 *)
ReleaseAnswered(r) ==
    /\ \/ /\ Heard(r, "releaseHold", "ok")
          /\ GoOn(r, Swept(job[r].batch, job[r].after),
                  UnwindWrites(job[r].trade))
       \/ /\ Heard(r, "releaseHold", "error")
          /\ GoOn(r, Swept(job[r].batch, job[r].after), <<>>)
    /\ UNCHANGED <<rows, chain, bounds>>

-----------------------------------------------------------------------------
(* The outside world: a call lands, and what the request will hear of it.   *)

Waiting(r, pc) == Heard(r, pc, "nothing")
Answer(r, answer) ==
    /\ job' = [job EXCEPT ![r].heard = answer]
    /\ UNCHANGED <<rows, todo, bounds>>
Landed(r) == \E answer \in IF Lossy THEN {"ok", "error"} ELSE {"ok"} :
                 Answer(r, answer)

CallRefused(r) ==
    /\ \E pc \in Calls : Waiting(r, pc)
    /\ Answer(r, "error")
    /\ UNCHANGED chain

PaymentDeclined(r) ==
    /\ Waiting(r, "settle")
    /\ Answer(r, "declined")
    /\ UNCHANGED chain

(* The instrument takes one hold at a time on a whole position, placed by   *)
(* the owner or with a key the venue holds for them.                        *)
HoldCreated(r) ==
    /\ Waiting(r, "createHold")
    /\ Sellable(r)
    /\ job[r].terms.seller \in Resellers \cup {Originator}
    /\ hold' = [hold EXCEPT ![job[r].trade] = "held"]
    /\ Landed(r)
    /\ UNCHANGED <<owner, vault, payout, paid>>

HoldExecuted(r) ==
    LET t == job[r].trade IN
    /\ Waiting(r, "deliver") \/ Waiting(r, "deliverPaid")
    /\ hold[t] = "held"
    /\ hold' = [hold EXCEPT ![t] = "executed"]
    /\ owner' = [owner EXCEPT ![job[r].terms.invoice] = job[r].terms.mandate]
    /\ Landed(r)
    /\ UNCHANGED <<vault, payout, paid>>

HoldReleased(r) ==
    LET t == job[r].trade IN
    /\ Waiting(r, "releaseHold")
    /\ hold[t] \in {"held", "expired"}
    /\ hold' = [hold EXCEPT ![t] = "released"]
    /\ Landed(r)
    /\ UNCHANGED <<owner, vault, payout, paid>>

MatchRegistered(r) ==
    /\ Waiting(r, "register")
    /\ payout[job[r].trade] = "none"
    /\ payout' = [payout EXCEPT ![job[r].trade] = "registered"]
    /\ Landed(r)
    /\ UNCHANGED <<owner, hold, vault, paid>>

PayoutExecuted(r) ==
    LET t == job[r].trade
        terms == job[r].terms
    IN
    /\ Waiting(r, "payout")
    /\ payout[t] = "registered"
    /\ terms.price <= vault[terms.mandate]
    /\ payout' = [payout EXCEPT ![t] = "executed"]
    /\ vault' = [vault EXCEPT ![terms.mandate] = @ - terms.price]
    /\ Landed(r)
    /\ UNCHANGED <<owner, hold, paid>>

(* A signed payment settles at most once.                                   *)
PaymentSettled(r) ==
    LET t == job[r].trade IN
    /\ Waiting(r, "settle")
    /\ job[r].payment \in Payments \ UNION {paid[u] : u \in Trades}
    /\ paid' = [paid EXCEPT ![t] = @ \cup {job[r].payment}]
    /\ Landed(r)
    /\ UNCHANGED <<owner, hold, vault, payout>>

ExpireHold(t) ==
    /\ todo = <<>>
    /\ hold[t] = "held"
    /\ hold' = [hold EXCEPT ![t] = "expired"]
    /\ UNCHANGED <<rows, job, todo, owner, vault, payout, paid, bounds>>

-----------------------------------------------------------------------------
(* Time, and the process dying.                                             *)

(* The trade has been armed for longer than EXPIRED_AFTER_SECONDS.          *)
Age(t) ==
    /\ todo = <<>>
    /\ Armed(t)
    /\ ~row[t].stale
    /\ row' = [row EXCEPT ![t].stale = TRUE]
    /\ UNCHANGED <<invoice, quote, capital, job, todo, chain, bounds>>

(* Every request is lost with its process; the store and the chains stay.   *)
Crash ==
    /\ crashes < MaxCrashes
    /\ crashes' = crashes + 1
    /\ job' = [r \in Requests |-> IdleJob]
    /\ todo' = <<>>
    /\ UNCHANGED <<rows, chain, clock>>

-----------------------------------------------------------------------------

Client(r) ==
    \/ \E handler \in Handlers : Sweep(r, handler)
    \/ \E i \in Invoices : Delist(r, i)
    \/ \E i \in Invoices, q \in Quotes, m \in Mandates, price \in Prices :
           ArmTrade(r, i, q, m, price)
    \/ \E t \in Trades, p \in Payments : Pay(r, t, p)
    \/ \E t \in Trades : AskUnwind(r, t)

Handler(r) ==
    \/ \E t \in Trades : Reclaim(r, t) \/ GateAdmits(r, t)
    \/ Refuse(r) \/ GateRefuses(r) \/ ReadFails(r) \/ CallFails(r)
    \/ \E rail \in {"x402", "arc-vault"} : ChooseRail(r, rail)
    \/ PositionRead(r) \/ HoldAnswered(r) \/ ChallengeBuilt(r)
    \/ MatchAnswered(r) \/ PayoutAnswered(r) \/ DeliverAnswered(r)
    \/ RequirementsBuilt(r) \/ RequirementsFail(r)
    \/ Verified(r) \/ NotVerified(r)
    \/ SettleAnswered(r) \/ SettleDeclined(r) \/ SettleFails(r)
    \/ PaidDeliveryAnswered(r) \/ ReleaseAnswered(r)

Outside(r) ==
    \/ CallRefused(r) \/ PaymentDeclined(r)
    \/ HoldCreated(r) \/ HoldExecuted(r) \/ HoldReleased(r)
    \/ MatchRegistered(r) \/ PayoutExecuted(r) \/ PaymentSettled(r)

Next ==
    \/ StoreWrite
    \/ \E q \in Quotes, i \in Invoices : IssueQuote(q, i)
    \/ \E i \in Invoices : List(i)
    \/ \E r \in Requests : Client(r) \/ Handler(r) \/ Outside(r)
    \/ \E t \in Trades : Age(t) \/ ExpireHold(t)
    \/ Crash

Spec == Init /\ [][Next]_vars

-----------------------------------------------------------------------------
(* What the trade lifecycle promises.                                       *)

(* Money moved for trade t: at the facilitator, or out of the vault.        *)
CashMoved(t) == paid[t] # {} \/ payout[t] = "executed"

(* Delivery versus payment, the half no interleaving, lost answer or crash  *)
(* may break: paper is delivered to a buyer only after the money for that   *)
(* very trade moved (executeHold is called after executePayout or settle    *)
(* answered).                                                               *)
DeliveredImpliesPaid ==
    \A t \in Trades : hold[t] = "executed" => CashMoved(t)

(* A row reads settled only when both legs moved outside, whichever of the  *)
(* handlers racing on the row wrote last.                                   *)
SettledMeansBothLegs ==
    \A t \in Trades :
        row[t].status = "settled" => hold[t] = "executed" /\ CashMoved(t)

(* A trade draws money over one rail only: nothing that reaches a trade the *)
(* vault pays for can also collect a signature for it.                      *)
OneRail == \A t \in Trades : ~(paid[t] # {} /\ payout[t] = "executed")

(* However allocations, releases, supersessions and retirements interleave, *)
(* no more is promised than was committed, and a mandate that stopped       *)
(* quoting as exhausted has no headroom it keeps from the book.             *)
CapitalWithinFunded ==
    \A m \in Mandates :
        /\ capital[m].allocated <= capital[m].funded
        /\ capital[m].status = "exhausted" =>
               capital[m].allocated = capital[m].funded

(* No request is between two store writes.                                  *)
Quiet == todo = <<>>

(* Paper of invoice i was delivered and the venue has not heard, or never   *)
(* will: the answer is on its way, was lost, or died with the process.      *)
DeliveredUnawares(i) ==
    \E t \in On(i) : hold[t] = "executed" /\ row[t].status # "settled"

(* A position has one holder: at most one settled trade of an invoice       *)
(* answers for it, and the paper is with that trade's buyer, whatever the   *)
(* order in which armings, payments, resales and sweeps raced; only a       *)
(* delivery the venue has not heard of can part the two.                    *)
HolderOwnsPaper ==
    Quiet => \A i \in Invoices :
        LET holder == CurrentHolder(i) IN
        holder # NoTrade =>
            /\ DeliveredUnawares(i) \/ owner[i] = TermsOf(holder).mandate
            /\ \A t \in On(i) :
                   row[t].status = "settled" /\ ~row[t].superseded => t = holder

(* The trades whose price a mandate has promised: armed, holding the paper, *)
(* half settled and waiting for reconciliation, or failed at a payment that *)
(* was declined, with a hold that would not release.                        *)
Committed(m) ==
    {t \in Trades :
        /\ Exists(t)
        /\ TermsOf(t).mandate = m
        /\ \/ Armed(t)
           \/ row[t].status = "settled" /\ ~row[t].superseded
           \/ /\ row[t].status = "failed"
              /\ \/ row[t].cashTransaction
                 \/ row[t].holdId /\ row[t].rail = "none"}
PriceOf == [t \in Trades |-> IF Exists(t) THEN TermsOf(t).price ELSE 0]

(* Trades unwound although their arming had failed before a buyer could be  *)
(* asked to pay: the failure gave the capital back, and unwind, which takes *)
(* a failed trade like an armed one, gave it back once more.                *)
FreedAgain(m) ==
    {t \in Trades :
        /\ row[t].status = "unwound"
        /\ TermsOf(t).mandate = m
        /\ ~(row[t].holdId /\ row[t].rail = "none")}

(* The allocation of a mandate is the sum of what its live trades cost: no  *)
(* path through arming, paying, sweeping or reselling leaks capital, and    *)
(* none frees it twice but the unwinding of a trade whose arming failed,    *)
(* which frees at most that trade's price.  Without one the sum is exact to *)
(* the unit.                                                                *)
AllocationExact ==
    Quiet => \A m \in Mandates :
        LET promised == Total(PriceOf, Committed(m)) IN
        /\ capital[m].allocated <= promised
        /\ promised <= capital[m].allocated + Total(PriceOf, FreedAgain(m))

(* Trades whose payout executed and whose row does not say so: the answer   *)
(* was lost, or has not come yet.                                           *)
PaidUnawares(m) ==
    {t \in Trades : /\ payout[t] = "executed"
                   /\ TermsOf(t).mandate = m
                   /\ ~row[t].arcLockId}

(* What a mandate in the vault still quotes is really in the vault, but for *)
(* payouts the venue has not heard of and capital freed again by unwinding  *)
(* a failed trade: nothing else makes a bid quote money that is not there.  *)
FreeCapitalBacked ==
    Quiet => \A m \in Escrowed :
        Free(m) <= vault[m] + Total(PriceOf, PaidUnawares(m))
                            + Total(PriceOf, FreedAgain(m))

(* Something ends every armed trade that is never paid, so that its capital *)
(* and the seller's position are not held for ever.                         *)
ArmedTradesEnd == \A t \in Trades : Armed(t) ~> ~Armed(t) \/ CashMoved(t)

(* Fairness: a started request goes on, every outside call is answered and  *)
(* a release retried for ever lands, time passes, and the trade routes keep *)
(* being polled.  No client is obliged to list, arm, pay or withdraw.       *)
Fairness ==
    /\ WF_vars(StoreWrite)
    /\ \A t \in Trades : WF_vars(Age(t))
    /\ \A r \in Requests :
           /\ WF_vars(Handler(r))
           /\ WF_vars(Outside(r))
           /\ SF_vars(HoldReleased(r))
           /\ SF_vars(Sweep(r, "idle"))
FairSpec == Spec /\ Fairness
=============================================================================

--------------------------- MODULE MandateCapital ---------------------------
(***************************************************************************)
(* The capital of one mandate: what the buyer deposits in the vault on     *)
(* Arc, what the venue's book says was committed, and the routes that move *)
(* one after the other - funding, withdrawing and closing - while trades   *)
(* reserve, spend and give back.                                           *)
(*                                                                         *)
(* Mandates share nothing, so one is enough.  Requests interleave where a  *)
(* route awaits the vault; the book changes in single transactions.        *)
(* Statuses the venue writes elsewhere (a trade's own life) are modelled   *)
(* in Settlement; here a trade is what it does to capital.                 *)
(***************************************************************************)
EXTENDS Integers, FiniteSets, Totals

CONSTANTS
    Requests,     \* requests the process may be serving at one time
    Funders,      \* those of them that may be funding calls
    Withdrawers,  \* those of them that may be withdrawals
    Positions,    \* trades that may be priced against the mandate
    Amounts,      \* amounts a buyer commits or withdraws; 0 re-checks backing
    Prices,       \* what a trade may cost
    Limit,        \* exposure limit the mandate was written with
    Scale,        \* units of the book that one unit of USDC settles
    Wealth,       \* USDC the buyer holds at the start
    Late,         \* a transaction may mine after its sender stopped waiting
    MaxAgain,     \* bound: capital freed that no trade was holding any more
    MaxCrashes    \* bound: times the process may die

ASSUME CapitalAssumption ==
    /\ Funders \subseteq Requests
    /\ Withdrawers \subseteq Requests
    /\ Amounts \subseteq Nat
    /\ Prices \subseteq Nat \ {0}
    /\ Limit \in Nat
    /\ Scale \in Nat \ {0}
    /\ Wealth \in Nat
    /\ Late \in BOOLEAN
    /\ MaxAgain \in Nat
    /\ MaxCrashes \in Nat
ASSUME FinitePositions == IsFiniteSet(Positions)

VARIABLES
    funded,      \* mandate row: capital committed, in the book's units
    allocated,   \* mandate row: capital reserved by trades
    status,      \* mandate row
    position,    \* trades against the mandate
    again,       \* history: capital freed that no trade was holding any more
    registered,  \* on Arc: the vault knows the mandate's buyer
    balance,     \* on Arc: USDC the vault holds for the mandate
    wallet,      \* on Arc: USDC the buyer holds
    pending,     \* on Arc: releases sent, given up on, and not yet mined
    job,         \* what every request is doing
    crashes      \* times the process has died

row == <<funded, allocated, status>>
arc == <<registered, balance, wallet, pending>>
trades == <<position, again>>
vars == <<funded, allocated, status, position, again, registered, balance,
          wallet, pending, job, crashes>>

Status == {"none", "draft", "funding", "active", "exhausted", "withdrawn"}

(* A trade is `reserved` from the allocation on, `paid` once its row records *)
(* a payout of the vault; `failed`, `unwound` and `matured` gave the capital *)
(* back, `retired` wrote it off.  `drawn`: the vault paid for it, and the    *)
(* book has not written that money off in full.                              *)
Holding == {"reserved", "paid"}
PositionState == Holding \cup {"none", "failed", "unwound", "matured", "retired"}
Position == [state : PositionState, price : Nat, drawn : BOOLEAN]

(* `amount` is what the request asked for; `committed` and `seen` are the   *)
(* row as it read it; `usdc` is the release it planned against a balance of *)
(* `deposited`; `empties` says that the book stood at zero after it;        *)
(* `raced` that a deposit landed since the balance was read.                *)
Step == {"idle", "open", "buyerOf", "register", "backing", "backed", "short",
         "plan", "book", "release"}
Job == [pc : Step, heard : {"nothing", "ok", "error"}, amount : Nat, committed : Nat,
        seen : Status, usdc : Nat, deposited : Nat, empties : BOOLEAN,
        raced : BOOLEAN]
IdleJob == [pc |-> "idle", heard |-> "nothing", amount |-> 0, committed |-> 0,
            seen |-> "draft", usdc |-> 0, deposited |-> 0, empties |-> FALSE,
            raced |-> FALSE]

TypeOK ==
    /\ funded \in Nat
    /\ allocated \in Nat
    /\ status \in Status
    /\ position \in [Positions -> Position]
    /\ again \in Nat
    /\ registered \in BOOLEAN
    /\ balance \in Nat
    /\ wallet \in Nat
    /\ pending \in [Requests -> Nat]
    /\ job \in [Requests -> Job]
    /\ crashes \in Nat

Init ==
    /\ funded = 0
    /\ allocated = 0
    /\ status = "none"
    /\ position = [p \in Positions |->
                    [state |-> "none", price |-> 0, drawn |-> FALSE]]
    /\ again = 0
    /\ registered = FALSE
    /\ balance = 0
    /\ wallet = Wealth
    /\ pending = [r \in Requests |-> 0]
    /\ job = [r \in Requests |-> IdleJob]
    /\ crashes = 0

-----------------------------------------------------------------------------
(* Conversions.  A requirement rounds up and a payment rounds down.         *)

AtLeast0(n) == IF n < 0 THEN 0 ELSE n
Free == AtLeast0(funded - allocated)

Payment(n) == n \div Scale
Required(n) == (n + Scale - 1) \div Scale
(* Mutated form: the withdrawal converted on its own.                       *)
ReleasableAlone(before, n) == Required(n)
Releasable(before, n) == Required(before) - Required(AtLeast0(before - n))

-----------------------------------------------------------------------------
(* How a request moves on.                                                  *)

Begin(r, j) == job[r].pc = "idle" /\ job' = [job EXCEPT ![r] = j]
At(r, pc) == job[r].pc = pc
GoOn(r, pc) == job' = [job EXCEPT ![r].pc = pc, ![r].heard = "nothing"]
End(r) == job' = [job EXCEPT ![r] = IdleJob]

-----------------------------------------------------------------------------
(* POST /: the row is inserted as a draft, and its cash leg opened.         *)

Create(r) ==
    /\ status = "none"
    /\ status' = "draft"
    /\ Begin(r, [IdleJob EXCEPT !.pc = "open"])
    /\ UNCHANGED <<funded, allocated, trades, arc, crashes>>

(* ensureMandateRegistered reads the binding first, since registerMandate   *)
(* is one-shot and reverts the second time.  The mandate and the funding go *)
(* on whether or not it succeeds.                                           *)
Registers(r) == \/ At(r, "open") /\ End(r)
                \/ At(r, "register") /\ GoOn(r, "backing")

BuyerRead(r) ==
    /\ At(r, "buyerOf")
    /\ \/ registered /\ GoOn(r, "backing")
       \/ ~registered /\ GoOn(r, "register")
    /\ UNCHANGED <<row, trades, arc, crashes>>

BuyerUnread(r) ==
    /\ At(r, "buyerOf")
    /\ GoOn(r, "backing")
    /\ UNCHANGED <<row, trades, arc, crashes>>

Registered(r) ==
    /\ Registers(r)
    /\ ~registered
    /\ registered' = TRUE
    /\ UNCHANGED <<row, trades, balance, wallet, pending, crashes>>

NotRegistered(r) ==
    /\ Registers(r)
    /\ UNCHANGED <<row, trades, arc, crashes>>

-----------------------------------------------------------------------------
(* POST /:id/fund.  The backing is measured against the row read first.     *)

AskFund(r, n) ==
    /\ r \in Funders
    /\ status # "none"
    /\ Begin(r, [IdleJob EXCEPT !.pc = "buyerOf", !.amount = n,
                                !.committed = funded, !.seen = status])
    /\ UNCHANGED <<row, trades, arc, crashes>>

(* fundingHops, walked.                                                     *)
StatusFunded(after, firm) ==
    CASE status \in {"draft", "funding"} ->
           IF firm THEN "active" ELSE "funding"
      [] status = "exhausted" /\ firm /\ allocated < after -> "active"
      [] OTHER -> status

(* The store refuses a withdrawn mandate and one funded past its limit.     *)
FundMandate(n, firm) ==
    IF status # "withdrawn" /\ funded + n <= Limit
    THEN /\ funded' = funded + n
         /\ status' = StatusFunded(funded + n, firm)
         /\ UNCHANGED allocated
    ELSE UNCHANGED row

AlreadyFirm(r) == job[r].seen \in {"active", "exhausted"}

BackingRead(r) ==
    LET backed == Required(job[r].committed + job[r].amount) <= balance IN
    /\ At(r, "backing")
    /\ GoOn(r, IF backed THEN "backed" ELSE "short")
    /\ UNCHANGED <<row, trades, arc, crashes>>

BackingUnread(r) ==
    /\ At(r, "backing")
    /\ GoOn(r, "short")
    /\ UNCHANGED <<row, trades, arc, crashes>>

FundBacked(r) ==
    /\ At(r, "backed")
    /\ FundMandate(job[r].amount, TRUE)
    /\ End(r)
    /\ UNCHANGED <<trades, arc, crashes>>

(* Short or unreadable: recorded and parked, unless the bid is firm.        *)
FundShort(r) ==
    /\ At(r, "short")
    /\ IF AlreadyFirm(r) THEN UNCHANGED row
                         ELSE FundMandate(job[r].amount, FALSE)
    /\ End(r)
    /\ UNCHANGED <<trades, arc, crashes>>

-----------------------------------------------------------------------------
(* POST /:id/withdraw: ask the vault, then the book, then the chain.        *)

AskWithdraw(r, n) ==
    /\ r \in Withdrawers
    /\ status # "none"
    /\ Begin(r, [IdleJob EXCEPT !.pc = "plan", !.amount = n,
                                !.committed = funded])
    /\ UNCHANGED <<row, trades, arc, crashes>>

(* Refused with nothing moved: the vault would not answer, it does not      *)
(* cover the release, or the release is dust.                               *)
PlanRefused(r) ==
    /\ At(r, "plan")
    /\ End(r)
    /\ UNCHANGED <<row, trades, arc, crashes>>

(* The plan: nothing to send when nothing is there, or what the smaller     *)
(* book no longer needs.                                                    *)
PlanRead(r) ==
    LET usdc == Releasable(job[r].committed, job[r].amount) IN
    /\ At(r, "plan")
    /\ balance > 0 => 0 < usdc /\ usdc <= balance
    /\ job' = [job EXCEPT ![r].pc = "book", ![r].deposited = balance,
                          ![r].usdc = IF balance = 0 THEN 0 ELSE usdc]
    /\ UNCHANGED <<row, trades, arc, crashes>>

(* Mutated form: the balance read before the vault answered is trusted.     *)
WithdrawUnchecked(n) ==
    /\ funded' = funded - n
    /\ UNCHANGED allocated

(* The store re-reads what is unallocated, and refuses more.                *)
Withdraw(n) ==
    /\ n <= Free
    /\ funded' = funded - n
    /\ UNCHANGED allocated

BookRefused(r) ==
    /\ At(r, "book")
    /\ job[r].amount > Free
    /\ End(r)
    /\ UNCHANGED <<row, trades, arc, crashes>>

(* No cash leg, or nothing in it: the book alone, and closed at zero.       *)
BookOnly(r) ==
    /\ At(r, "book")
    /\ job[r].deposited = 0
    /\ Withdraw(job[r].amount)
    /\ status' = IF funded' = 0 THEN "withdrawn" ELSE status
    /\ End(r)
    /\ UNCHANGED <<trades, arc, crashes>>

(* Bound: a request slot has at most one release left to mine late.         *)
BookRelease(r) ==
    /\ At(r, "book")
    /\ job[r].deposited > 0
    /\ pending[r] = 0
    /\ Withdraw(job[r].amount)
    /\ job' = [job EXCEPT ![r].pc = "release", ![r].empties = (funded' = 0)]
    /\ UNCHANGED <<status, trades, arc, crashes>>

(* Mutated form: an emptied mandate is closed whatever became of the money. *)
ClosesUnseen(r) == job[r].empties

(* Closed only when the release was seen to take all that the plan read,    *)
(* and the store still finds nothing committed.                             *)
Closes(r) == /\ job[r].heard = "ok"
             /\ job[r].usdc = job[r].deposited
             /\ job[r].empties

ReleaseAnswered(r) ==
    /\ At(r, "release")
    /\ job[r].heard # "nothing"
    /\ status' = IF Closes(r) /\ funded = 0 THEN "withdrawn" ELSE status
    /\ End(r)
    /\ UNCHANGED <<funded, allocated, trades, arc, crashes>>

-----------------------------------------------------------------------------
(* Arc.                                                                     *)

Hears(r, answer) == job' = [job EXCEPT ![r].heard = answer]
InFlight(r) == At(r, "release") /\ job[r].heard = "nothing"

PayBuyer(usdc) ==
    /\ usdc <= balance
    /\ balance' = balance - usdc
    /\ wallet' = wallet + usdc
    /\ UNCHANGED registered

ReleaseMined(r) ==
    /\ InFlight(r)
    /\ PayBuyer(job[r].usdc)
    /\ \/ Hears(r, "ok")
       \/ Late /\ Hears(r, "error")
    /\ UNCHANGED <<row, trades, pending, crashes>>

ReleaseReverted(r) ==
    /\ InFlight(r)
    /\ Hears(r, "error")
    /\ UNCHANGED <<row, trades, arc, crashes>>

ReleaseTimesOut(r) ==
    /\ Late
    /\ InFlight(r)
    /\ pending' = [pending EXCEPT ![r] = job[r].usdc]
    /\ Hears(r, "error")
    /\ UNCHANGED <<row, trades, registered, balance, wallet, crashes>>

MinedLate(r) ==
    /\ pending[r] > 0
    /\ PayBuyer(pending[r])
    /\ pending' = [pending EXCEPT ![r] = 0]
    /\ UNCHANGED <<row, trades, job, crashes>>

(* The buyer's own transaction, from the buyer's own wallet.                *)
Deposit(n) ==
    /\ registered
    /\ 0 < n /\ n <= wallet
    /\ balance' = balance + n
    /\ wallet' = wallet - n
    /\ job' = [r \in Requests |->
                  [job[r] EXCEPT !.raced = @ \/ job[r].pc \in {"book", "release"}]]
    /\ UNCHANGED <<row, trades, registered, pending, crashes>>

-----------------------------------------------------------------------------
(* Trades against the mandate, as far as its capital goes.                  *)

(* A second request may be at the same trade: a sweep unwinds what another   *)
(* call is settling, or two calls unwind or mature it.                       *)
Overlapping == \E r, s \in Requests : r # s

(* The price was quoted while the mandate was active; the store reserves    *)
(* against the headroom alone.                                              *)
Reserve(p, price) ==
    /\ position[p].state = "none"
    /\ status \in {"active", "exhausted"}
    /\ price <= Free
    /\ allocated' = allocated + price
    /\ status' = IF allocated' >= funded THEN "exhausted" ELSE status
    /\ position' = [position EXCEPT ![p] =
                        [state |-> "reserved", price |-> price, drawn |-> FALSE]]
    /\ UNCHANGED <<funded, again, arc, job, crashes>>

(* Capital freed, or spent again, for a trade that was holding none.         *)
FreesAgain(p) ==
    /\ again' = again + position[p].price
    /\ again' <= MaxAgain
HoldsOn(p) ==
    IF position[p].state \in Holding THEN again' = again ELSE FreesAgain(p)

(* executePayout, for a price that is worth a unit of USDC at all.  It may   *)
(* land after its caller gave up, or beside a request that unwinds.          *)
MayPay(p) ==
    \/ position[p].state = "reserved"
    \/ position[p].state \in {"failed", "unwound"} /\ (Late \/ Overlapping)

Pay(p) ==
    LET usdc == Payment(position[p].price) IN
    /\ MayPay(p)
    /\ ~position[p].drawn
    /\ 0 < usdc /\ usdc <= balance
    /\ balance' = balance - usdc
    /\ position' = [position EXCEPT ![p].drawn = TRUE]
    /\ UNCHANGED <<row, again, registered, wallet, pending, job, crashes>>

(* The payment heard of and written to the trade, which claims its capital   *)
(* whatever became of the row while the answer was awaited.  Who asked is    *)
(* not kept: a restart in between is not told apart.                         *)
Claims(p, state) ==
    /\ \/ position[p].state = "reserved"
       \/ position[p].state \in {"failed", "unwound"} /\ Overlapping
    /\ position' = [position EXCEPT ![p].state = state]
    /\ HoldsOn(p)
    /\ UNCHANGED <<row, arc, job, crashes>>
Hear(p) == position[p].drawn /\ Claims(p, "paid")
Revive(p) ==
    /\ ~position[p].drawn
    /\ position[p].state # "reserved"
    /\ Claims(p, "reserved")

Reopened(capital, reserved) ==
    IF status = "exhausted" /\ reserved < capital THEN "active" ELSE status

(* The store takes the price off what is allocated, and looks at no trade.   *)
Release(p) ==
    /\ allocated' = AtLeast0(allocated - position[p].price)
    /\ status' = Reopened(funded, allocated')
    /\ UNCHANGED funded

(* Mutated form: capital that left the vault only comes off the allocation. *)
RetireAllocation(p) == Release(p)

Retire(p) ==
    /\ funded' = AtLeast0(funded - position[p].price)
    /\ allocated' = AtLeast0(allocated - position[p].price)
    /\ status' = Reopened(funded', allocated')

(* The process dies; a release it had sent may still be mined.              *)
Dies ==
    /\ crashes < MaxCrashes
    /\ crashes' = crashes + 1
    /\ job' = [r \in Requests |-> IdleJob]
    /\ \E sent \in SUBSET {r \in Requests : Late /\ InFlight(r)} :
           pending' = [r \in Requests |->
                          IF r \in sent THEN job[r].usdc ELSE pending[r]]
    /\ UNCHANGED <<registered, balance, wallet>>

(* Capital and trade are two writes: the process may die in between, and     *)
(* the trade is found later as it was.                                       *)
Writes(p, state, drawn) ==
    \/ /\ position' = [position EXCEPT ![p].state = state, ![p].drawn = drawn]
       /\ HoldsOn(p)
       /\ UNCHANGED <<arc, job, crashes>>
    \/ /\ position' = [position EXCEPT ![p].drawn = drawn]
       /\ FreesAgain(p)
       /\ Dies

(* A failed arming and an unwinding free the capital, the one after the      *)
(* other too; the row they saw names no payout.                              *)
MayFree(p, state) ==
    \/ position[p].state = "reserved"
    \/ position[p].state = "failed" /\ state = "unwound"
    \/ position[p].state \in {"paid", "failed", "unwound"} /\ Overlapping

GiveBack(p, state) ==
    /\ MayFree(p, state)
    /\ Release(p)
    /\ Writes(p, state, position[p].drawn)

(* A trade the buyer paid by signature matured, or was sold on.              *)
Mature(p) ==
    /\ \/ position[p].state = "reserved" /\ ~position[p].drawn
       \/ position[p].state = "matured" /\ Overlapping
    /\ Release(p)
    /\ Writes(p, "matured", position[p].drawn)

(* One that the vault paid for.  The book cannot fall below nothing.         *)
WriteOff(p) ==
    /\ \/ position[p].state = "paid"
       \/ position[p].state = "retired" /\ Overlapping
    /\ Retire(p)
    /\ Writes(p, "retired", position[p].drawn /\ funded < position[p].price)

Crash == Dies /\ UNCHANGED <<row, trades>>

-----------------------------------------------------------------------------

Route(r) ==
    \/ Create(r)
    \/ \E n \in Amounts : AskFund(r, n)
    \/ \E n \in (Amounts \ {0}) \cup {Free} : AskWithdraw(r, n)
    \/ BuyerRead(r) \/ BuyerUnread(r) \/ Registered(r) \/ NotRegistered(r)
    \/ BackingRead(r) \/ BackingUnread(r) \/ FundBacked(r) \/ FundShort(r)
    \/ PlanRefused(r) \/ PlanRead(r)
    \/ BookRefused(r) \/ BookOnly(r) \/ BookRelease(r) \/ ReleaseAnswered(r)

Arc(r) == \/ ReleaseMined(r) \/ ReleaseReverted(r) \/ ReleaseTimesOut(r)
          \/ MinedLate(r)

Trade(p) ==
    \/ \E price \in Prices : Reserve(p, price)
    \/ Pay(p) \/ Hear(p) \/ Revive(p) \/ Mature(p) \/ WriteOff(p)
    \/ \E state \in {"failed", "unwound"} : GiveBack(p, state)

Next ==
    \/ \E r \in Requests : Route(r) \/ Arc(r)
    \/ \E n \in 1..Wealth : Deposit(n)
    \/ \E p \in Positions : Trade(p)
    \/ Crash

Spec == Init /\ [][Next]_vars

-----------------------------------------------------------------------------
(* What the routes promise.                                                 *)

(* Whatever funding calls, withdrawals and trades race, the book reserves   *)
(* no more than was committed, and no more is committed than the mandate    *)
(* was written for: each transaction re-reads what the routes read earlier. *)
WithinCommitment == allocated <= funded /\ funded <= Limit

PaymentOf == [p \in Positions |-> Payment(position[p].price)]
Drawn == {p \in Positions : position[p].drawn}

(* A bid that quotes is backed: what a firm mandate has committed is in the *)
(* vault, less what the vault paid sellers out of it and the book has not   *)
(* written off yet, through every rounding of fundings, withdrawals,        *)
(* payouts and retirements, and whatever the venue knows of the payouts.    *)
BookWithinVault ==
    status \in {"active", "exhausted"} =>
        Required(funded) <= balance + Total(PaymentOf, Drawn)

(* What an active mandate still offers is in the vault at every instant,    *)
(* but for two things the venue does not see: capital freed a second time - *)
(* a failed trade unwound after all, a crash between the two writes - and   *)
(* money the vault paid for a trade that was given up before it was heard   *)
(* of.                                                                      *)
Unheard == {p \in Drawn : position[p].state \notin Holding}
QuotedIsBacked ==
    status = "active" =>
        Required(AtLeast0(Free - again)) <= balance + Total(PaymentOf, Unheard)

(* A mandate is never closed over money it was seen to hold, or over a      *)
(* release nobody saw: what a closing leaves in the vault was deposited     *)
(* after the closing request had read the balance.                          *)
CloseStrandsNothing ==
    [][status # "withdrawn" /\ status' = "withdrawn" =>
         \/ balance = 0
         \/ \E r \in Requests : job[r].raced /\ job'[r] # job[r]]_vars

(* A closed mandate holds and reserves nothing and stays closed: nothing    *)
(* that raced with the closing reopens it.                                  *)
ClosedForGood ==
    [][status = "withdrawn" =>
         status' = "withdrawn" /\ funded' = 0 /\ allocated' = 0]_vars
=============================================================================

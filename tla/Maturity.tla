------------------------------ MODULE Maturity ------------------------------
(***************************************************************************)
(* How a sold receivable ends.  The venue observes that the debtor paid    *)
(* (settleAtMaturity) or declares that they never will (recordDefault);    *)
(* the outcome goes on the rating ledger, the holder's capital comes back  *)
(* or is lost, the invoice is closed, and a payout to the holder is        *)
(* scheduled on Hedera for the collection key to sign.                     *)
(*                                                                         *)
(* As in Settlement, a request runs alone until it awaits something        *)
(* outside the process, `todo` is the run of store writes it still has to  *)
(* make before that, and the process may die between two of them.  While   *)
(* it is open the position may still be sold on, over either rail; a sale  *)
(* is its two legs and what the venue hears of them, and the rest of its   *)
(* life is in Settlement.                                                  *)
(***************************************************************************)
EXTENDS Integers, Sequences, FiniteSets, FiniteSetsExt

CONSTANTS
    Invoices,      \* receivables of one debtor, each bought at day 0
    Buyers,        \* standing bids; each stands for the buyer who funds it
    Vaulted,       \* buyers whose trades settle over the Arc vault
    Payable,       \* buyers whose Hedera account can be resolved
    Requests,      \* requests the process may be serving at one time
    Funded,        \* capital each buyer has committed
    Opening,       \* the debtor's payment record at the start
    Buckets,       \* rating |-> the score it is earned at
    DueAt,         \* the day each invoice falls due
    MaxDay,        \* bound: days that pass
    MaxSchedules,  \* bound: payouts ever scheduled
    Collecting,    \* a collection account is configured
    Lossy,         \* a schedule may be created and its answer lost
    MaxCrashes     \* bound: times the process may die

ASSUME MaturityAssumption ==
    /\ IsFiniteSet(Invoices)
    /\ Vaulted \subseteq Buyers
    /\ Payable \subseteq Buyers
    /\ Funded \in Nat \ {0}
    /\ Opening \in [on_time : Nat, late : Nat, default : Nat]
    /\ Buckets \in [{"A", "B", "C"} -> Nat \ {0}]
    /\ Buckets["A"] > Buckets["B"] /\ Buckets["B"] > Buckets["C"]
    /\ DueAt \in Nat
    /\ MaxDay \in Nat
    /\ MaxSchedules \in Nat
    /\ MaxCrashes \in Nat
    /\ Collecting \in BOOLEAN
    /\ Lossy \in BOOLEAN

Schedules == 1..MaxSchedules
NoSchedule == 0
Nobody == "nobody"

VARIABLES
    invoice,   \* invoice row: its status
    trade,     \* the trade by which each buyer bought each invoice, if any
    ledger,    \* settlement_outcomes: the outcome of each receivable
    record,    \* debtor row: settledOnTime, settledLate, defaulted
    rating,    \* debtor row: the stored projection of its grade
    capital,   \* mandate rows: funded, allocated
    owner,     \* on the instrument: who owns each position
    schedule,  \* on Hedera: payouts, each to be signed by the collection key
    job,       \* what every request of the process is doing
    todo,      \* store writes still to make before the next await
    today,     \* the venue's clock, in days
    crashes,   \* times the process has died
    returned   \* history: times maturity handed a buyer an invoice's price back

rows == <<invoice, trade, ledger, record, rating, capital>>
chain == <<owner, schedule>>
vars == <<invoice, trade, ledger, record, rating, capital, owner, schedule,
          job, todo, today, crashes, returned>>

Paid == {"on_time", "late"}
Outcomes == Paid \cup {"default"}
Grades == {"A", "B", "C", "UNRATED", "D"}
InvoiceStatus == {"listed", "sold", "matured", "defaulted"}

(* `paying`: the position is held for the buyer, whose cash moves (x402) or *)
(* has moved (vault), until the venue hears how the delivery went.          *)
Trade == [state : {"none", "paying", "settled", "failed"},
          superseded : BOOLEAN, schedule : Schedules \cup {NoSchedule}]
NoTrade == [state |-> "none", superseded |-> FALSE, schedule |-> NoSchedule]

(* The request acts on the trade of `holder`; `seen` is the schedule that   *)
(* trade had when it was read, or the one the request was answered.         *)
Job == [pc : {"idle", "requirements", "schedule", "status"},
        heard : {"nothing", "ok", "none", "error"},
        invoice : Invoices \cup {"none"}, holder : Buyers \cup {Nobody},
        seen : Schedules \cup {NoSchedule}]
IdleJob == [pc |-> "idle", heard |-> "nothing", invoice |-> "none",
            holder |-> Nobody, seen |-> NoSchedule]

WriteOps == {"outcome", "rating", "release", "matured", "defaulted", "scheduled"}
Write == [op : WriteOps, invoice : Invoices, holder : Buyers,
          outcome : Outcomes, schedule : Schedules \cup {NoSchedule}]

TypeOK ==
    /\ invoice \in [Invoices -> InvoiceStatus]
    /\ trade \in [Invoices -> [Buyers -> Trade]]
    /\ ledger \in [Invoices -> Outcomes \cup {"none"}]
    /\ record \in [Outcomes -> Nat]
    /\ rating \in Grades
    /\ capital \in [Buyers -> [funded : Nat, allocated : Nat]]
    /\ owner \in [Invoices -> Buyers]
    /\ schedule \in [Schedules -> [invoice : Invoices \cup {"none"},
                                   payee : Buyers \cup {Nobody},
                                   state : {"none", "unsigned", "executed", "expired"}]]
    /\ job \in [Requests -> Job]
    /\ todo \in Seq(Write)
    /\ today \in Nat
    /\ crashes \in Nat
    /\ returned \in [Invoices -> [Buyers -> Nat]]

-----------------------------------------------------------------------------
(* The rating ladder (assess, scoreOf, accumulate).                         *)

Score(r) == r["on_time"] - 2 * r["late"]
Assess(r) ==
    IF r["default"] > 0 THEN "D"
    ELSE IF Score(r) >= Buckets["A"] THEN "A"
    ELSE IF Score(r) >= Buckets["B"] THEN "B"
    ELSE IF Score(r) >= Buckets["C"] THEN "C"
    ELSE "UNRATED"
Accumulate(r, outcome) == [r EXCEPT ![outcome] = @ + 1]

(* A sale costs one unit of capital, whatever its price.                    *)
AtLeast0(n) == IF n < 0 THEN 0 ELSE n
Allocate(c) == [c EXCEPT !.allocated = @ + 1]
Release(c) == [c EXCEPT !.allocated = AtLeast0(@ - 1)]
Retire(c) == [c EXCEPT !.allocated = AtLeast0(@ - 1), !.funded = AtLeast0(@ - 1)]
GiveBack(b) == IF b \in Vaulted THEN Retire(capital[b]) ELSE Release(capital[b])

(* Mutated form: whoever bought it, whether or not they sold it on.         *)
EverHeld(i, b) == trade[i][b].state = "settled"

(* currentHolderTrade: the live settled trade.                              *)
Live(i, b) == trade[i][b].state = "settled" /\ ~trade[i][b].superseded
HasHolder(i) == \E b \in Buyers : Live(i, b)
InSale(i) == \E b \in Buyers : trade[i][b].state = "paying"

Init ==
    /\ owner \in [Invoices -> Buyers]
    /\ \A b \in Buyers : Cardinality({i \in Invoices : owner[i] = b}) <= Funded
    /\ invoice = [i \in Invoices |-> "sold"]
    /\ trade = [i \in Invoices |-> [b \in Buyers |->
           IF b = owner[i] THEN [NoTrade EXCEPT !.state = "settled"] ELSE NoTrade]]
    /\ capital = [b \in Buyers |->
           [funded |-> Funded,
            allocated |-> Cardinality({i \in Invoices : owner[i] = b})]]
    /\ ledger = [i \in Invoices |-> "none"]
    /\ record = Opening
    /\ rating = Assess(Opening)
    /\ schedule = [s \in Schedules |->
           [invoice |-> "none", payee |-> Nobody, state |-> "none"]]
    /\ job = [r \in Requests |-> IdleJob]
    /\ todo = <<>>
    /\ today = 0
    /\ crashes = 0
    /\ returned = [i \in Invoices |-> [b \in Buyers |-> 0]]

-----------------------------------------------------------------------------
(* The position sold on while it is open.  The vault rail moves the cash,   *)
(* marks the invoice sold and hands the position over before it delivers;   *)
(* the x402 rail delivers first and writes the rest together.  Either may   *)
(* deliver and be answered an error.                                        *)

Quiet == todo = <<>>
Rests == UNCHANGED <<ledger, record, rating, schedule, job, todo, today,
                     crashes, returned>>

Relist(i) ==
    /\ Quiet
    /\ invoice[i] = "sold" /\ HasHolder(i)
    /\ invoice' = [invoice EXCEPT ![i] = "listed"]
    /\ UNCHANGED <<trade, capital, owner>>
    /\ Rests

Delist(i) ==
    /\ Quiet
    /\ invoice[i] = "listed" /\ ~InSale(i)
    /\ invoice' = [invoice EXCEPT ![i] = "sold"]
    /\ UNCHANGED <<trade, capital, owner>>
    /\ Rests

(* Every position but b's stops answering, and gives its capital back.      *)
HandOver(i, b, state) ==
    /\ trade' = [trade EXCEPT ![i] = [c \in Buyers |->
           CASE c = b -> [@[c] EXCEPT !.state = state]
             [] Live(i, c) -> [@[c] EXCEPT !.superseded = TRUE]
             [] OTHER -> @[c]]]
    /\ capital' = [c \in Buyers |->
           CASE c = b -> IF trade[i][b].state = "none" THEN Allocate(capital[c])
                                                       ELSE capital[c]
             [] Live(i, c) -> GiveBack(c)
             [] OTHER -> capital[c]]

(* The position is held on the account of the live holder, so a holder who  *)
(* parted with it unheard has none to sell.                                 *)
Buyable(i, b) ==
    /\ Quiet
    /\ invoice[i] = "listed" /\ ~InSale(i)
    /\ trade[i][b].state = "none"
    /\ Live(i, owner[i])
    /\ capital[b].allocated < capital[b].funded

PayFromVault(i, b) ==
    /\ Buyable(i, b) /\ b \in Vaulted
    /\ invoice' = [invoice EXCEPT ![i] = "sold"]
    /\ HandOver(i, b, "paying")
    /\ UNCHANGED owner
    /\ Rests

ArmToSign(i, b) ==
    /\ Buyable(i, b) /\ b \notin Vaulted
    /\ trade' = [trade EXCEPT ![i][b].state = "paying"]
    /\ capital' = [capital EXCEPT ![b] = Allocate(@)]
    /\ UNCHANGED <<invoice, owner>>
    /\ Rests

(* Never signed for, or swept: possible while the hold can be released.     *)
Unwind(i, b) ==
    /\ Quiet
    /\ trade[i][b].state = "paying" /\ b \notin Vaulted
    /\ owner[i] # b
    /\ trade' = [trade EXCEPT ![i][b].state = "none"]
    /\ capital' = [capital EXCEPT ![b] = Release(@)]
    /\ UNCHANGED <<invoice, owner>>
    /\ Rests

(* executeHold, on the instrument.                                          *)
Deliver(i, b) ==
    /\ Quiet
    /\ trade[i][b].state = "paying" /\ owner[i] # b
    /\ owner' = [owner EXCEPT ![i] = b]
    /\ UNCHANGED <<invoice, trade, capital>>
    /\ Rests

RecordSale(i, b) ==
    /\ Quiet
    /\ trade[i][b].state = "paying" /\ owner[i] = b
    /\ \/ /\ b \in Vaulted
          /\ trade' = [trade EXCEPT ![i][b].state = "settled"]
          /\ UNCHANGED <<invoice, capital>>
       \/ /\ b \notin Vaulted
          /\ invoice' = [invoice EXCEPT ![i] = "sold"]
          /\ HandOver(i, b, "settled")
    /\ UNCHANGED owner
    /\ Rests

(* The delivery is answered an error, whether or not it was made: the trade *)
(* is failed and nothing else is put right.                                 *)
FailSale(i, b) ==
    /\ Quiet
    /\ trade[i][b].state = "paying"
    /\ trade' = [trade EXCEPT ![i][b].state = "failed"]
    /\ UNCHANGED <<invoice, capital, owner>>
    /\ Rests

-----------------------------------------------------------------------------
(* Store writes, one action for each kind.                                  *)

(* Mutated form: counted again whenever it is observed.                     *)
CountAgain(w) ==
    /\ w.op = "outcome"
    /\ ledger' = [ledger EXCEPT ![w.invoice] = IF @ = "none" THEN w.outcome ELSE @]
    /\ record' = Accumulate(record, w.outcome)
    /\ UNCHANGED <<invoice, trade, rating, capital, returned>>

(* recordOutcome: one transaction, and the unique index is the guard.       *)
WriteOutcome(w) ==
    /\ w.op = "outcome"
    /\ IF ledger[w.invoice] # "none" THEN UNCHANGED <<ledger, record>>
       ELSE /\ ledger' = [ledger EXCEPT ![w.invoice] = w.outcome]
            /\ record' = Accumulate(record, w.outcome)
    /\ UNCHANGED <<invoice, trade, rating, capital, returned>>

WriteRating(w) ==
    /\ w.op = "rating"
    /\ rating' = Assess(record)
    /\ UNCHANGED <<invoice, trade, ledger, record, capital, returned>>

WriteRelease(w) ==
    /\ w.op = "release"
    /\ capital' = [capital EXCEPT ![w.holder] = GiveBack(w.holder)]
    /\ returned' = [returned EXCEPT ![w.invoice][w.holder] = @ + 1]
    /\ UNCHANGED <<invoice, trade, ledger, record, rating>>

WriteStatus(w) ==
    /\ w.op \in {"matured", "defaulted"}
    /\ invoice' = [invoice EXCEPT ![w.invoice] = w.op]
    /\ UNCHANGED <<trade, ledger, record, rating, capital, returned>>

WriteScheduled(w) ==
    /\ w.op = "scheduled"
    /\ trade' = [trade EXCEPT ![w.invoice][w.holder].schedule = w.schedule]
    /\ UNCHANGED <<invoice, ledger, record, rating, capital, returned>>

StoreWrite ==
    /\ todo # <<>>
    /\ LET w == Head(todo) IN
         \/ WriteOutcome(w)
         \/ WriteRating(w)
         \/ WriteRelease(w)
         \/ WriteStatus(w)
         \/ WriteScheduled(w)
    /\ todo' = Tail(todo)
    /\ UNCHANGED <<chain, job, today, crashes>>

-----------------------------------------------------------------------------
(* The two routes.  Both read the invoice, its holder and the ledger, and   *)
(* write the outcome before anything that follows from it.                  *)

Writes(ops, i, b, outcome, s) ==
    [k \in 1..Len(ops) |-> [op |-> ops[k], invoice |-> i, holder |-> b,
                            outcome |-> outcome, schedule |-> s]]
GoOn(r, j, writes) ==
    /\ job' = [job EXCEPT ![r] = j]
    /\ todo' = writes
    /\ UNCHANGED <<rows, chain, today, crashes, returned>>

(* The rating column is written only when a new outcome moved the grade.    *)
Recording(i, outcome) ==
    IF ledger[i] = "none" /\ Assess(Accumulate(record, outcome)) # rating
    THEN <<"outcome", "rating">> ELSE <<"outcome">>

(* When the money landed, and what that makes of the payment.               *)
Outcome(paidAt) == IF paidAt <= DueAt THEN "on_time" ELSE "late"
Statable == {day \in 0..MaxDay : day <= today}

(* Mutated form: a replay leaves the job as it finds it.                    *)
ClosingAtFirst(i) == IF ledger[i] = "none" THEN <<"release", "matured">> ELSE <<>>

(* What closes the receivable: nothing, when the ledger and the status both *)
(* say that it was done before.                                             *)
Closing(i) ==
    IF invoice[i] # "matured" THEN <<"release", "matured">>
    ELSE IF ledger[i] = "none" THEN <<"release">>
    ELSE <<>>

Observe(r, i, b, paidAt) ==
    GoOn(r, [IdleJob EXCEPT !.pc = "requirements", !.invoice = i,
                            !.holder = b, !.seen = trade[i][b].schedule],
         Writes(Recording(i, Outcome(paidAt)) \o Closing(i),
                i, b, Outcome(paidAt), NoSchedule))

(* settleAtMaturity: a payment already on the ledger is read back whatever  *)
(* the clock says, and the job a dead process left is finished; a first     *)
(* recording needs a date once the invoice is past due.                     *)
Mature(r, i, b) ==
    /\ Quiet /\ job[r].pc = "idle"
    /\ Live(i, b)
    /\ invoice[i] \in {"sold", "matured"}
    /\ ledger[i] # "default"
    /\ \/ (ledger[i] # "none" \/ today <= DueAt) /\ Observe(r, i, b, today)
       \/ \E paidAt \in Statable : Observe(r, i, b, paidAt)

(* Mutated form: what the ledger holds is not asked.                        *)
DefaultOverPayment(r, i, b) ==
    /\ Quiet /\ job[r].pc = "idle"
    /\ Live(i, b)
    /\ invoice[i] \in {"sold", "defaulted"}
    /\ ledger[i] = "none" => today > DueAt
    /\ GoOn(r, IdleJob,
            Writes(Recording(i, "default")
                     \o IF invoice[i] = "defaulted" THEN <<>> ELSE <<"defaulted">>,
                   i, b, "default", NoSchedule))

(* Mutated form: a default gives the capital back, as maturity does.        *)
DefaultReleases(r, i, b) ==
    /\ Quiet /\ job[r].pc = "idle"
    /\ Live(i, b)
    /\ invoice[i] \in {"sold", "defaulted"}
    /\ ledger[i] = "none" => today > DueAt
    /\ ledger[i] \notin Paid
    /\ GoOn(r, IdleJob,
            Writes(Recording(i, "default")
                     \o IF invoice[i] = "defaulted" THEN <<>>
                        ELSE <<"release", "defaulted">>,
                   i, b, "default", NoSchedule))

(* recordDefault: only once past due, never over a recorded payment; the    *)
(* capital stays allocated, because it is gone.                             *)
Default(r, i, b) ==
    /\ Quiet /\ job[r].pc = "idle"
    /\ Live(i, b)
    /\ invoice[i] \in {"sold", "defaulted"}
    /\ ledger[i] = "none" => today > DueAt
    /\ ledger[i] \notin Paid
    /\ GoOn(r, IdleJob,
            Writes(Recording(i, "default")
                     \o IF invoice[i] = "defaulted" THEN <<>> ELSE <<"defaulted">>,
                   i, b, "default", NoSchedule))

-----------------------------------------------------------------------------
(* The payout, arranged after the receivable has closed.  The holder and    *)
(* their schedule are those the request read before it wrote anything.      *)

Waiting(r, pc) == Quiet /\ job[r].pc = pc /\ job[r].heard = "nothing"
Await(r, pc) == [job[r] EXCEPT !.pc = pc, !.heard = "nothing"]

RequirementsBuilt(r) ==
    /\ Waiting(r, "requirements")
    /\ GoOn(r, Await(r, IF job[r].seen # NoSchedule THEN "status" ELSE "schedule"),
            <<>>)

RequirementsFail(r) == Waiting(r, "requirements") /\ GoOn(r, IdleJob, <<>>)

(* The venue hears of the schedule, of none to be had, or of an error; only *)
(* the first is written down, and only it is asked about.                   *)
ScheduleAnswered(r) ==
    /\ Quiet /\ job[r].pc = "schedule"
    /\ \/ /\ job[r].heard \in {"none", "error"}
          /\ GoOn(r, IdleJob, <<>>)
       \/ /\ job[r].heard = "ok"
          /\ GoOn(r, Await(r, "status"),
                  Writes(<<"scheduled">>, job[r].invoice, job[r].holder,
                         "on_time", job[r].seen))

(* payoutStatus only reports.                                               *)
StatusRead(r) == Waiting(r, "status") /\ GoOn(r, IdleJob, <<>>)

Answer(r, heard, s) ==
    /\ job' = [job EXCEPT ![r].heard = heard, ![r].seen = s]
    /\ UNCHANGED <<rows, todo, owner, today, crashes, returned>>

Unused == {s \in Schedules : schedule[s].state = "none"}

PayoutScheduled(r) ==
    /\ Waiting(r, "schedule")
    /\ Collecting /\ job[r].holder \in Payable
    /\ Unused # {}
    /\ LET s == Min(Unused) IN
       /\ schedule' = [schedule EXCEPT ![s] =
              [invoice |-> job[r].invoice, payee |-> job[r].holder,
               state |-> "unsigned"]]
       /\ \/ Answer(r, "ok", s)
          \/ Lossy /\ Answer(r, "error", NoSchedule)

PayoutNotScheduled(r) ==
    /\ Waiting(r, "schedule")
    /\ Answer(r, IF Collecting THEN "error" ELSE "none", NoSchedule)
    /\ UNCHANGED schedule

(* Signed by the collection key, or dropped by the network unsigned.        *)
ScheduleEnds(s) ==
    /\ Quiet
    /\ schedule[s].state = "unsigned"
    /\ \E state \in {"executed", "expired"} :
           schedule' = [schedule EXCEPT ![s].state = state]
    /\ UNCHANGED <<rows, owner, job, todo, today, crashes, returned>>

-----------------------------------------------------------------------------

Day ==
    /\ Quiet
    /\ today < MaxDay
    /\ today' = today + 1
    /\ UNCHANGED <<rows, chain, job, todo, crashes, returned>>

Crash ==
    /\ crashes < MaxCrashes
    /\ crashes' = crashes + 1
    /\ job' = [r \in Requests |-> IdleJob]
    /\ todo' = <<>>
    /\ UNCHANGED <<rows, chain, today, returned>>

Sale(i) ==
    \/ Relist(i) \/ Delist(i)
    \/ \E b \in Buyers : \/ PayFromVault(i, b) \/ ArmToSign(i, b) \/ Unwind(i, b)
                         \/ Deliver(i, b) \/ RecordSale(i, b) \/ FailSale(i, b)
Operator(r) == \E i \in Invoices, b \in Buyers : Mature(r, i, b) \/ Default(r, i, b)
Payout(r) ==
    \/ RequirementsBuilt(r) \/ RequirementsFail(r)
    \/ PayoutScheduled(r) \/ PayoutNotScheduled(r)
    \/ ScheduleAnswered(r) \/ StatusRead(r)

Next ==
    \/ StoreWrite
    \/ \E i \in Invoices : Sale(i)
    \/ \E r \in Requests : Operator(r) \/ Payout(r)
    \/ \E s \in Schedules : ScheduleEnds(s)
    \/ Day
    \/ Crash

Spec == Init /\ [][Next]_vars

(* A started request goes on, and the operator presses the route of a       *)
(* receivable again whenever it would be answered.                          *)
Retry(i) == \E r \in Requests, b \in Buyers : ledger[i] \in Paid /\ Mature(r, i, b)
FairSpec ==
    /\ Spec
    /\ WF_vars(StoreWrite)
    /\ \A r \in Requests : WF_vars(Payout(r))
    /\ \A i \in Invoices : SF_vars(Retry(i))

-----------------------------------------------------------------------------
(* What the end of a receivable promises.                                   *)

(* A crash between the ledger and the invoice row, a replay, a late default *)
(* or a payment after a write-off never leave the two telling different     *)
(* stories: a matured invoice was paid and a defaulted one was written off. *)
StatusFollowsLedger ==
    \A i \in Invoices :
        /\ invoice[i] = "matured" => ledger[i] \in Paid
        /\ invoice[i] = "defaulted" => ledger[i] = "default"

(* The debtor is credited or marked once per receivable, however often      *)
(* maturity is observed, retried or cut short (recordOutcome).              *)
CountedOnce ==
    \A outcome \in Outcomes :
        record[outcome] = Opening[outcome]
                            + Cardinality({i \in Invoices : ledger[i] = outcome})

(* Paid for over x402, delivered, and recorded as failed: who owns the      *)
(* paper is not who the rows say holds it.                                  *)
SoldUnheard(i) == owner[i] \notin Vaulted /\ trade[i][owner[i]].state = "failed"

(* Whoever a payout is addressed to is the live holder by the rows and owned *)
(* the paper when the receivable closed, and still does, though a sale may  *)
(* have been in flight and the holder was read before several awaits.  One  *)
(* case is excepted, and the code pays the wrong party in it: a resale over *)
(* x402 that is delivered and answered an error leaves the seller live, and *)
(* the payout goes to them and not to the buyer who has paid for the paper. *)
PaysTheOwner ==
    \A s \in Schedules : LET i == schedule[s].invoice IN
        schedule[s].state # "none" =>
            /\ invoice[i] = "matured"
            /\ Live(i, schedule[s].payee)
            /\ schedule[s].payee = owner[i] \/ SoldUnheard(i)

(* A loss stays a loss: the capital of a buyer who holds a defaulted        *)
(* receivable is never given back, also by a maturity that crossed it.      *)
LossKept ==
    \A i \in Invoices, b \in Buyers :
        invoice[i] = "defaulted" /\ Live(i, b) => returned[i][b] = 0

(* The opposite mark never replaces one on the ledger, and a grade of D is  *)
(* for good.                                                                *)
MarksArePermanent ==
    [][/\ \A i \in Invoices : ledger[i] # "none" => ledger'[i] = ledger[i]
       /\ Assess(record) = "D" => Assess(record') = "D"]_vars

(* A payment on the ledger is seen through: the invoice is closed and its   *)
(* holder's capital given back, unless in the window a crash left the paper *)
(* is listed again, or sold again and not delivered.                        *)
PaymentSeenThrough ==
    \A i \in Invoices :
        ledger[i] \in Paid ~>
            \/ invoice[i] = "matured" /\ \E b \in Buyers : returned[i][b] > 0
            \/ invoice[i] = "listed" \/ ~HasHolder(i)
=============================================================================

--------------------------- MODULE MaturityProofs ---------------------------
(* How a receivable ends, proved of Maturity for any number of receivables, *)
(* buyers, requests, schedules and crashes: the invoice row, the outcome    *)
(* ledger, the debtor's record, the capital given back and the payouts      *)
(* scheduled tell one story, wherever the process dies.                     *)
EXTENDS Maturity, FiniteSetTheorems, SequenceTheorems, WellFoundedInduction, TLAPS

USE MaturityAssumption

(* A sale in flight is the only one of its invoice, and over the vault the  *)
(* old holder is out already.  Whoever holds the paper by its row owns it,  *)
(* or has delivered it over x402 and the venue has not heard so, or never   *)
(* will.                                                                    *)
Parted(i) == owner[i] \notin Vaulted /\ trade[i][owner[i]].state \in {"paying", "failed"}
Apart(i) ==
    \A b \in Buyers :
        /\ trade[i][b].state = "paying" =>
               /\ \A c \in Buyers : trade[i][c].state = "paying" => c = b
               /\ b \in Vaulted => invoice[i] = "sold" /\ ~HasHolder(i)
               /\ b \notin Vaulted => invoice[i] = "listed"
        /\ Live(i, b) => owner[i] = b \/ Parted(i)
SalesApart == \A i \in Invoices : Apart(i)

(* The ledger has, or is about to have, what a queued status will say.      *)
Backed(w, outcomes) ==
    IF todo[1].op = "outcome"
    THEN /\ todo[1].invoice = w.invoice /\ todo[1].outcome \in outcomes
         /\ ledger[w.invoice] \in outcomes \cup {"none"}
    ELSE ledger[w.invoice] \in outcomes

Follows(k) ==
    LET w == todo[k] IN
    /\ w.op = "outcome" => k = 1
    /\ w.op = "release" => /\ k < Len(todo) /\ todo[k + 1].op = "matured"
                           /\ todo[k + 1].invoice = w.invoice
    /\ w.op \in {"matured", "defaulted"} =>
           k = Len(todo) /\ invoice[w.invoice] = "sold" /\ Live(w.invoice, w.holder)
    /\ w.op = "matured" => Backed(w, Paid)
    /\ w.op = "defaulted" => Backed(w, {"default"})
WritesFollow == \A k \in 1..Len(todo) : Follows(k)

(* A request that arranges a payout acts for the holder of a receivable     *)
(* that has matured, or matures before anything else can run.               *)
Matures(i) == \/ invoice[i] = "matured"
              \/ \E k \in 1..Len(todo) : todo[k].op = "matured" /\ todo[k].invoice = i
JobsFollow ==
    \A r \in Requests : job[r].pc # "idle" =>
        /\ job[r].invoice \in Invoices /\ job[r].holder \in Buyers
        /\ Live(job[r].invoice, job[r].holder)
        /\ Matures(job[r].invoice)

ReturnedIsPaid ==
    \A i \in Invoices, b \in Buyers : returned[i][b] # 0 => ledger[i] \in Paid

SchedulesNamed ==
    \A s \in Schedules : schedule[s].state # "none" =>
        schedule[s].invoice \in Invoices /\ schedule[s].payee \in Buyers

MaturityInv ==
    /\ TypeOK /\ SalesApart /\ WritesFollow /\ JobsFollow
    /\ StatusFollowsLedger /\ ReturnedIsPaid /\ SchedulesNamed /\ PaysTheOwner

-----------------------------------------------------------------------------
(* Types.                                                                   *)

(* A set of numbers that is not empty has a least.                          *)
LEMMA Least ==
    ASSUME NEW S \in SUBSET Nat, S # {}
    PROVE  Min(S) \in S
<1>1. PICK x \in S : \A y \in S : ~ (<<y, x>> \in OpToRel(<, Nat))
  BY NatLessThanWellFounded, WFMin, Zenon
<1>2. \A y \in S : ~(y < x)
  BY <1>1 DEF OpToRel
<1>3. \A y \in S : x <= y
  BY <1>2
<1> QED
  BY <1>3 DEF Min

LEMMA SomeInvoices ==
    ASSUME NEW S \in SUBSET Invoices
    PROVE  IsFiniteSet(S) /\ Cardinality(S) \in Nat
BY FS_Subset, FS_CardinalityType

CapitalRow == [funded : Nat, allocated : Nat]

LEMMA CapitalTyped ==
    ASSUME TypeOK, NEW b \in Buyers
    PROVE  /\ capital[b] \in CapitalRow
           /\ Allocate(capital[b]) \in CapitalRow
           /\ GiveBack(b) \in CapitalRow
<1>1. capital[b] \in CapitalRow
  BY DEF TypeOK, CapitalRow
<1>2. \A n \in Nat : AtLeast0(n - 1) \in Nat /\ n + 1 \in Nat
  BY DEF AtLeast0
<1>3. Allocate(capital[b]) \in CapitalRow
  BY <1>1, <1>2 DEF Allocate, CapitalRow
<1>4. Release(capital[b]) \in CapitalRow
  BY <1>1, <1>2 DEF Release, CapitalRow
<1>5. Retire(capital[b]) \in CapitalRow
  BY <1>1, <1>2 DEF Retire, CapitalRow
<1> QED
  BY <1>1, <1>3, <1>4, <1>5 DEF GiveBack

LEMMA TradeTyped ==
    ASSUME TypeOK, NEW i \in Invoices, NEW b \in Buyers
    PROVE  trade[i][b] \in Trade
BY DEF TypeOK

LEMMA IdleTyped == IdleJob \in Job /\ IdleJob.pc = "idle"
BY DEF IdleJob, Job

(* The head of the queue, and what is left of it.                           *)
LEMMA QueueTail ==
    ASSUME TypeOK, todo # <<>>, todo' = Tail(todo)
    PROVE  /\ Head(todo) = todo[1] /\ Head(todo) \in Write
           /\ Len(todo) \in Nat \ {0}
           /\ todo' \in Seq(Write) /\ Len(todo') = Len(todo) - 1
           /\ \A k \in 1..Len(todo) : todo[k] \in Write
           /\ \A k \in 1..Len(todo') :
                  k + 1 \in 1..Len(todo) /\ todo'[k] = todo[k + 1]
BY DEF TypeOK

LEMMA MaturityInit == Init => MaturityInv
<1> SUFFICES ASSUME Init PROVE MaturityInv
  OBVIOUS
<1>1. NoTrade \in Trade /\ [NoTrade EXCEPT !.state = "settled"] \in Trade
  BY DEF NoTrade, Trade, Schedules, NoSchedule
<1>2. \A i \in Invoices, b \in Buyers :
          trade[i][b] = IF b = owner[i] THEN [NoTrade EXCEPT !.state = "settled"]
                                        ELSE NoTrade
  BY DEF Init
<1>3. trade \in [Invoices -> [Buyers -> Trade]]
  BY <1>1 DEF Init
<1>4. capital \in [Buyers -> [funded : Nat, allocated : Nat]]
  <2>1. ASSUME NEW b \in Buyers
        PROVE  Cardinality({i \in Invoices : owner[i] = b}) \in Nat
    BY SomeInvoices
  <2> QED
    BY <2>1 DEF Init
<1>5. Opening \in [Outcomes -> Nat]
  BY DEF Outcomes, Paid
<1>6. Assess(Opening) \in Grades
  BY DEF Assess, Grades
<1>7. job \in [Requests -> Job] /\ \A r \in Requests : job[r].pc = "idle"
  BY IdleTyped DEF Init
<1>8. TypeOK
  <2>1. /\ invoice \in [Invoices -> InvoiceStatus]
        /\ ledger \in [Invoices -> Outcomes \cup {"none"}]
        /\ returned \in [Invoices -> [Buyers -> Nat]]
    BY DEF Init, InvoiceStatus
  <2>2. schedule \in [Schedules -> [invoice : Invoices \cup {"none"},
                                    payee : Buyers \cup {Nobody},
                                    state : {"none", "unsigned", "executed", "expired"}]]
    BY DEF Init
  <2>3. /\ record \in [Outcomes -> Nat] /\ rating \in Grades
        /\ owner \in [Invoices -> Buyers]
        /\ todo \in Seq(Write) /\ today \in Nat /\ crashes \in Nat
    BY <1>5, <1>6 DEF Init
  <2> QED
    BY <1>3, <1>4, <1>7, <2>1, <2>2, <2>3 DEF TypeOK
<1>9. \A i \in Invoices, b \in Buyers :
          trade[i][b].state # "paying" /\ (Live(i, b) => owner[i] = b)
  BY <1>2 DEF NoTrade, Live
<1>10. SalesApart
  BY <1>9 DEF SalesApart, Apart
<1>11. WritesFollow /\ JobsFollow
  BY <1>7 DEF WritesFollow, JobsFollow, Init
<1>12. StatusFollowsLedger /\ ReturnedIsPaid /\ SchedulesNamed /\ PaysTheOwner
  BY DEF Init, StatusFollowsLedger, ReturnedIsPaid, SchedulesNamed, PaysTheOwner
<1> QED
  BY <1>8, <1>10, <1>11, <1>12 DEF MaturityInv

-----------------------------------------------------------------------------
(* Sales, which touch no receivable that has closed.                        *)

SaleTyped ==
    /\ invoice' \in [Invoices -> InvoiceStatus]
    /\ trade' \in [Invoices -> [Buyers -> Trade]]
    /\ owner' \in [Invoices -> Buyers]
    /\ capital' \in [Buyers -> CapitalRow]

Elsewhere(i) ==
    \A j \in Invoices : j # i => /\ invoice'[j] = invoice[j]
                                /\ trade'[j] = trade[j]
                                /\ owner'[j] = owner[j]

LEMMA SaleKeeps ==
    ASSUME MaturityInv, NEW i \in Invoices, Quiet, Rests, SaleTyped, Elsewhere(i),
           invoice[i] \in {"sold", "listed"}, invoice'[i] \in {"sold", "listed"},
           Apart(i)'
    PROVE  MaturityInv'
<1>1. TypeOK'
  BY DEF MaturityInv, TypeOK, Rests, SaleTyped, CapitalRow
<1>2. SalesApart'
  <2> SUFFICES ASSUME NEW j \in Invoices, j # i PROVE Apart(j)'
    BY DEF SalesApart
  <2>1. Apart(j)
    BY DEF MaturityInv, SalesApart
  <2> QED
    BY <2>1 DEF Elsewhere, Apart, Parted, Live, HasHolder
<1>3. todo = <<>> /\ todo' = todo /\ job' = job /\ schedule' = schedule
      /\ ledger' = ledger /\ returned' = returned
  BY DEF Quiet, Rests
<1>4. WritesFollow'
  BY <1>3 DEF WritesFollow
<1>5. JobsFollow'
  <2> SUFFICES ASSUME NEW r \in Requests, job[r].pc # "idle"
               PROVE  /\ job[r].invoice \in Invoices /\ job[r].holder \in Buyers
                      /\ Live(job[r].invoice, job[r].holder)'
                      /\ Matures(job[r].invoice)'
    BY <1>3 DEF JobsFollow, Live, Matures
  <2>1. /\ job[r].invoice \in Invoices /\ job[r].holder \in Buyers
        /\ Live(job[r].invoice, job[r].holder)
        /\ invoice[job[r].invoice] = "matured"
    BY <1>3 DEF MaturityInv, JobsFollow, Matures
  <2> QED
    BY <1>3, <2>1 DEF Elsewhere, Live, Matures
<1>6. StatusFollowsLedger' /\ ReturnedIsPaid' /\ SchedulesNamed'
  BY <1>3 DEF MaturityInv, StatusFollowsLedger, ReturnedIsPaid, SchedulesNamed, Elsewhere
<1>7. PaysTheOwner'
  <2> SUFFICES ASSUME NEW s \in Schedules, schedule[s].state # "none"
               PROVE  LET j == schedule[s].invoice IN
                      /\ invoice'[j] = "matured"
                      /\ Live(j, schedule[s].payee)'
                      /\ schedule[s].payee = owner'[j] \/ SoldUnheard(j)'
    BY <1>3 DEF PaysTheOwner, Live, SoldUnheard
  <2> DEFINE j == schedule[s].invoice
  <2>1. /\ j \in Invoices /\ invoice[j] = "matured" /\ Live(j, schedule[s].payee)
        /\ schedule[s].payee = owner[j] \/ SoldUnheard(j)
    BY DEF MaturityInv, SchedulesNamed, PaysTheOwner
  <2> QED
    BY <1>3, <2>1 DEF Elsewhere, Live, SoldUnheard
<1> QED
  BY <1>1, <1>2, <1>4, <1>5, <1>6, <1>7 DEF MaturityInv

LEMMA HandedOver ==
    ASSUME MaturityInv, NEW i \in Invoices, NEW b \in Buyers,
           NEW state \in {"paying", "settled"}, HandOver(i, b, state),
           trade[i][b].state # "settled"
    PROVE  /\ trade' \in [Invoices -> [Buyers -> Trade]]
           /\ capital' \in [Buyers -> CapitalRow]
           /\ \A j \in Invoices : j # i => trade'[j] = trade[j]
           /\ trade'[i][b].state = state
           /\ \A c \in Buyers : c # b =>
                  trade'[i][c].state = trade[i][c].state /\ ~Live(i, c)'
<1>1. TypeOK /\ \A c \in Buyers : trade[i][c] \in Trade
  BY TradeTyped DEF MaturityInv
<1> DEFINE Following(c) == CASE c = b -> [trade[i][c] EXCEPT !.state = state]
                        [] Live(i, c) -> [trade[i][c] EXCEPT !.superseded = TRUE]
                        [] OTHER -> trade[i][c]
<1>2. trade' = [trade EXCEPT ![i] = [c \in Buyers |-> Following(c)]]
  BY DEF HandOver
<1>3. /\ Following(b) \in Trade /\ Following(b).state = state
      /\ \A c \in Buyers : c # b =>
             /\ Following(c) \in Trade /\ Following(c).state = trade[i][c].state
             /\ ~(Following(c).state = "settled" /\ ~Following(c).superseded)
  <2>1. ASSUME NEW x \in Trade
        PROVE  /\ [x EXCEPT !.state = state] \in Trade
               /\ [x EXCEPT !.state = state].state = state
               /\ [x EXCEPT !.superseded = TRUE] \in Trade
               /\ [x EXCEPT !.superseded = TRUE].state = x.state
               /\ [x EXCEPT !.superseded = TRUE].superseded
    BY DEF Trade
  <2>2. Following(b) = [trade[i][b] EXCEPT !.state = state]
    BY DEF Live
  <2>3. ASSUME NEW c \in Buyers, c # b
        PROVE  /\ Following(c) \in Trade /\ Following(c).state = trade[i][c].state
               /\ ~(Following(c).state = "settled" /\ ~Following(c).superseded)
    <3>1. CASE Live(i, c)
      <4>1. Following(c) = [trade[i][c] EXCEPT !.superseded = TRUE]
        BY <2>3, <3>1
      <4> QED
        BY <1>1, <2>1, <4>1
    <3>2. CASE ~Live(i, c)
      <4>1. Following(c) = trade[i][c]
        BY <2>3, <3>2
      <4> QED
        BY <1>1, <3>2, <4>1 DEF Live
    <3> QED
      BY <3>1, <3>2
  <2> QED
    BY <1>1, <2>1, <2>2, <2>3
<1> HIDE DEF Following
<1>4. trade'[i] = [c \in Buyers |-> Following(c)] /\ trade' \in [Invoices -> [Buyers -> Trade]]
      /\ \A j \in Invoices : j # i => trade'[j] = trade[j]
  BY <1>1, <1>2, <1>3 DEF TypeOK
<1>5. \A c \in Buyers : c # b =>
          trade'[i][c].state = trade[i][c].state /\ ~Live(i, c)'
  BY <1>3, <1>4 DEF Live
<1>6. capital' \in [Buyers -> CapitalRow]
  <2>1. \A c \in Buyers : /\ capital[c] \in CapitalRow
                          /\ Allocate(capital[c]) \in CapitalRow
                          /\ GiveBack(c) \in CapitalRow
    BY <1>1, CapitalTyped
  <2> QED
    BY <2>1 DEF HandOver
<1> QED
  BY <1>3, <1>4, <1>5, <1>6

LEMMA RelistKeeps ==
    ASSUME MaturityInv, NEW i \in Invoices, Relist(i) \/ Delist(i)
    PROVE  MaturityInv'
<1>1. /\ Quiet /\ Rests /\ UNCHANGED <<trade, capital, owner>>
      /\ \/ invoice[i] = "sold" /\ HasHolder(i) /\ invoice' = [invoice EXCEPT ![i] = "listed"]
         \/ invoice[i] = "listed" /\ ~InSale(i) /\ invoice' = [invoice EXCEPT ![i] = "sold"]
  BY DEF Relist, Delist
<1>2. TypeOK /\ Apart(i)
  BY DEF MaturityInv, SalesApart
<1>3. SaleTyped /\ Elsewhere(i) /\ invoice[i] \in {"sold", "listed"}
      /\ invoice'[i] \in {"sold", "listed"}
  BY <1>1, <1>2 DEF SaleTyped, Elsewhere, TypeOK, InvoiceStatus, CapitalRow
<1>4. ~InSale(i)
  BY <1>1, <1>2 DEF Apart, InSale
<1>5. Apart(i)'
  BY <1>1, <1>2, <1>4 DEF Apart, Parted, InSale, Live
<1> QED
  BY <1>1, <1>3, <1>5, SaleKeeps

LEMMA PayFromVaultKeeps ==
    ASSUME MaturityInv, NEW i \in Invoices, NEW b \in Buyers, PayFromVault(i, b)
    PROVE  MaturityInv'
<1>1. /\ Quiet /\ Rests /\ invoice[i] = "listed" /\ ~InSale(i)
      /\ trade[i][b].state = "none" /\ b \in Vaulted
      /\ invoice' = [invoice EXCEPT ![i] = "sold"]
      /\ HandOver(i, b, "paying") /\ owner' = owner
  BY DEF PayFromVault, Buyable
<1>2. TypeOK
  BY DEF MaturityInv
<1>3. /\ trade' \in [Invoices -> [Buyers -> Trade]]
      /\ capital' \in [Buyers -> CapitalRow]
      /\ \A j \in Invoices : j # i => trade'[j] = trade[j]
      /\ trade'[i][b].state = "paying"
      /\ \A c \in Buyers : c # b =>
             trade'[i][c].state = trade[i][c].state /\ ~Live(i, c)'
  BY <1>1, HandedOver
<1>4. SaleTyped /\ Elsewhere(i) /\ invoice'[i] = "sold"
  BY <1>1, <1>2, <1>3 DEF SaleTyped, Elsewhere, TypeOK, InvoiceStatus
<1>5. Apart(i)'
  <2>1. \A c \in Buyers : c # b => trade'[i][c].state # "paying"
    BY <1>1, <1>3 DEF InSale
  <2>2. \A c \in Buyers : ~Live(i, c)'
    BY <1>3 DEF Live
  <2>3. ~HasHolder(i)'
    BY <2>2 DEF HasHolder
  <2> QED
    BY <1>1, <1>4, <2>1, <2>2, <2>3 DEF Apart
<1> QED
  BY <1>1, <1>4, <1>5, SaleKeeps

(* One trade changes its state, and nothing else of any trade.              *)
LEMMA TradeMoved ==
    ASSUME TypeOK, NEW i \in Invoices, NEW b \in Buyers,
           NEW state \in {"none", "paying", "settled", "failed"},
           trade' = [trade EXCEPT ![i][b].state = state]
    PROVE  /\ trade' \in [Invoices -> [Buyers -> Trade]]
           /\ \A j \in Invoices : j # i => trade'[j] = trade[j]
           /\ \A c \in Buyers : c # b => trade'[i][c] = trade[i][c]
           /\ trade'[i][b].state = state
<1> DEFINE x == [trade[i][b] EXCEPT !.state = state]
<1>1. x \in Trade /\ x.state = state
  BY TradeTyped DEF Trade
<1>2. trade' = [trade EXCEPT ![i] = [trade[i] EXCEPT ![b] = x]]
  OBVIOUS
<1>3. trade \in [Invoices -> [Buyers -> Trade]]
  BY DEF TypeOK
<1> HIDE DEF x
<1> QED
  BY <1>1, <1>2, <1>3

LEMMA ArmToSignKeeps ==
    ASSUME MaturityInv, NEW i \in Invoices, NEW b \in Buyers, ArmToSign(i, b)
    PROVE  MaturityInv'
<1>1. /\ Quiet /\ Rests /\ invoice[i] = "listed" /\ ~InSale(i)
      /\ trade[i][b].state = "none" /\ b \notin Vaulted
      /\ trade' = [trade EXCEPT ![i][b].state = "paying"]
      /\ capital' = [capital EXCEPT ![b] = Allocate(capital[b])]
      /\ invoice' = invoice /\ owner' = owner
  BY DEF ArmToSign, Buyable
<1>2. TypeOK /\ Apart(i) /\ owner[i] \in Buyers
  BY DEF MaturityInv, SalesApart, TypeOK
<1>3. /\ trade' \in [Invoices -> [Buyers -> Trade]]
      /\ \A j \in Invoices : j # i => trade'[j] = trade[j]
      /\ \A c \in Buyers : c # b => trade'[i][c] = trade[i][c]
      /\ trade'[i][b].state = "paying"
  BY <1>1, <1>2, TradeMoved
<1>4. capital' \in [Buyers -> CapitalRow]
  <2>1. Allocate(capital[b]) \in CapitalRow /\ capital \in [Buyers -> CapitalRow]
    BY <1>2, CapitalTyped DEF TypeOK, CapitalRow
  <2> QED
    BY <1>1, <2>1
<1>5. SaleTyped /\ Elsewhere(i)
  BY <1>1, <1>2, <1>3, <1>4 DEF SaleTyped, Elsewhere, TypeOK
<1>6. Apart(i)'
  <2>1. \A c \in Buyers : c # b => trade'[i][c].state # "paying"
    BY <1>1, <1>3 DEF InSale
  <2>2. ASSUME NEW c \in Buyers, Live(i, c)'
        PROVE  owner'[i] = c \/ Parted(i)'
    <3>1. c # b /\ Live(i, c)
      BY <1>3, <2>2 DEF Live
    <3>2. owner[i] = c \/ Parted(i)
      BY <1>2, <3>1 DEF Apart
    <3>3. owner[i] = b => Parted(i)'
      BY <1>1, <1>3 DEF Parted
    <3>4. owner[i] # b => trade'[i][owner[i]] = trade[i][owner[i]]
      BY <1>2, <1>3
    <3> QED
      BY <1>1, <3>2, <3>3, <3>4 DEF Parted
  <2> QED
    BY <1>1, <2>1, <2>2 DEF Apart
<1> QED
  BY <1>1, <1>5, <1>6, SaleKeeps

LEMMA UnwindKeeps ==
    ASSUME MaturityInv, NEW i \in Invoices, NEW b \in Buyers, Unwind(i, b)
    PROVE  MaturityInv'
<1>1. /\ Quiet /\ Rests /\ b \notin Vaulted /\ owner[i] # b
      /\ trade[i][b].state = "paying"
      /\ trade' = [trade EXCEPT ![i][b].state = "none"]
      /\ capital' = [capital EXCEPT ![b] = Release(capital[b])]
      /\ invoice' = invoice /\ owner' = owner
  BY DEF Unwind
<1>2. TypeOK /\ Apart(i) /\ owner[i] \in Buyers
  BY DEF MaturityInv, SalesApart, TypeOK
<1>3. /\ trade' \in [Invoices -> [Buyers -> Trade]]
      /\ \A j \in Invoices : j # i => trade'[j] = trade[j]
      /\ \A c \in Buyers : c # b => trade'[i][c] = trade[i][c]
      /\ trade'[i][b].state = "none"
  BY <1>1, <1>2, TradeMoved
<1>4. capital' \in [Buyers -> CapitalRow]
  <2>1. Release(capital[b]) \in CapitalRow /\ capital \in [Buyers -> CapitalRow]
    BY <1>1, <1>2, CapitalTyped DEF TypeOK, CapitalRow, GiveBack
  <2> QED
    BY <1>1, <2>1
<1>5. SaleTyped /\ Elsewhere(i)
  BY <1>1, <1>2, <1>3, <1>4 DEF SaleTyped, Elsewhere, TypeOK
<1>6. invoice[i] = "listed"
  BY <1>1, <1>2 DEF Apart
<1>7. Apart(i)'
  <2>1. \A c \in Buyers : trade'[i][c].state # "paying"
    BY <1>1, <1>2, <1>3 DEF Apart
  <2>2. ASSUME NEW c \in Buyers, Live(i, c)'
        PROVE  owner'[i] = c \/ Parted(i)'
    <3>1. Live(i, c)
      BY <1>3, <2>2 DEF Live
    <3>2. trade'[i][owner[i]] = trade[i][owner[i]]
      BY <1>1, <1>2, <1>3
    <3> QED
      BY <1>1, <1>2, <3>1, <3>2 DEF Apart, Parted
  <2> QED
    BY <2>1, <2>2 DEF Apart
<1> QED
  BY <1>1, <1>5, <1>6, <1>7, SaleKeeps

LEMMA DeliverKeeps ==
    ASSUME MaturityInv, NEW i \in Invoices, NEW b \in Buyers, Deliver(i, b)
    PROVE  MaturityInv'
<1>1. /\ Quiet /\ Rests /\ trade[i][b].state = "paying"
      /\ owner' = [owner EXCEPT ![i] = b]
      /\ invoice' = invoice /\ trade' = trade /\ capital' = capital
  BY DEF Deliver
<1>2. TypeOK /\ Apart(i)
  BY DEF MaturityInv, SalesApart
<1>3. SaleTyped /\ Elsewhere(i) /\ owner'[i] = b
  BY <1>1, <1>2 DEF SaleTyped, Elsewhere, TypeOK, CapitalRow
<1>4. /\ invoice[i] \in {"sold", "listed"}
      /\ b \in Vaulted => ~HasHolder(i)
  BY <1>1, <1>2 DEF Apart
<1>5. Apart(i)'
  <2>1. ASSUME NEW c \in Buyers, Live(i, c)'
        PROVE  Parted(i)'
    <3>1. b \notin Vaulted
      BY <1>1, <1>4, <2>1 DEF Live, HasHolder
    <3> QED
      BY <1>1, <1>3, <3>1 DEF Parted
  <2>2. ASSUME NEW c \in Buyers, trade'[i][c].state = "paying"
        PROVE  /\ \A d \in Buyers : trade'[i][d].state = "paying" => d = c
               /\ c \in Vaulted => invoice'[i] = "sold" /\ ~HasHolder(i)'
               /\ c \notin Vaulted => invoice'[i] = "listed"
    BY <1>1, <1>2, <2>2 DEF Apart, HasHolder, Live
  <2> QED
    BY <2>1, <2>2 DEF Apart
<1> QED
  BY <1>1, <1>3, <1>4, <1>5, SaleKeeps

LEMMA RecordSaleKeeps ==
    ASSUME MaturityInv, NEW i \in Invoices, NEW b \in Buyers, RecordSale(i, b)
    PROVE  MaturityInv'
<1>1. /\ Quiet /\ Rests /\ trade[i][b].state = "paying" /\ owner[i] = b
      /\ owner' = owner
      /\ \/ /\ b \in Vaulted
            /\ trade' = [trade EXCEPT ![i][b].state = "settled"]
            /\ invoice' = invoice /\ capital' = capital
         \/ /\ b \notin Vaulted
            /\ invoice' = [invoice EXCEPT ![i] = "sold"]
            /\ HandOver(i, b, "settled")
  BY DEF RecordSale
<1>2. TypeOK /\ Apart(i)
  BY DEF MaturityInv, SalesApart
<1>3. /\ \A c \in Buyers : trade[i][c].state = "paying" => c = b
      /\ b \in Vaulted => invoice[i] = "sold" /\ ~HasHolder(i)
      /\ b \notin Vaulted => invoice[i] = "listed"
  BY <1>1, <1>2 DEF Apart
<1>4. /\ trade' \in [Invoices -> [Buyers -> Trade]]
      /\ capital' \in [Buyers -> CapitalRow]
      /\ \A j \in Invoices : j # i => trade'[j] = trade[j]
      /\ trade'[i][b].state = "settled"
      /\ \A c \in Buyers : c # b =>
             trade'[i][c].state = trade[i][c].state /\ ~Live(i, c)'
  <2>1. CASE b \in Vaulted
    <3>1. trade' = [trade EXCEPT ![i][b].state = "settled"] /\ capital' = capital
      BY <1>1, <2>1
    <3>2. \A c \in Buyers : ~Live(i, c)
      BY <1>3, <2>1 DEF HasHolder
    <3>3. capital' \in [Buyers -> CapitalRow]
      BY <1>2, <3>1 DEF TypeOK, CapitalRow
    <3>4. /\ trade' \in [Invoices -> [Buyers -> Trade]]
          /\ \A j \in Invoices : j # i => trade'[j] = trade[j]
          /\ trade'[i][b].state = "settled"
          /\ \A c \in Buyers : c # b => trade'[i][c] = trade[i][c]
      BY <1>2, <3>1, TradeMoved
    <3> QED
      BY <3>2, <3>3, <3>4 DEF Live
  <2>2. CASE b \notin Vaulted
    BY <1>1, <2>2, HandedOver
  <2> QED
    BY <2>1, <2>2
<1>5. SaleTyped /\ Elsewhere(i) /\ invoice[i] \in {"sold", "listed"} /\ invoice'[i] = "sold"
  BY <1>1, <1>2, <1>3, <1>4 DEF SaleTyped, Elsewhere, TypeOK, InvoiceStatus
<1>6. Apart(i)'
  <2>1. \A c \in Buyers : trade'[i][c].state # "paying"
    BY <1>3, <1>4
  <2>2. \A c \in Buyers : Live(i, c)' => owner'[i] = c
    BY <1>1, <1>4
  <2> QED
    BY <2>1, <2>2 DEF Apart
<1> QED
  BY <1>1, <1>5, <1>6, SaleKeeps

LEMMA FailSaleKeeps ==
    ASSUME MaturityInv, NEW i \in Invoices, NEW b \in Buyers, FailSale(i, b)
    PROVE  MaturityInv'
<1>1. /\ Quiet /\ Rests /\ trade[i][b].state = "paying"
      /\ trade' = [trade EXCEPT ![i][b].state = "failed"]
      /\ invoice' = invoice /\ capital' = capital /\ owner' = owner
  BY DEF FailSale
<1>2. TypeOK /\ Apart(i) /\ owner[i] \in Buyers
  BY DEF MaturityInv, SalesApart, TypeOK
<1>3. /\ trade' \in [Invoices -> [Buyers -> Trade]]
      /\ \A j \in Invoices : j # i => trade'[j] = trade[j]
      /\ \A c \in Buyers : c # b => trade'[i][c] = trade[i][c]
      /\ trade'[i][b].state = "failed"
  BY <1>1, <1>2, TradeMoved
<1>4. SaleTyped /\ Elsewhere(i)
  <2>1. capital' \in [Buyers -> CapitalRow]
    BY <1>1, <1>2 DEF TypeOK, CapitalRow
  <2> QED
    BY <1>1, <1>2, <1>3, <2>1 DEF SaleTyped, Elsewhere, TypeOK
<1>5. invoice[i] \in {"sold", "listed"}
  BY <1>1, <1>2 DEF Apart
<1>6. Apart(i)'
  <2>1. \A c \in Buyers : trade'[i][c].state # "paying"
    BY <1>1, <1>2, <1>3 DEF Apart
  <2>2. ASSUME NEW c \in Buyers, Live(i, c)'
        PROVE  owner'[i] = c \/ Parted(i)'
    <3>1. c # b /\ Live(i, c)
      BY <1>3, <2>2 DEF Live
    <3>2. owner[i] = c \/ Parted(i)
      BY <1>2, <3>1 DEF Apart
    <3>3. CASE owner[i] = b
      BY <1>1, <1>3, <3>1, <3>2, <3>3 DEF Parted
    <3>4. CASE owner[i] # b
      <4>1. trade'[i][owner[i]] = trade[i][owner[i]]
        BY <1>2, <1>3, <3>4
      <4> QED
        BY <1>1, <3>2, <4>1 DEF Parted
    <3> QED
      BY <3>3, <3>4
  <2> QED
    BY <2>1, <2>2 DEF Apart
<1> QED
  BY <1>1, <1>4, <1>5, <1>6, SaleKeeps

-----------------------------------------------------------------------------
(* The store writes.                                                        *)

(* Popping the queue keeps what follows in it, unless a receivable closed.  *)
LEMMA PopKeeps ==
    ASSUME MaturityInv, todo # <<>>, todo' = Tail(todo), job' = job,
           UNCHANGED <<owner, schedule>>,
           \A i \in Invoices : \/ invoice'[i] = invoice[i]
                              \/ todo[1].op \in {"matured", "defaulted"},
           \A i \in Invoices, b \in Buyers : Live(i, b) => Live(i, b)',
           \A i \in Invoices : ledger[i] # "none" => ledger'[i] = ledger[i],
           todo[1].op = "outcome" =>
               ledger'[todo[1].invoice] = IF ledger[todo[1].invoice] = "none"
                                          THEN todo[1].outcome
                                          ELSE ledger[todo[1].invoice]
    PROVE  WritesFollow'
<1>1. /\ Len(todo) \in Nat \ {0} /\ Len(todo') = Len(todo) - 1
      /\ \A k \in 1..Len(todo) : todo[k] \in Write
      /\ \A k \in 1..Len(todo') : k + 1 \in 1..Len(todo) /\ todo'[k] = todo[k + 1]
  BY QueueTail DEF MaturityInv
<1> SUFFICES ASSUME NEW k \in 1..Len(todo') PROVE Follows(k)'
  BY DEF WritesFollow
<1> PICK w : w = todo[k + 1]
  OBVIOUS
<1>2. /\ w = todo'[k] /\ w \in Write /\ k + 1 \in 1..Len(todo)
      /\ k \in Nat \ {0} /\ Len(todo') \in Nat
      /\ w.invoice \in Invoices /\ w.holder \in Buyers
  BY <1>1 DEF Write
<1>3. Follows(k + 1) /\ Follows(1) /\ 1 \in 1..Len(todo)
  BY <1>1, <1>2 DEF MaturityInv, WritesFollow
<1>4. w.op # "outcome"
  BY <1>2, <1>3 DEF Follows
<1>5. w.op = "release" => /\ k < Len(todo') /\ todo'[k + 1].op = "matured"
                          /\ todo'[k + 1].invoice = w.invoice
  <2> SUFFICES ASSUME w.op = "release" 
               PROVE  /\ k < Len(todo') /\ todo'[k + 1].op = "matured"
                      /\ todo'[k + 1].invoice = w.invoice
    OBVIOUS
  <2>1. k + 1 < Len(todo) /\ todo[k + 2].op = "matured"
        /\ todo[k + 2].invoice = w.invoice
    BY <1>2, <1>3 DEF Follows
  <2>2. k + 1 \in 1..Len(todo') /\ (k + 1) + 1 = k + 2
    BY <1>1, <1>2, <2>1
  <2>3. todo'[k + 1] = todo[k + 2]
    BY <1>1, <2>2
  <2> QED
    BY <1>1, <1>2, <2>1, <2>3
<1>6. 1 \in 1..Len(todo') /\ todo'[1] = todo[2] /\ todo'[1].op # "outcome"
  <2>1. 1 \in 1..Len(todo') /\ todo'[1] = todo[2] /\ 2 \in 1..Len(todo)
    BY <1>1, <1>2
  <2>2. Follows(2)
    BY <2>1 DEF MaturityInv, WritesFollow
  <2> QED
    BY <2>1, <2>2 DEF Follows
<1>7. ASSUME w.op \in {"matured", "defaulted"}
      PROVE  /\ k = Len(todo')
             /\ invoice'[w.invoice] = "sold" /\ Live(w.invoice, w.holder)'
  <2>1. k + 1 = Len(todo) /\ invoice[w.invoice] = "sold" /\ Live(w.invoice, w.holder)
    <3>1. w = todo[k + 1] /\ Follows(k + 1)
      BY <1>3

    <3> QED
      BY <1>7, <3>1 DEF Follows
  <2>2. todo[1].op \notin {"matured", "defaulted"}
    <3>1. todo[1].op \in {"matured", "defaulted"} => 1 = Len(todo)
      BY <1>3 DEF Follows
    <3> QED
      BY <1>2, <2>1, <3>1
  <2>3. invoice'[w.invoice] = invoice[w.invoice]
    BY <1>2, <2>2
  <2>4. Live(w.invoice, w.holder)'
    BY <1>2, <2>1
  <2>5. k = Len(todo')
    <3>1. k + 1 = Len(todo) /\ Len(todo') = Len(todo) - 1 /\ k \in Nat
      BY <1>1, <1>2, <2>1
    <3> QED
      BY <3>1
  <2>6. invoice'[w.invoice] = "sold"
    BY <2>1, <2>3
  <2> QED
    BY <2>4, <2>5, <2>6
<1>8. ASSUME NEW outcomes, outcomes \subseteq Outcomes, Backed(w, outcomes)
      PROVE  ledger'[w.invoice] \in outcomes
  <2>1. "none" \notin outcomes
    BY <1>8 DEF Outcomes, Paid
  <2>2. CASE todo[1].op = "outcome"
    <3>1. todo[1].invoice = w.invoice /\ todo[1].outcome \in outcomes
          /\ ledger[w.invoice] \in outcomes \cup {"none"}
      BY <1>8, <2>2 DEF Backed
    <3> QED
      BY <1>2, <2>2, <3>1
  <2>3. CASE todo[1].op # "outcome"
    <3>1. ledger[w.invoice] \in outcomes
      BY <1>8, <2>3 DEF Backed
    <3> QED
      BY <1>2, <2>1, <3>1
  <2> QED
    BY <2>2, <2>3
<1>9. /\ w.op = "matured" => ledger'[w.invoice] \in Paid
      /\ w.op = "defaulted" => ledger'[w.invoice] \in {"default"}
  BY <1>3, <1>8 DEF Follows, Outcomes
<1>10. w = todo'[k]
  BY <1>2

<1> QED
  BY <1>10, <1>4, <1>5, <1>6, <1>7, <1>9 DEF Follows, Backed

LEMMA PopJobs ==
    ASSUME MaturityInv, todo # <<>>, todo' = Tail(todo), job' = job,
           \A i \in Invoices : \/ invoice'[i] = invoice[i]
                              \/ /\ todo[1].op \in {"matured", "defaulted"}
                                 /\ todo[1].invoice = i,
           todo[1].op = "matured" => invoice'[todo[1].invoice] = "matured",
           \A i \in Invoices, b \in Buyers : Live(i, b) => Live(i, b)'
    PROVE  JobsFollow'
<1>1. /\ Len(todo) \in Nat \ {0} /\ Len(todo') = Len(todo) - 1
      /\ \A k \in 1..Len(todo) : todo[k] \in Write
      /\ \A k \in 1..Len(todo') : k + 1 \in 1..Len(todo) /\ todo'[k] = todo[k + 1]
  BY QueueTail DEF MaturityInv
<1> SUFFICES ASSUME NEW r \in Requests, job[r].pc # "idle"
             PROVE  /\ job[r].invoice \in Invoices /\ job[r].holder \in Buyers
                    /\ Live(job[r].invoice, job[r].holder)'
                    /\ Matures(job[r].invoice)'
  BY DEF JobsFollow, Live, Matures
<1>2. PICK i \in Invoices, b \in Buyers :
          i = job[r].invoice /\ b = job[r].holder /\ Live(i, b) /\ Matures(i)
  BY DEF MaturityInv, JobsFollow
<1>3. Live(i, b)'
  BY <1>2
<1>4. Matures(i)'
  <2>1. Follows(1)
    BY <1>1 DEF MaturityInv, WritesFollow
  <2>2. CASE invoice[i] = "matured"
    <3>1. todo[1].op \in {"matured", "defaulted"} => invoice[todo[1].invoice] = "sold"
      BY <2>1 DEF Follows
    <3>2. invoice'[i] = "matured"
      BY <2>2, <3>1
    <3> QED
      BY <3>2 DEF Matures
  <2>3. CASE \E k \in 1..Len(todo) : todo[k].op = "matured" /\ todo[k].invoice = i
    <3>1. PICK k \in 1..Len(todo) : todo[k].op = "matured" /\ todo[k].invoice = i
      BY <2>3
    <3>2. CASE k = 1
      <4>1. invoice'[i] = "matured"
        BY <3>1, <3>2
      <4> QED
        BY <4>1 DEF Matures
    <3>3. CASE k # 1
      <4>1. k - 1 \in 1..Len(todo') /\ (k - 1) + 1 = k
        BY <1>1, <3>3
      <4>2. todo'[k - 1] = todo[k]
        BY <1>1, <4>1
      <4> QED
        BY <3>1, <4>1, <4>2 DEF Matures
    <3> QED
      BY <3>2, <3>3
  <2> QED
    BY <1>2, <2>2, <2>3 DEF Matures
<1>5. job'[r].invoice = i /\ job'[r].holder = b
  BY <1>2
<1> QED
  BY <1>2, <1>3, <1>4, <1>5 DEF Live, Matures

(* A write that is about to be made.                                        *)
Writing(w) ==
    /\ MaturityInv
    /\ todo # <<>> /\ w = todo[1] /\ todo' = Tail(todo)
    /\ UNCHANGED <<chain, job, today, crashes>>

LEMMA WritingFacts ==
    ASSUME NEW w, Writing(w)
    PROVE  /\ w \in Write /\ w.invoice \in Invoices /\ w.holder \in Buyers
           /\ w.outcome \in Outcomes /\ w.schedule \in Schedules \cup {NoSchedule}
           /\ Follows(1) /\ todo' \in Seq(Write)
           /\ TypeOK /\ UNCHANGED <<owner, schedule, job, today, crashes>>
<1>1. TypeOK
  BY DEF Writing, MaturityInv
<1>2. /\ todo[1] \in Write /\ 1 \in 1..Len(todo) /\ todo' \in Seq(Write)
  BY <1>1, QueueTail DEF Writing
<1>3. Follows(1)
  BY <1>2 DEF Writing, MaturityInv, WritesFollow
<1> QED
  BY <1>1, <1>2, <1>3 DEF Writing, Write, chain

(* The rows a write leaves alone keep what they had.                        *)
LEMMA SameSales ==
    ASSUME SalesApart, UNCHANGED <<invoice, trade, owner>> PROVE SalesApart'
BY DEF SalesApart, Apart, Parted, Live, HasHolder

LEMMA SamePayouts ==
    ASSUME SchedulesNamed, PaysTheOwner, UNCHANGED <<invoice, trade, owner, schedule>>
    PROVE  SchedulesNamed' /\ PaysTheOwner'
BY DEF SchedulesNamed, PaysTheOwner, SoldUnheard, Live

LEMMA OutcomeKeeps ==
    ASSUME NEW w, Writing(w), WriteOutcome(w) PROVE MaturityInv'
<1>1. /\ w \in Write /\ w.invoice \in Invoices /\ w.outcome \in Outcomes
      /\ todo' \in Seq(Write) /\ TypeOK /\ Follows(1)
      /\ UNCHANGED <<owner, schedule, job, today, crashes>>
  BY WritingFacts
<1>2. /\ w.op = "outcome" /\ UNCHANGED <<invoice, trade, rating, capital, returned>>
      /\ IF ledger[w.invoice] # "none" THEN UNCHANGED <<ledger, record>>
         ELSE /\ ledger' = [ledger EXCEPT ![w.invoice] = w.outcome]
              /\ record' = Accumulate(record, w.outcome)
  BY DEF WriteOutcome
<1>3. ledger' \in [Invoices -> Outcomes \cup {"none"}]
      /\ \A i \in Invoices : ledger[i] # "none" => ledger'[i] = ledger[i]
      /\ ledger'[w.invoice] = IF ledger[w.invoice] = "none" THEN w.outcome
                              ELSE ledger[w.invoice]
  BY <1>1, <1>2 DEF TypeOK
<1>4. record' \in [Outcomes -> Nat]
  <2>1. record \in [Outcomes -> Nat] /\ record[w.outcome] + 1 \in Nat
    BY <1>1 DEF TypeOK
  <2>2. \/ record' = record
        \/ record' = [record EXCEPT ![w.outcome] = record[w.outcome] + 1]
    BY <1>2 DEF Accumulate
  <2> QED
    BY <2>1, <2>2
<1>5. TypeOK'
  BY <1>1, <1>2, <1>3, <1>4 DEF TypeOK
<1>6. \A i \in Invoices, b \in Buyers : Live(i, b) => Live(i, b)'
  BY <1>2 DEF Live
<1>7. WritesFollow'
  BY <1>1, <1>2, <1>3, <1>6, PopKeeps DEF Writing
<1>8. JobsFollow'
  BY <1>1, <1>2, <1>6, PopJobs DEF Writing
<1>9. StatusFollowsLedger' /\ ReturnedIsPaid'
  BY <1>2, <1>3 DEF Writing, MaturityInv, StatusFollowsLedger, ReturnedIsPaid, Paid
<1>10. SalesApart' /\ SchedulesNamed' /\ PaysTheOwner'
  BY <1>1, <1>2, SameSales, SamePayouts DEF Writing, MaturityInv
<1> QED
  BY <1>5, <1>7, <1>8, <1>9, <1>10 DEF MaturityInv

LEMMA RatingKeeps ==
    ASSUME NEW w, Writing(w), WriteRating(w) PROVE MaturityInv'
<1>1. /\ w \in Write /\ todo' \in Seq(Write) /\ TypeOK
      /\ UNCHANGED <<owner, schedule, job, today, crashes>>
  BY WritingFacts
<1>2. /\ w.op = "rating" /\ rating' \in Grades
      /\ UNCHANGED <<invoice, trade, ledger, record, capital, returned>>
  BY DEF WriteRating, Assess, Grades
<1>3. TypeOK'
  BY <1>1, <1>2 DEF TypeOK
<1>4. \A i \in Invoices, b \in Buyers : Live(i, b) => Live(i, b)'
  BY <1>2 DEF Live
<1>5. WritesFollow'
  BY <1>1, <1>2, <1>4, PopKeeps DEF Writing
<1>6. JobsFollow'
  BY <1>1, <1>2, <1>4, PopJobs DEF Writing
<1>7. StatusFollowsLedger' /\ ReturnedIsPaid'
  BY <1>2 DEF Writing, MaturityInv, StatusFollowsLedger, ReturnedIsPaid
<1>8. SalesApart' /\ SchedulesNamed' /\ PaysTheOwner'
  BY <1>1, <1>2, SameSales, SamePayouts DEF Writing, MaturityInv
<1> QED
  BY <1>3, <1>5, <1>6, <1>7, <1>8 DEF MaturityInv

LEMMA ReleaseKeeps ==
    ASSUME NEW w, Writing(w), WriteRelease(w) PROVE MaturityInv'
<1>1. /\ w \in Write /\ w.invoice \in Invoices /\ w.holder \in Buyers
      /\ todo' \in Seq(Write) /\ TypeOK /\ Follows(1)
      /\ UNCHANGED <<owner, schedule, job, today, crashes>>
  BY WritingFacts
<1>2. /\ w.op = "release" /\ UNCHANGED <<invoice, trade, ledger, record, rating>>
      /\ capital' = [capital EXCEPT ![w.holder] = GiveBack(w.holder)]
      /\ returned' = [returned EXCEPT ![w.invoice][w.holder] = @ + 1]
  BY DEF WriteRelease
<1>3. returned' \in [Invoices -> [Buyers -> Nat]]
      /\ \A i \in Invoices, b \in Buyers :
             i # w.invoice => returned'[i][b] = returned[i][b]
  <2> DEFINE x == [returned[w.invoice] EXCEPT ![w.holder] = returned[w.invoice][w.holder] + 1]
  <2>1. x \in [Buyers -> Nat]
    <3>1. /\ returned[w.invoice] \in [Buyers -> Nat]
          /\ returned[w.invoice][w.holder] + 1 \in Nat
      <4>1. returned \in [Invoices -> [Buyers -> Nat]]
        BY <1>1 DEF TypeOK
      <4>2. returned[w.invoice][w.holder] \in Nat
        BY <1>1, <4>1
      <4> QED
        BY <1>1, <4>1, <4>2
    <3> QED
      BY <3>1
  <2>2. returned' = [returned EXCEPT ![w.invoice] = x]
    BY <1>2
  <2> HIDE DEF x
  <2> QED
    BY <1>1, <2>1, <2>2 DEF TypeOK
<1>4. capital' \in [Buyers -> [funded : Nat, allocated : Nat]]
  BY <1>1, <1>2, CapitalTyped DEF TypeOK, CapitalRow
<1>5. TypeOK'
  BY <1>1, <1>2, <1>3, <1>4 DEF TypeOK
<1>6. ledger[w.invoice] \in Paid
  <2>1. 1 < Len(todo) /\ todo[2].op = "matured" /\ todo[2].invoice = w.invoice
    BY <1>1, <1>2 DEF Follows, Writing
  <2>2. Follows(2)
    BY <1>1, <2>1 DEF Writing, MaturityInv, WritesFollow, TypeOK
  <2>3. Backed(todo[2], Paid)
    BY <2>1, <2>2 DEF Follows
  <2> QED
    BY <1>2, <2>1, <2>3 DEF Backed, Writing
<1>7. \A i \in Invoices, b \in Buyers : Live(i, b) => Live(i, b)'
  BY <1>2 DEF Live
<1>8. WritesFollow'
  BY <1>1, <1>2, <1>7, PopKeeps DEF Writing
<1>9. JobsFollow'
  BY <1>1, <1>2, <1>7, PopJobs DEF Writing
<1>10. StatusFollowsLedger' /\ ReturnedIsPaid'
  BY <1>2, <1>3, <1>6 DEF Writing, MaturityInv, StatusFollowsLedger, ReturnedIsPaid
<1>11. SalesApart' /\ SchedulesNamed' /\ PaysTheOwner'
  BY <1>1, <1>2, SameSales, SamePayouts DEF Writing, MaturityInv
<1> QED
  BY <1>5, <1>8, <1>9, <1>10, <1>11 DEF MaturityInv

LEMMA StatusKeeps ==
    ASSUME NEW w, Writing(w), WriteStatus(w) PROVE MaturityInv'
<1>1. /\ w \in Write /\ w.invoice \in Invoices /\ w.holder \in Buyers
      /\ todo' \in Seq(Write) /\ TypeOK /\ Follows(1) /\ w = todo[1]
      /\ UNCHANGED <<owner, schedule, job, today, crashes>>
  BY WritingFacts DEF Writing
<1>2. /\ w.op \in {"matured", "defaulted"}
      /\ UNCHANGED <<trade, ledger, record, rating, capital, returned>>
      /\ invoice' = [invoice EXCEPT ![w.invoice] = w.op]
  BY DEF WriteStatus
<1>3. /\ invoice' \in [Invoices -> InvoiceStatus]
      /\ invoice'[w.invoice] = w.op
      /\ \A i \in Invoices : i # w.invoice => invoice'[i] = invoice[i]
  BY <1>1, <1>2 DEF TypeOK, InvoiceStatus
<1>4. TypeOK'
  BY <1>1, <1>2, <1>3 DEF TypeOK
<1>5. invoice[w.invoice] = "sold" /\ Live(w.invoice, w.holder)
  BY <1>1, <1>2 DEF Follows
<1>6. /\ w.op = "matured" => ledger[w.invoice] \in Paid
      /\ w.op = "defaulted" => ledger[w.invoice] = "default"
  BY <1>1, <1>2 DEF Follows, Backed
<1>7. \A i \in Invoices, b \in Buyers : Live(i, b) => Live(i, b)'
  BY <1>2 DEF Live
<1>8. WritesFollow'
  BY <1>1, <1>2, <1>7, PopKeeps DEF Writing
<1>9. JobsFollow'
  BY <1>1, <1>2, <1>3, <1>7, PopJobs DEF Writing
<1>10. StatusFollowsLedger' /\ ReturnedIsPaid'
  BY <1>2, <1>3, <1>6 DEF Writing, MaturityInv, StatusFollowsLedger, ReturnedIsPaid
<1>11. SalesApart'
  <2> SUFFICES ASSUME NEW i \in Invoices PROVE Apart(i)'
    BY DEF SalesApart
  <2>1. Apart(i)
    BY DEF Writing, MaturityInv, SalesApart
  <2>2. i = w.invoice => ~InSale(i)
    BY <1>1, <1>5, <2>1 DEF Apart, InSale, HasHolder
  <2> QED
    BY <1>1, <1>2, <1>3, <2>1, <2>2 DEF Apart, Parted, Live, HasHolder, InSale
<1>12. SchedulesNamed' /\ PaysTheOwner'
  BY <1>1, <1>2, <1>3, <1>5
  DEF Writing, MaturityInv, SchedulesNamed, PaysTheOwner, SoldUnheard, Live
<1> QED
  BY <1>4, <1>8, <1>9, <1>10, <1>11, <1>12 DEF MaturityInv

LEMMA ScheduledKeeps ==
    ASSUME NEW w, Writing(w), WriteScheduled(w) PROVE MaturityInv'
<1>1. /\ w \in Write /\ w.invoice \in Invoices /\ w.holder \in Buyers
      /\ w.schedule \in Schedules \cup {NoSchedule}
      /\ todo' \in Seq(Write) /\ TypeOK /\ w = todo[1]
      /\ UNCHANGED <<owner, schedule, job, today, crashes>>
  BY WritingFacts DEF Writing
<1>2. /\ w.op = "scheduled"
      /\ trade' = [trade EXCEPT ![w.invoice][w.holder].schedule = w.schedule]
      /\ UNCHANGED <<invoice, ledger, record, rating, capital, returned>>
  BY DEF WriteScheduled
<1>3. /\ trade' \in [Invoices -> [Buyers -> Trade]]
      /\ \A i \in Invoices, b \in Buyers :
             /\ trade'[i][b].state = trade[i][b].state
             /\ trade'[i][b].superseded = trade[i][b].superseded
  <2> DEFINE old == trade[w.invoice][w.holder]
             x == [old EXCEPT !.schedule = w.schedule]
  <2>1. x \in Trade /\ x.state = old.state /\ x.superseded = old.superseded
    <3>1. old \in Trade
      BY <1>1 DEF TypeOK
    <3> HIDE DEF old
    <3> QED
      BY <1>1, <3>1 DEF Trade
  <2>2. trade' = [trade EXCEPT ![w.invoice] = [trade[w.invoice] EXCEPT ![w.holder] = x]]
    BY <1>2
  <2>3. trade \in [Invoices -> [Buyers -> Trade]]
    BY <1>1 DEF TypeOK
  <2> HIDE DEF x
  <2> QED
    BY <1>1, <2>1, <2>2, <2>3
<1>4. TypeOK'
  BY <1>1, <1>2, <1>3 DEF TypeOK
<1>5. \A i \in Invoices, b \in Buyers : Live(i, b)' <=> Live(i, b)
  BY <1>3 DEF Live
<1>6. WritesFollow'
  BY <1>1, <1>2, <1>5, PopKeeps DEF Writing
<1>7. JobsFollow'
  BY <1>1, <1>2, <1>5, PopJobs DEF Writing
<1>8. StatusFollowsLedger' /\ ReturnedIsPaid'
  BY <1>2 DEF Writing, MaturityInv, StatusFollowsLedger, ReturnedIsPaid
<1>9. SalesApart'
  <2> SUFFICES ASSUME NEW i \in Invoices PROVE Apart(i)'
    BY DEF SalesApart
  <2>1. Apart(i) /\ (HasHolder(i)' <=> HasHolder(i))
    <3>1. Apart(i)
      BY DEF Writing, MaturityInv, SalesApart
    <3>2. HasHolder(i)' <=> HasHolder(i)
      BY <1>5 DEF HasHolder
    <3> QED
      BY <3>1, <3>2
  <2>2. /\ UNCHANGED <<invoice, owner>>
        /\ \A b \in Buyers : trade'[i][b].state = trade[i][b].state
        /\ \A b \in Buyers : Live(i, b)' <=> Live(i, b)
        /\ Parted(i)' <=> Parted(i)
    <3>1. owner[i] \in Buyers
      BY <1>1 DEF TypeOK
    <3>2. trade'[i][owner[i]].state = trade[i][owner[i]].state
      BY <1>3, <3>1
    <3>3. UNCHANGED <<invoice, owner>>
      BY <1>1, <1>2
    <3>4. Parted(i)' <=> Parted(i)
      BY <3>2, <3>3 DEF Parted
    <3> QED
      BY <1>3, <1>5, <3>3, <3>4
  <2> QED
    BY ONLY <2>1, <2>2 DEF Apart
<1>10. SchedulesNamed' /\ PaysTheOwner'
  <2>1. SchedulesNamed /\ PaysTheOwner /\ owner \in [Invoices -> Buyers]
    BY <1>1 DEF Writing, MaturityInv, TypeOK
  <2>2. SchedulesNamed'
    BY <1>1, <2>1 DEF SchedulesNamed
  <2>3. PaysTheOwner'
    <3> SUFFICES ASSUME NEW s \in Schedules, schedule[s].state # "none"
                 PROVE  /\ invoice[schedule[s].invoice] = "matured"
                        /\ Live(schedule[s].invoice, schedule[s].payee)'
                        /\ \/ schedule[s].payee = owner[schedule[s].invoice]
                           \/ SoldUnheard(schedule[s].invoice)'
      BY <1>1, <1>2 DEF PaysTheOwner, Live, SoldUnheard
    <3>1. PICK i \in Invoices, b \in Buyers :
              i = schedule[s].invoice /\ b = schedule[s].payee
      BY <2>1 DEF SchedulesNamed
    <3>2. /\ invoice[i] = "matured" /\ Live(i, b)
          /\ b = owner[i] \/ SoldUnheard(i)
      BY <2>1, <3>1 DEF PaysTheOwner
    <3>3. owner[i] \in Buyers
      BY <2>1
    <3> QED
      BY <1>1, <1>3, <3>1, <3>2, <3>3 DEF Live, SoldUnheard
  <2> QED
    BY <2>2, <2>3
<1> QED
  BY <1>4, <1>6, <1>7, <1>8, <1>9, <1>10 DEF MaturityInv

LEMMA StoreWriteKeeps == MaturityInv /\ StoreWrite => MaturityInv'
<1> SUFFICES ASSUME MaturityInv, StoreWrite PROVE MaturityInv'
  OBVIOUS
<1>1. PICK w : w = todo[1]
  OBVIOUS
<1>2. Head(todo) = w /\ Writing(w)
  BY <1>1, QueueTail DEF StoreWrite, Writing, MaturityInv
<1>3. \/ WriteOutcome(w) \/ WriteRating(w) \/ WriteRelease(w)
      \/ WriteStatus(w) \/ WriteScheduled(w)
  BY <1>2 DEF StoreWrite
<1> QED
  BY <1>2, <1>3, OutcomeKeeps, RatingKeeps, ReleaseKeeps, StatusKeeps, ScheduledKeeps

-----------------------------------------------------------------------------
(* The two routes and the payout.                                           *)

LEMMA RowsKept ==
    ASSUME MaturityInv, UNCHANGED <<rows, owner, schedule, returned>>,
           TypeOK', WritesFollow', JobsFollow'
    PROVE  MaturityInv'
<1>1. UNCHANGED <<invoice, trade, ledger, owner, schedule, returned>>
  BY DEF rows
<1>2. StatusFollowsLedger' /\ ReturnedIsPaid'
  BY <1>1 DEF MaturityInv, StatusFollowsLedger, ReturnedIsPaid
<1>3. SalesApart' /\ SchedulesNamed' /\ PaysTheOwner'
  BY <1>1, SameSales, SamePayouts DEF MaturityInv
<1> QED
  BY <1>2, <1>3 DEF MaturityInv

LEMMA WritesMade ==
    ASSUME NEW ops \in Seq(WriteOps), NEW i \in Invoices, NEW b \in Buyers,
           NEW outcome \in Outcomes, NEW s \in Schedules \cup {NoSchedule}
    PROVE  /\ Writes(ops, i, b, outcome, s) \in Seq(Write)
           /\ Len(Writes(ops, i, b, outcome, s)) = Len(ops)
           /\ \A k \in 1..Len(ops) :
                  /\ Writes(ops, i, b, outcome, s)[k].op = ops[k]
                  /\ Writes(ops, i, b, outcome, s)[k].invoice = i
                  /\ Writes(ops, i, b, outcome, s)[k].holder = b
                  /\ Writes(ops, i, b, outcome, s)[k].outcome = outcome
<1> DEFINE run == Writes(ops, i, b, outcome, s)
           at(k) == [op |-> ops[k], invoice |-> i, holder |-> b,
                     outcome |-> outcome, schedule |-> s]
<1>1. run = [k \in 1..Len(ops) |-> at(k)]
  BY DEF Writes
<1>2. ASSUME NEW k \in 1..Len(ops)
      PROVE  /\ at(k) \in Write /\ at(k).op = ops[k] /\ at(k).invoice = i
             /\ at(k).holder = b /\ at(k).outcome = outcome
  <2>1. ops[k] \in WriteOps
    OBVIOUS
  <2> QED
    BY <2>1 DEF Write
<1>3. Len(ops) \in Nat
  OBVIOUS
<1> HIDE DEF at, run
<1>4. run \in Seq(Write) /\ Len(run) = Len(ops)
      /\ \A k \in 1..Len(ops) : run[k] = at(k)
  BY <1>1, <1>2, <1>3
<1> QED
  BY <1>2, <1>4 DEF run

(* What the runs of either route look like: the outcome comes first, capital *)
(* is given back only just before a maturity, and a status comes last.      *)
Ordered(ops, i, last) ==
    /\ ops \in Seq(WriteOps) /\ Len(ops) > 0
    /\ \A k \in 1..Len(ops) :
           /\ ops[k] = "outcome" <=> k = 1
           /\ ops[k] = "release" => k < Len(ops) /\ ops[k + 1] = "matured"
           /\ ops[k] \in {"matured", "defaulted"} =>
                  k = Len(ops) /\ ops[k] = last /\ invoice[i] = "sold"
    /\ invoice[i] = "sold" => ops[Len(ops)] = last

LEMMA Tuples ==
    ASSUME NEW S, NEW a \in S, NEW b \in S
    PROVE  /\ <<a>> \in Seq(S) /\ Len(<<a>>) = 1 /\ <<a>>[1] = a
           /\ <<a, b>> \in Seq(S) /\ Len(<<a, b>>) = 2
           /\ <<a, b>>[1] = a /\ <<a, b>>[2] = b
OBVIOUS

(* A run and what follows it, entry by entry.                               *)
Joins(s, t, u) ==
    /\ Len(u) = Len(s) + Len(t)
    /\ u[1] = s[1]
    /\ Len(s) = 2 => u[2] = s[2]
    /\ Len(t) > 0 => u[Len(s) + 1] = t[1]
    /\ Len(t) = 2 => u[Len(s) + 2] = t[2]
Short(s) == s \in Seq(WriteOps) /\ Len(s) \in {0, 1, 2}

LEMMA Joined ==
    ASSUME NEW s, NEW t, Short(s), Short(t), Len(s) # 0
    PROVE  s \o t \in Seq(WriteOps) /\ Joins(s, t, s \o t)
<1> PICK u : u = s \o t
  OBVIOUS
<1>1. /\ u \in Seq(WriteOps) /\ Len(u) = Len(s) + Len(t)
      /\ \A k \in 1..Len(s) + Len(t) :
             u[k] = IF k <= Len(s) THEN s[k] ELSE t[k - Len(s)]
  BY ConcatProperties DEF Short
<1>2. u[1] = s[1]
  BY <1>1 DEF Short
<1>3. Len(s) = 2 => u[2] = s[2]
  BY <1>1 DEF Short
<1>4. Len(t) > 0 => u[Len(s) + 1] = t[1]
  BY <1>1 DEF Short
<1>5. Len(t) = 2 => u[Len(s) + 2] = t[2]
  BY <1>1 DEF Short
<1> QED
  BY <1>1, <1>2, <1>3, <1>4, <1>5 DEF Joins

(* A recording, and nothing or the status it brings.                        *)
LEMMA RunOrdered ==
    ASSUME NEW i \in Invoices, NEW outcome, NEW closing, NEW last \in {"matured", "defaulted"},
           \/ closing = <<>> /\ invoice[i] # "sold"
           \/ closing = <<"defaulted">> /\ last = "defaulted" /\ invoice[i] = "sold"
           \/ closing = <<"release", "matured">> /\ last = "matured" /\ invoice[i] = "sold"
    PROVE  Ordered(Recording(i, outcome) \o closing, i, last)
<1> PICK s : s = Recording(i, outcome)
  OBVIOUS
<1>1. /\ s \in Seq(WriteOps) /\ Len(s) \in {1, 2} /\ s[1] = "outcome"
      /\ Len(s) = 2 => s[2] = "rating"
  <2>1. "outcome" \in WriteOps /\ "rating" \in WriteOps
    BY DEF WriteOps
  <2>2. s = <<"outcome">> \/ s = <<"outcome", "rating">>
    BY DEF Recording
  <2>3. CASE s = <<"outcome">>
    BY <2>1, <2>3, Tuples
  <2>4. CASE s = <<"outcome", "rating">>
    BY <2>1, <2>4, Tuples
  <2> QED
    BY <2>2, <2>3, <2>4
<1>2. /\ closing \in Seq(WriteOps)
      /\ \/ Len(closing) = 0 /\ invoice[i] # "sold"
         \/ /\ Len(closing) = 1 /\ closing[1] = "defaulted"
            /\ last = "defaulted" /\ invoice[i] = "sold"
         \/ /\ Len(closing) = 2 /\ closing[1] = "release" /\ closing[2] = "matured"
            /\ last = "matured" /\ invoice[i] = "sold"
  <2>1. "release" \in WriteOps /\ "matured" \in WriteOps /\ "defaulted" \in WriteOps
    BY DEF WriteOps
  <2>2. CASE closing = <<>> /\ invoice[i] # "sold"
    BY <2>2
  <2>3. CASE closing = <<"defaulted">> /\ last = "defaulted" /\ invoice[i] = "sold"
    BY <2>1, <2>3, Tuples
  <2>4. CASE closing = <<"release", "matured">> /\ last = "matured" /\ invoice[i] = "sold"
    BY <2>1, <2>4, Tuples
  <2> QED
    BY <2>2, <2>3, <2>4
<1> PICK ops : ops = s \o closing
  OBVIOUS
<1>3. /\ ops \in Seq(WriteOps) /\ Len(ops) = Len(s) + Len(closing)
      /\ ops[1] = "outcome"
      /\ Len(s) = 2 => ops[2] = "rating"
      /\ Len(closing) > 0 => ops[Len(s) + 1] = closing[1]
      /\ Len(closing) = 2 => ops[Len(s) + 2] = closing[2]
  <2>1. Short(s) /\ Short(closing) /\ Len(s) # 0
    BY <1>1, <1>2 DEF Short
  <2>2. ops \in Seq(WriteOps) /\ Joins(s, closing, ops)
    BY <2>1, Joined, Zenon
  <2> QED
    BY <1>1, <2>2 DEF Joins
<1>4. CASE Len(closing) = 0
  <2>1. Len(ops) = Len(s) /\ invoice[i] # "sold"
    BY <1>1, <1>2, <1>3, <1>4
  <2>2. ASSUME NEW k \in 1..Len(ops) PROVE k = 1 \/ (k = 2 /\ ops[k] = "rating")
    <3>1. CASE Len(s) = 1
      BY <2>1, <3>1
    <3>2. CASE Len(s) = 2
      BY <1>1, <1>3, <2>1, <3>2
    <3> QED
      BY <1>1, <3>1, <3>2
  <2>3. ASSUME NEW k \in 1..Len(ops)
        PROVE  /\ ops[k] = "outcome" <=> k = 1
               /\ ops[k] \notin {"release", "matured", "defaulted"}
    BY <1>3, <2>2
  <2>4. Len(ops) > 0
    BY <1>1, <2>1
  <2> QED
    BY <1>3, <2>1, <2>3, <2>4 DEF Ordered
<1>5. CASE Len(closing) = 1
  <2>1. /\ Len(ops) = Len(s) + 1 /\ invoice[i] = "sold" /\ last = "defaulted"
        /\ ops[Len(ops)] = "defaulted"
    BY <1>1, <1>2, <1>3, <1>5
  <2>2. ASSUME NEW k \in 1..Len(ops)
        PROVE  \/ k = 1
               \/ k # 1 /\ ops[k] = "rating"
               \/ k # 1 /\ k = Len(ops) /\ ops[k] = "defaulted"
    <3>1. CASE Len(s) = 1
      BY <2>1, <3>1
    <3>2. CASE Len(s) = 2
      BY <1>1, <1>3, <2>1, <3>2
    <3> QED
      BY <1>1, <3>1, <3>2
  <2> QED
    BY <1>1, <1>3, <2>1, <2>2 DEF Ordered
<1>6. CASE Len(closing) = 2
  <2>1. /\ Len(ops) = Len(s) + 2 /\ invoice[i] = "sold" /\ last = "matured"
        /\ ops[Len(s) + 1] = "release" /\ ops[Len(ops)] = "matured"
    BY <1>1, <1>2, <1>3, <1>6
  <2>2. ASSUME NEW k \in 1..Len(ops)
        PROVE  /\ \/ k = 1 /\ ops[k] = "outcome"
                  \/ k # 1 /\ ops[k] = "rating"
                  \/ k # 1 /\ k + 1 = Len(ops) /\ ops[k] = "release"
                  \/ k # 1 /\ k = Len(ops) /\ ops[k] = "matured"
               /\ k + 1 = Len(ops) => ops[k + 1] = "matured"
    <3>1. CASE Len(s) = 1
      <4>1. k = 1 \/ k = 2 \/ k = 3
        BY <2>1, <3>1
      <4> QED
        BY <1>3, <2>1, <3>1, <4>1
    <3>2. CASE Len(s) = 2
      <4>1. k = 1 \/ k = 2 \/ k = 3 \/ k = 4
        BY <2>1, <3>2
      <4> QED
        BY <1>1, <1>3, <2>1, <3>2, <4>1
    <3> QED
      BY <1>1, <3>1, <3>2
  <2>3. ASSUME NEW k \in 1..Len(ops)
        PROVE  /\ ops[k] = "outcome" <=> k = 1
               /\ ops[k] = "release" => k < Len(ops) /\ ops[k + 1] = "matured"
               /\ ops[k] \in {"matured", "defaulted"} =>
                      k = Len(ops) /\ ops[k] = last /\ invoice[i] = "sold"
    <3>1. CASE k = 1 /\ ops[k] = "outcome"
      BY <3>1
    <3>2. CASE k # 1 /\ ops[k] = "rating"
      BY <3>2
    <3>3. CASE k # 1 /\ k + 1 = Len(ops) /\ ops[k] = "release"
      BY <2>2, <3>3
    <3>4. CASE k # 1 /\ k = Len(ops) /\ ops[k] = "matured"
      BY <2>1, <3>4
    <3> QED
      BY <2>2, <3>1, <3>2, <3>3, <3>4
  <2>4. Len(ops) > 0
    BY <1>1, <2>1
  <2> QED
    BY <1>3, <2>1, <2>3, <2>4 DEF Ordered
<1> QED
  BY <1>2, <1>4, <1>5, <1>6

LEMMA MaturityOps ==
    ASSUME MaturityInv, NEW i \in Invoices, NEW outcome,
           invoice[i] \in {"sold", "matured"}
    PROVE  Ordered(Recording(i, outcome) \o Closing(i), i, "matured")
<1>1. Closing(i) = IF invoice[i] = "sold" THEN <<"release", "matured">> ELSE <<>>
  BY DEF Closing, MaturityInv, StatusFollowsLedger, Paid
<1> QED
  BY <1>1, RunOrdered

LEMMA DefaultOps ==
    ASSUME NEW i \in Invoices, NEW outcome, invoice[i] \in {"sold", "defaulted"}
    PROVE  Ordered(Recording(i, outcome)
                     \o IF invoice[i] = "defaulted" THEN <<>> ELSE <<"defaulted">>,
                   i, "defaulted")
<1>1. PICK closing : closing = IF invoice[i] = "defaulted" THEN <<>> ELSE <<"defaulted">>
  OBVIOUS
<1> QED
  BY <1>1, RunOrdered

(* A route begins: its run follows from what the request has just read.     *)
LEMMA RouteKeeps ==
    ASSUME MaturityInv, NEW r \in Requests, NEW i \in Invoices, NEW b \in Buyers,
           NEW outcome \in Outcomes, NEW ops, NEW j \in Job, NEW last,
           Quiet, Live(i, b),
           GoOn(r, j, Writes(ops, i, b, outcome, NoSchedule)),
           \/ /\ last = "matured" /\ outcome \in Paid
              /\ ledger[i] \in Paid \cup {"none"}
              /\ invoice[i] \in {"sold", "matured"}
              /\ j.invoice = i /\ j.holder = b
           \/ /\ last = "defaulted" /\ outcome = "default"
              /\ ledger[i] \in {"default", "none"}
              /\ j.pc = "idle",
           Ordered(ops, i, last)
    PROVE  MaturityInv'
<1>1. /\ TypeOK /\ todo = <<>> /\ job' = [job EXCEPT ![r] = j]
      /\ todo' = Writes(ops, i, b, outcome, NoSchedule)
      /\ UNCHANGED <<invoice, trade, ledger, record, rating, capital>>
      /\ UNCHANGED <<owner, schedule, today, crashes, returned>>
  BY DEF GoOn, rows, chain, Quiet, MaturityInv
<1>2. /\ todo' \in Seq(Write) /\ Len(todo') = Len(ops) /\ Len(ops) \in Nat \ {0}
      /\ \A k \in 1..Len(ops) :
             /\ todo'[k].op = ops[k] /\ todo'[k].invoice = i
             /\ todo'[k].holder = b /\ todo'[k].outcome = outcome
  BY <1>1, WritesMade DEF Ordered
<1>3. TypeOK'
  BY <1>1, <1>2 DEF TypeOK
<1>4. WritesFollow'
  <2> SUFFICES ASSUME NEW k \in 1..Len(todo') PROVE Follows(k)'
    BY DEF WritesFollow
  <2>1. /\ k \in 1..Len(ops) /\ 1 \in 1..Len(ops) /\ todo'[k].op = ops[k]
        /\ todo'[k].invoice = i /\ todo'[k].holder = b
        /\ todo'[1].op = "outcome" /\ todo'[1].invoice = i /\ todo'[1].outcome = outcome
    BY <1>2 DEF Ordered
  <2>2. Live(i, b)' /\ invoice'[i] = invoice[i] /\ ledger'[i] = ledger[i]
    BY <1>1 DEF Live
  <2>3. ops[k] = "outcome" => k = 1
    BY <2>1 DEF Ordered
  <2>4. ops[k] = "release" => /\ k < Len(todo') /\ todo'[k + 1].op = "matured"
                              /\ todo'[k + 1].invoice = i
    <3> SUFFICES ASSUME ops[k] = "release"
                 PROVE  /\ k < Len(todo') /\ todo'[k + 1].op = "matured"
                        /\ todo'[k + 1].invoice = i
      OBVIOUS
    <3>1. k < Len(ops) /\ ops[k + 1] = "matured"
      BY <2>1 DEF Ordered
    <3>2. k + 1 \in 1..Len(ops)
      BY <1>2, <2>1, <3>1
    <3> QED
      BY <1>2, <3>1, <3>2
  <2>5. ops[k] \in {"matured", "defaulted"} =>
            k = Len(todo') /\ ops[k] = last /\ invoice[i] = "sold"
    BY <1>2, <2>1 DEF Ordered
  <2> QED
    BY <2>1, <2>2, <2>3, <2>4, <2>5 DEF Follows, Backed
<1>5. JobsFollow'
  <2> SUFFICES ASSUME NEW q \in Requests, job'[q].pc # "idle"
               PROVE  /\ job'[q].invoice \in Invoices /\ job'[q].holder \in Buyers
                      /\ Live(job[q].invoice, job[q].holder)'
                      /\ Matures(job[q].invoice)'
    BY DEF JobsFollow
  <2>1. CASE q = r
    <3>1. job'[q] = j /\ j.invoice = i /\ j.holder = b /\ last = "matured"
          /\ invoice[i] \in {"sold", "matured"}
      BY <1>1, <2>1 DEF TypeOK
    <3>2. invoice[i] = "sold" => todo'[Len(ops)].op = "matured"
                                 /\ todo'[Len(ops)].invoice = i
      BY <1>2, <3>1 DEF Ordered
    <3>3. Matures(i)'
      BY <1>1, <1>2, <3>1, <3>2 DEF Matures
    <3>4. Live(i, b)'
      BY <1>1 DEF Live
    <3> QED
      BY <3>1, <3>3, <3>4 DEF Live, Matures
  <2>2. CASE q # r
    <3>1. job'[q] = job[q]
      BY <1>1, <2>2 DEF TypeOK
    <3>2. /\ job[q].invoice \in Invoices /\ job[q].holder \in Buyers
          /\ Live(job[q].invoice, job[q].holder)
          /\ invoice[job[q].invoice] = "matured"
      BY <1>1, <3>1 DEF MaturityInv, JobsFollow, Matures
    <3> QED
      BY <1>1, <3>1, <3>2 DEF Live, Matures
  <2> QED
    BY <2>1, <2>2
<1> QED
  BY <1>1, <1>3, <1>4, <1>5, RowsKept DEF rows

LEMMA MatureKeeps ==
    ASSUME MaturityInv, NEW r \in Requests, NEW i \in Invoices, NEW b \in Buyers,
           Mature(r, i, b)
    PROVE  MaturityInv'
<1>1. PICK paidAt : Observe(r, i, b, paidAt)
  BY DEF Mature
<1> DEFINE j == [IdleJob EXCEPT !.pc = "requirements", !.invoice = i,
                                !.holder = b, !.seen = trade[i][b].schedule]
           outcome == Outcome(paidAt)
           ops == Recording(i, outcome) \o Closing(i)
<1>2. /\ Quiet /\ Live(i, b) /\ invoice[i] \in {"sold", "matured"}
      /\ ledger[i] # "default" /\ GoOn(r, j, Writes(ops, i, b, outcome, NoSchedule))
  BY <1>1 DEF Mature, Observe
<1>3. outcome \in Paid /\ outcome \in Outcomes
  BY DEF Outcome, Paid, Outcomes
<1>4. ledger[i] \in Paid \cup {"none"}
  BY <1>2 DEF MaturityInv, TypeOK, Outcomes
<1>5. j \in Job /\ j.invoice = i /\ j.holder = b
  <2>1. trade[i][b].schedule \in Schedules \cup {NoSchedule}
    BY TradeTyped DEF MaturityInv, Trade
  <2> QED
    BY <2>1 DEF IdleJob, Job
<1>6. Ordered(ops, i, "matured")
  BY <1>2, MaturityOps
<1> HIDE DEF j, outcome, ops
<1> QED
  BY <1>2, <1>3, <1>4, <1>5, <1>6, RouteKeeps

LEMMA DefaultKeeps ==
    ASSUME MaturityInv, NEW r \in Requests, NEW i \in Invoices, NEW b \in Buyers,
           Default(r, i, b)
    PROVE  MaturityInv'
<1> DEFINE ops == Recording(i, "default")
                    \o IF invoice[i] = "defaulted" THEN <<>> ELSE <<"defaulted">>
<1>1. /\ Quiet /\ Live(i, b) /\ invoice[i] \in {"sold", "defaulted"}
      /\ ledger[i] \notin Paid
      /\ GoOn(r, IdleJob, Writes(ops, i, b, "default", NoSchedule))
  BY DEF Default
<1>2. "default" \in Outcomes
  BY DEF Outcomes
<1>3. ledger[i] \in {"default", "none"}
  BY <1>1 DEF MaturityInv, TypeOK, Outcomes
<1>4. Ordered(ops, i, "defaulted")
  BY <1>1, DefaultOps
<1> HIDE DEF ops
<1> QED
  BY <1>1, <1>2, <1>3, <1>4, IdleTyped, RouteKeeps

(* A request goes on with the receivable it has, or ends.                   *)
LEMMA JobGoesOn ==
    ASSUME MaturityInv, NEW r \in Requests, NEW j, Quiet,
           job' = [job EXCEPT ![r] = j], UNCHANGED <<invoice, trade>>,
           \/ j.pc = "idle"
           \/ job[r].pc # "idle" /\ j.invoice = job[r].invoice /\ j.holder = job[r].holder
    PROVE  JobsFollow'
<1> SUFFICES ASSUME NEW q \in Requests, job'[q].pc # "idle"
             PROVE  /\ job'[q].invoice \in Invoices /\ job'[q].holder \in Buyers
                    /\ Live(job[q].invoice, job[q].holder)'
                    /\ Matures(job[q].invoice)'
  BY DEF JobsFollow
<1>1. job'[q].invoice = job[q].invoice /\ job'[q].holder = job[q].holder
      /\ job[q].pc # "idle"
  <2>1. job \in [Requests -> Job]
    BY DEF MaturityInv, TypeOK
  <2>2. CASE q = r
    BY <2>1, <2>2
  <2>3. CASE q # r
    BY <2>1, <2>3
  <2> QED
    BY <2>2, <2>3
<1>2. /\ job[q].invoice \in Invoices /\ job[q].holder \in Buyers
      /\ Live(job[q].invoice, job[q].holder) /\ invoice[job[q].invoice] = "matured"
  BY <1>1 DEF MaturityInv, JobsFollow, Matures, Quiet
<1> QED
  BY <1>1, <1>2 DEF Live, Matures

LEMMA GoOnKeeps ==
    ASSUME MaturityInv, NEW r \in Requests, NEW j \in Job, NEW writes \in Seq(Write),
           Quiet, GoOn(r, j, writes),
           \/ j.pc = "idle"
           \/ job[r].pc # "idle" /\ j.invoice = job[r].invoice /\ j.holder = job[r].holder,
           \A k \in 1..Len(writes) : writes[k].op = "scheduled"
    PROVE  MaturityInv'
<1>1. /\ TypeOK /\ job' = [job EXCEPT ![r] = j] /\ todo' = writes
      /\ UNCHANGED <<invoice, trade, ledger, record, rating, capital>>
      /\ UNCHANGED <<owner, schedule, today, crashes, returned>>
  BY DEF GoOn, rows, chain, MaturityInv
<1>2. TypeOK'
  BY <1>1 DEF TypeOK
<1>3. WritesFollow'
  BY <1>1 DEF WritesFollow, Follows
<1>4. JobsFollow'
  BY <1>1, JobGoesOn
<1> QED
  BY <1>1, <1>2, <1>3, <1>4, RowsKept DEF rows

LEMMA AwaitTyped ==
    ASSUME MaturityInv, NEW r \in Requests, NEW pc \in {"schedule", "status"}
    PROVE  /\ Await(r, pc) \in Job
           /\ Await(r, pc).invoice = job[r].invoice
           /\ Await(r, pc).holder = job[r].holder
<1>1. job[r] \in Job
  BY DEF MaturityInv, TypeOK
<1> QED
  BY <1>1 DEF Await, Job

LEMMA PayoutGoesOn ==
    ASSUME MaturityInv, NEW r \in Requests,
           \/ RequirementsBuilt(r) \/ RequirementsFail(r)
           \/ ScheduleAnswered(r) \/ StatusRead(r)
    PROVE  MaturityInv'
<1>1. <<>> \in Seq(Write) /\ \A k \in 1..Len(<<>>) : <<>>[k].op = "scheduled"
  OBVIOUS
<1>2. CASE RequirementsFail(r) \/ StatusRead(r)
           \/ (Quiet /\ GoOn(r, IdleJob, <<>>))
  <2>1. Quiet /\ GoOn(r, IdleJob, <<>>)
    BY <1>2 DEF RequirementsFail, StatusRead, Waiting
  <2> QED
    BY <1>1, <2>1, IdleTyped, GoOnKeeps
<1>3. CASE RequirementsBuilt(r)
  <2>1. PICK pc \in {"schedule", "status"} :
            Quiet /\ job[r].pc # "idle" /\ GoOn(r, Await(r, pc), <<>>)
    BY <1>3 DEF RequirementsBuilt, Waiting
  <2> QED
    BY <1>1, <2>1, AwaitTyped, GoOnKeeps
<1>4. CASE /\ Quiet /\ job[r].pc = "schedule"
           /\ GoOn(r, Await(r, "status"),
                   Writes(<<"scheduled">>, job[r].invoice, job[r].holder,
                          "on_time", job[r].seen))
  <2> DEFINE ops == <<"scheduled">>
             writes == Writes(ops, job[r].invoice, job[r].holder, "on_time", job[r].seen)
  <2>1. ops \in Seq(WriteOps) /\ Len(ops) = 1 /\ ops[1] = "scheduled"
    <3>1. "scheduled" \in WriteOps
      BY DEF WriteOps
    <3> QED
      BY <3>1
  <2>2. /\ job[r].invoice \in Invoices /\ job[r].holder \in Buyers
        /\ job[r].seen \in Schedules \cup {NoSchedule}
    <3>1. job[r] \in Job
      BY DEF MaturityInv, TypeOK
    <3> QED
      BY <1>4, <3>1 DEF MaturityInv, JobsFollow, Job
  <2>3. "on_time" \in Outcomes
    BY DEF Outcomes, Paid
  <2> HIDE DEF ops
  <2>4. writes \in Seq(Write) /\ \A k \in 1..Len(writes) : writes[k].op = "scheduled"
    BY <2>1, <2>2, <2>3, WritesMade
  <2>5. GoOn(r, Await(r, "status"), writes)
    BY <1>4 DEF ops
  <2> HIDE DEF writes
  <2> QED
    BY <1>4, <2>4, <2>5, AwaitTyped, GoOnKeeps
<1> QED
  BY <1>2, <1>3, <1>4 DEF ScheduleAnswered

(* The network answers, and only the schedules change on it.                *)
LEMMA AnswerKeeps ==
    ASSUME MaturityInv, NEW r \in Requests, NEW heard \in {"ok", "none", "error"},
           NEW s \in Schedules \cup {NoSchedule},
           Waiting(r, "schedule"), Answer(r, heard, s),
           TypeOK => schedule' \in [Schedules -> [invoice : Invoices \cup {"none"},
                        payee : Buyers \cup {Nobody},
                        state : {"none", "unsigned", "executed", "expired"}]],
           SchedulesNamed', PaysTheOwner'
    PROVE  MaturityInv'
<1>1. /\ TypeOK /\ Quiet /\ job[r].pc = "schedule"
      /\ UNCHANGED <<invoice, trade, ledger, record, rating, capital>>
      /\ UNCHANGED <<todo, owner, today, crashes, returned>>
  BY DEF Answer, Waiting, rows, MaturityInv
<1> DEFINE j == [[job[r] EXCEPT !.heard = heard] EXCEPT !.seen = s]
<1>2. /\ job' = [job EXCEPT ![r] = j] /\ j \in Job
      /\ j.invoice = job[r].invoice /\ j.holder = job[r].holder
  <2>1. job[r] \in Job /\ job \in [Requests -> Job]
    BY <1>1 DEF TypeOK
  <2>2. job' = [job EXCEPT ![r].heard = heard, ![r].seen = s]
    BY DEF Answer
  <2>3. job' = [job EXCEPT ![r] = j]
    BY <2>1, <2>2
  <2> QED
    BY <2>1, <2>3 DEF Job
<1> HIDE DEF j
<1>3. TypeOK'
  BY <1>1, <1>2 DEF TypeOK
<1>4. WritesFollow'
  BY <1>1 DEF WritesFollow, Quiet
<1>5. JobsFollow'
  BY <1>1, <1>2, JobGoesOn
<1>6. StatusFollowsLedger' /\ ReturnedIsPaid'
  BY <1>1 DEF MaturityInv, StatusFollowsLedger, ReturnedIsPaid
<1>7. SalesApart'
  BY <1>1, SameSales DEF MaturityInv
<1> QED
  BY <1>3, <1>4, <1>5, <1>6, <1>7 DEF MaturityInv

LEMMA PayoutScheduledKeeps ==
    ASSUME MaturityInv, NEW r \in Requests, PayoutScheduled(r)
    PROVE  MaturityInv'
<1> PICK s : s = Min(Unused)
  OBVIOUS
<1> DEFINE new == [invoice |-> job[r].invoice, payee |-> job[r].holder,
                   state |-> "unsigned"]
<1>1. s \in Schedules /\ schedule[s].state = "none"
  <2>1. Unused \in SUBSET Nat /\ Unused # {}
    BY DEF PayoutScheduled, Unused, Schedules
  <2>2. s \in Unused
    BY <2>1, Least
  <2> QED
    BY <2>2 DEF Unused
<1>2. /\ Waiting(r, "schedule")
      /\ schedule' = [schedule EXCEPT ![s] = new]
      /\ UNCHANGED <<invoice, trade, owner>>
      /\ Answer(r, "ok", s) \/ Answer(r, "error", NoSchedule)
  BY DEF PayoutScheduled, Answer, rows
<1> PICK i \in Invoices, b \in Buyers : i = job[r].invoice /\ b = job[r].holder
  BY <1>2 DEF MaturityInv, JobsFollow, Waiting
<1>3. Live(i, b) /\ invoice[i] = "matured"
  BY <1>2 DEF MaturityInv, JobsFollow, Matures, Waiting, Quiet
<1>4. owner[i] = b \/ SoldUnheard(i)
  <2>1. Apart(i) /\ owner[i] \in Buyers
    BY DEF MaturityInv, SalesApart, TypeOK
  <2>2. trade[i][owner[i]].state # "paying"
    BY <1>3, <2>1 DEF Apart
  <2>3. owner[i] = b \/ Parted(i)
    BY <1>3, <2>1 DEF Apart
  <2> QED
    BY <2>2, <2>3 DEF Parted, SoldUnheard
<1>5. TypeOK => schedule' \in [Schedules -> [invoice : Invoices \cup {"none"},
                        payee : Buyers \cup {Nobody},
                        state : {"none", "unsigned", "executed", "expired"}]]
  BY <1>2 DEF TypeOK
<1>6. \A q \in Schedules : schedule'[q] = IF q = s THEN new ELSE schedule[q]
  BY <1>1, <1>2 DEF MaturityInv, TypeOK
<1>7. SchedulesNamed'
  BY <1>6 DEF SchedulesNamed, MaturityInv
<1>8. PaysTheOwner'
  <2> SUFFICES ASSUME NEW q \in Schedules, schedule'[q].state # "none"
               PROVE  /\ invoice'[schedule'[q].invoice] = "matured"
                      /\ Live(schedule[q].invoice, schedule[q].payee)'
                      /\ \/ schedule'[q].payee = owner'[schedule'[q].invoice]
                         \/ SoldUnheard(schedule[q].invoice)'
    BY DEF PaysTheOwner
  <2>1. CASE q = s
    <3>1. schedule'[q].invoice = i /\ schedule'[q].payee = b
      BY <1>6, <2>1
    <3>2. Live(i, b)'
      BY <1>2, <1>3 DEF Live
    <3> QED
      BY <1>2, <1>3, <1>4, <3>1, <3>2 DEF Live, SoldUnheard
  <2>2. CASE q # s
    <3>1. schedule'[q] = schedule[q]
      BY <1>6, <2>2
    <3> QED
      BY <1>2, <3>1 DEF MaturityInv, PaysTheOwner, SoldUnheard, Live
  <2> QED
    BY <2>1, <2>2
<1> QED
  BY <1>1, <1>2, <1>5, <1>7, <1>8, AnswerKeeps

LEMMA PayoutNotScheduledKeeps ==
    ASSUME MaturityInv, NEW r \in Requests, PayoutNotScheduled(r)
    PROVE  MaturityInv'
<1>1. PICK heard \in {"none", "error"} :
          Waiting(r, "schedule") /\ Answer(r, heard, NoSchedule)
  BY DEF PayoutNotScheduled
<1>2. UNCHANGED <<invoice, trade, owner, schedule>>
  BY <1>1 DEF PayoutNotScheduled, Answer, rows
<1>3. SchedulesNamed' /\ PaysTheOwner'
  BY <1>2, SamePayouts DEF MaturityInv
<1> QED
  BY <1>1, <1>2, <1>3, AnswerKeeps DEF TypeOK

LEMMA ScheduleEndsKeeps ==
    ASSUME MaturityInv, NEW s \in Schedules, ScheduleEnds(s)
    PROVE  MaturityInv'
<1>1. PICK state \in {"executed", "expired"} : schedule' = [schedule EXCEPT ![s].state = state]
  BY DEF ScheduleEnds
<1>2. /\ TypeOK /\ Quiet /\ schedule[s].state = "unsigned"
      /\ UNCHANGED <<invoice, trade, ledger, record, rating, capital>>
      /\ UNCHANGED <<job, todo, owner, today, crashes, returned>>
  BY DEF ScheduleEnds, rows, MaturityInv
<1>3. /\ TypeOK'
      /\ \A q \in Schedules : /\ schedule'[q].invoice = schedule[q].invoice
                              /\ schedule'[q].payee = schedule[q].payee
                              /\ schedule'[q].state # "none" <=> schedule[q].state # "none"
  <2> DEFINE new == [schedule[s] EXCEPT !.state = state]
             Row == [invoice : Invoices \cup {"none"}, payee : Buyers \cup {Nobody},
                     state : {"none", "unsigned", "executed", "expired"}]
  <2>1. schedule \in [Schedules -> Row] /\ schedule' = [schedule EXCEPT ![s] = new]
    BY <1>1, <1>2 DEF TypeOK
  <2>2. /\ new \in Row /\ new.invoice = schedule[s].invoice
        /\ new.payee = schedule[s].payee /\ new.state # "none"
    BY <2>1
  <2>3. schedule' \in [Schedules -> Row]
    BY <2>1, <2>2
  <2>4. ASSUME NEW q \in Schedules
        PROVE  /\ schedule'[q].invoice = schedule[q].invoice
               /\ schedule'[q].payee = schedule[q].payee
               /\ schedule'[q].state # "none" <=> schedule[q].state # "none"
    BY <1>2, <2>1, <2>2
  <2>5. TypeOK'
    BY <1>2, <2>3 DEF TypeOK
  <2> QED
    BY <2>4, <2>5
<1>4. SchedulesNamed'
  BY <1>3 DEF MaturityInv, SchedulesNamed
<1>5. PaysTheOwner'
  BY <1>2, <1>3 DEF MaturityInv, PaysTheOwner, SoldUnheard, Live
<1>6. WritesFollow'
  BY <1>2 DEF WritesFollow, Quiet
<1>7. JobsFollow'
  BY <1>2 DEF MaturityInv, JobsFollow, Live, Matures
<1>8. StatusFollowsLedger' /\ ReturnedIsPaid'
  BY <1>2 DEF MaturityInv, StatusFollowsLedger, ReturnedIsPaid
<1>9. SalesApart'
  BY <1>2, SameSales DEF MaturityInv
<1> QED
  BY <1>3, <1>4, <1>5, <1>6, <1>7, <1>8, <1>9 DEF MaturityInv

LEMMA DayKeeps == MaturityInv /\ Day => MaturityInv'
<1> SUFFICES ASSUME MaturityInv, Day PROVE MaturityInv'
  OBVIOUS
<1>1. /\ TypeOK /\ Quiet /\ today' = today + 1
      /\ UNCHANGED <<invoice, trade, ledger, record, rating, capital>>
      /\ UNCHANGED <<job, todo, owner, schedule, crashes, returned>>
  BY DEF Day, rows, chain, MaturityInv
<1>2. TypeOK'
  BY <1>1 DEF TypeOK
<1>3. WritesFollow'
  BY <1>1 DEF WritesFollow, Quiet
<1>4. JobsFollow'
  BY <1>1 DEF MaturityInv, JobsFollow, Live, Matures
<1> QED
  BY <1>1, <1>2, <1>3, <1>4, RowsKept DEF rows

(* A death loses what was still to be written and who was to write it.      *)
LEMMA CrashKeeps == MaturityInv /\ Crash => MaturityInv'
<1> SUFFICES ASSUME MaturityInv, Crash PROVE MaturityInv'
  OBVIOUS
<1>1. /\ TypeOK /\ todo' = <<>> /\ crashes' = crashes + 1
      /\ job' = [r \in Requests |-> IdleJob]
      /\ UNCHANGED <<invoice, trade, ledger, record, rating, capital>>
      /\ UNCHANGED <<today, owner, schedule, returned>>
  BY DEF Crash, rows, chain, MaturityInv
<1>2. job' \in [Requests -> Job] /\ \A r \in Requests : job'[r].pc = "idle"
  BY <1>1, IdleTyped
<1>3. TypeOK'
  BY <1>1, <1>2 DEF TypeOK
<1>4. WritesFollow'
  BY <1>1 DEF WritesFollow
<1>5. JobsFollow'
  BY <1>2 DEF JobsFollow
<1> QED
  BY <1>1, <1>3, <1>4, <1>5, RowsKept DEF rows

LEMMA MaturityStep == MaturityInv /\ [Next]_vars => MaturityInv'
<1> SUFFICES ASSUME MaturityInv, [Next]_vars PROVE MaturityInv'
  OBVIOUS
<1>1. CASE StoreWrite
  BY <1>1, StoreWriteKeeps
<1>2. CASE \E i \in Invoices : Sale(i)
  BY <1>2, RelistKeeps, PayFromVaultKeeps, ArmToSignKeeps, UnwindKeeps, DeliverKeeps,
     RecordSaleKeeps, FailSaleKeeps DEF Sale
<1>3. CASE \E r \in Requests : Operator(r)
  BY <1>3, MatureKeeps, DefaultKeeps DEF Operator
<1>4. CASE \E r \in Requests : Payout(r)
  BY <1>4, PayoutGoesOn, PayoutScheduledKeeps, PayoutNotScheduledKeeps DEF Payout
<1>5. CASE \E s \in Schedules : ScheduleEnds(s)
  BY <1>5, ScheduleEndsKeeps
<1>6. CASE Day
  BY <1>6, DayKeeps
<1>7. CASE Crash
  BY <1>7, CrashKeeps
<1>8. CASE UNCHANGED vars
  <2>1. /\ UNCHANGED <<invoice, trade, ledger, record, rating, capital, owner, schedule>>
        /\ UNCHANGED <<job, todo, today, crashes, returned>>
    BY <1>8 DEF vars
  <2>2. TypeOK'
    BY <2>1 DEF MaturityInv, TypeOK
  <2>3. WritesFollow'
    BY <2>1 DEF MaturityInv, WritesFollow, Follows, Backed, Live
  <2>4. JobsFollow'
    BY <2>1 DEF MaturityInv, JobsFollow, Live, Matures
  <2> QED
    BY <2>1, <2>2, <2>3, <2>4, RowsKept DEF rows
<1> QED
  BY <1>1, <1>2, <1>3, <1>4, <1>5, <1>6, <1>7, <1>8 DEF Next

(* Every reachable state of settleAtMaturity, recordDefault and the payout  *)
(* satisfies the invariant the results below are read off from.             *)
THEOREM MaturityInvariant == Spec => []MaturityInv
<1>1. Init => MaturityInv
  BY MaturityInit
<1>2. MaturityInv /\ [Next]_vars => MaturityInv'
  BY MaturityStep
<1> QED
  BY <1>1, <1>2, PTL DEF Spec

(* The rows, the ledger, the requests and the queued writes of maturity     *)
(* keep their types.                                                        *)
THEOREM MaturityTypeOK == Spec => []TypeOK
<1>1. MaturityInv => TypeOK
  BY DEF MaturityInv
<1> QED
  BY <1>1, MaturityInvariant, PTL

(* Whatever crash, replay, late default or payment after a write-off        *)
(* happens between recordOutcome and the invoice's status, the status never *)
(* contradicts the ledger.                                                  *)
THEOREM StatusFollows == Spec => []StatusFollowsLedger
<1>1. MaturityInv => StatusFollowsLedger
  BY DEF MaturityInv
<1> QED
  BY <1>1, MaturityInvariant, PTL

(* A payout is scheduled to the live holder of a receivable that has        *)
(* matured, though schedulePayout is reached several awaits after the       *)
(* holder was read: no sale can begin once the invoice is closed.  That     *)
(* holder is the owner, unless a buyer over x402 was delivered the paper    *)
(* and the delivery was answered an error.                                  *)
THEOREM PayoutsFindTheOwner == Spec => []PaysTheOwner
<1>1. MaturityInv => PaysTheOwner
  BY DEF MaturityInv
<1> QED
  BY <1>1, MaturityInvariant, PTL

(* recordDefault leaves the holder's capital allocated, and no maturity     *)
(* that crossed it gives it back.                                           *)
THEOREM LossIsKept == Spec => []LossKept
<1>1. MaturityInv => LossKept
  <2> SUFFICES ASSUME MaturityInv, NEW i \in Invoices, NEW b \in Buyers,
                      invoice[i] = "defaulted", returned[i][b] # 0
               PROVE  FALSE
    BY DEF LossKept
  <2>1. ledger[i] = "default"
    BY DEF MaturityInv, StatusFollowsLedger
  <2>2. ledger[i] \in Paid
    BY DEF MaturityInv, ReturnedIsPaid
  <2> QED
    BY <2>1, <2>2 DEF Paid
<1> QED
  BY <1>1, MaturityInvariant, PTL

-----------------------------------------------------------------------------
(* The ledger and the debtor's record.  Only recordOutcome changes them.    *)

LedgerKept == UNCHANGED <<ledger, record>>
LedgerMarked(w) ==
    /\ w.invoice \in Invoices /\ w.outcome \in Outcomes
    /\ ledger[w.invoice] = "none"
    /\ ledger' = [ledger EXCEPT ![w.invoice] = w.outcome]
    /\ record' = Accumulate(record, w.outcome)

LEMMA LedgerSteps ==
    ASSUME MaturityInv, [Next]_vars
    PROVE  LedgerKept \/ \E w \in Write : LedgerMarked(w)
<1>1. CASE StoreWrite
  <2>1. PICK w : w = Head(todo)
    OBVIOUS
  <2>2. w \in Write /\ w.invoice \in Invoices /\ w.outcome \in Outcomes
    <3>1. w \in Write
      BY <1>1, <2>1 DEF MaturityInv, TypeOK, StoreWrite
    <3> QED
      BY <3>1 DEF Write
  <2>3. \/ WriteOutcome(w) \/ WriteRating(w) \/ WriteRelease(w)
        \/ WriteStatus(w) \/ WriteScheduled(w)
    BY <1>1, <2>1 DEF StoreWrite
  <2>4. CASE WriteOutcome(w)
    BY <2>2, <2>4 DEF WriteOutcome, LedgerKept, LedgerMarked
  <2>5. CASE WriteRating(w) \/ WriteRelease(w) \/ WriteStatus(w) \/ WriteScheduled(w)
    BY <2>5 DEF WriteRating, WriteRelease, WriteStatus, WriteScheduled, LedgerKept
  <2> QED
    BY <2>3, <2>4, <2>5
<1>2. CASE \E i \in Invoices : Sale(i)
  <2>1. Rests
    BY <1>2 DEF Sale, Relist, Delist, PayFromVault, ArmToSign, Unwind, Deliver,
                RecordSale, FailSale
  <2> QED
    BY <2>1 DEF Rests, LedgerKept
<1>3. CASE \E r \in Requests : Operator(r) \/ Payout(r)
  <2>1. PICK r \in Requests : Operator(r) \/ Payout(r)
    BY <1>3
  <2>2. CASE \E j, writes : GoOn(r, j, writes)
    BY <2>2 DEF GoOn, rows, LedgerKept
  <2>3. CASE \E heard, s : Answer(r, heard, s)
    BY <2>3 DEF Answer, rows, LedgerKept
  <2>4. Operator(r) => \E j, writes : GoOn(r, j, writes)
    BY DEF Operator, Mature, Observe, Default
  <2>5. RequirementsBuilt(r) \/ RequirementsFail(r)
          \/ ScheduleAnswered(r) \/ StatusRead(r) => \E j, writes : GoOn(r, j, writes)
    BY DEF RequirementsBuilt, RequirementsFail, ScheduleAnswered, StatusRead
  <2>6. PayoutScheduled(r) \/ PayoutNotScheduled(r) => \E heard, s : Answer(r, heard, s)
    BY DEF PayoutScheduled, PayoutNotScheduled
  <2> QED
    BY <2>1, <2>2, <2>3, <2>4, <2>5, <2>6 DEF Payout
<1>4. CASE (\E s \in Schedules : ScheduleEnds(s)) \/ Day \/ Crash \/ UNCHANGED vars
  BY <1>4 DEF ScheduleEnds, Day, Crash, vars, rows, LedgerKept
<1> QED
  BY <1>1, <1>2, <1>3, <1>4 DEF Next

(* However often maturity is observed or default declared, by whom, and     *)
(* whatever dies in between, the debtor's counters are the opening record   *)
(* and one more for each receivable on the ledger (recordOutcome).          *)
THEOREM EachIsCountedOnce == Spec => []CountedOnce
<1> DEFINE At(o) == {i \in Invoices : ledger[i] = o}
<1>1. Init => CountedOnce
  <2> SUFFICES ASSUME Init, NEW o \in Outcomes
               PROVE  record[o] = Opening[o] + Cardinality({i \in Invoices : ledger[i] = o})
    BY DEF CountedOnce
  <2>1. {i \in Invoices : ledger[i] = o} = {}
    BY DEF Init, Outcomes, Paid
  <2>2. Opening[o] \in Nat
    BY DEF Outcomes, Paid
  <2>3. Cardinality({i \in Invoices : ledger[i] = o}) = 0
    BY <2>1, FS_EmptySet
  <2>4. record[o] = Opening[o]
    BY DEF Init
  <2> QED
    BY <2>2, <2>3, <2>4
<1>2. MaturityInv /\ CountedOnce /\ [Next]_vars => CountedOnce'
  <2> SUFFICES ASSUME MaturityInv, CountedOnce, [Next]_vars, NEW o \in Outcomes
               PROVE  record'[o] = Opening[o]
                                     + Cardinality({i \in Invoices : ledger'[i] = o})
    BY DEF CountedOnce
  <2>1. record[o] = Opening[o] + Cardinality({i \in Invoices : ledger[i] = o})
    BY DEF CountedOnce
  <2>2. CASE LedgerKept
    BY <2>1, <2>2 DEF LedgerKept
  <2>3. ASSUME NEW w \in Write, LedgerMarked(w)
        PROVE  record'[o] = Opening[o]
                              + Cardinality({i \in Invoices : ledger'[i] = o})
    <3> PICK old, new : /\ old = {i \in Invoices : ledger[i] = o}
                        /\ new = {i \in Invoices : ledger'[i] = o}
      OBVIOUS
    <3> SUFFICES record'[o] = Opening[o] + Cardinality(new)
      OBVIOUS
    <3>1. /\ ledger \in [Invoices -> Outcomes \cup {"none"}]
          /\ record \in [Outcomes -> Nat]
      BY DEF MaturityInv, TypeOK
    <3>2. /\ \A i \in Invoices : ledger'[i] = IF i = w.invoice THEN w.outcome ELSE ledger[i]
          /\ w.invoice \in Invoices /\ w.outcome \in Outcomes /\ ledger[w.invoice] = "none"
      BY <2>3, <3>1 DEF LedgerMarked
    <3>3. record'[o] = IF o = w.outcome THEN record[o] + 1 ELSE record[o]
      BY <2>3, <3>1 DEF LedgerMarked, Accumulate
    <3>4. "none" # o
      BY DEF Outcomes, Paid
    <3>5. w.invoice \notin old
      BY <3>2, <3>4
    <3>6. new = IF w.outcome = o THEN old \cup {w.invoice} ELSE old
      BY <3>2, <3>4
    <3>7. IsFiniteSet(old) /\ Cardinality(old) \in Nat
      BY SomeInvoices
    <3>8. Cardinality(old \cup {w.invoice}) = Cardinality(old) + 1
      BY <3>5, <3>7, FS_AddElement
    <3>9. Opening[o] \in Nat /\ record[o] = Opening[o] + Cardinality(old)
      BY <2>1 DEF Outcomes, Paid
    <3>10. CASE w.outcome = o
      <4>1. new = old \cup {w.invoice}
        BY <3>6, <3>10
      <4>2. Cardinality(new) = Cardinality(old) + 1
        BY <3>8, <4>1
      <4>3. record'[o] = record[o] + 1
        BY <3>3, <3>10
      <4> QED
        BY <3>7, <3>9, <4>2, <4>3
    <3>11. CASE w.outcome # o
      BY <3>3, <3>6, <3>9, <3>11
    <3> QED
      BY <3>10, <3>11
  <2> QED
    BY <2>2, <2>3, LedgerSteps
<1> QED
  BY <1>1, <1>2, MaturityInvariant, PTL DEF Spec

(* A mark on the ledger is never replaced, and a debtor graded D stays D:   *)
(* the default counter that assess reads first never goes down.             *)
THEOREM MarksStay == Spec => MarksArePermanent
<1> DEFINE Stays == /\ \A i \in Invoices : ledger[i] # "none" => ledger'[i] = ledger[i]
                    /\ Assess(record) = "D" => Assess(record') = "D"
<1>1. MaturityInv /\ [Next]_vars => Stays
  <2> SUFFICES ASSUME MaturityInv, [Next]_vars PROVE Stays
    OBVIOUS
  <2>1. CASE LedgerKept
    BY <2>1 DEF LedgerKept
  <2>2. ASSUME NEW w \in Write, LedgerMarked(w) PROVE Stays
    <3>1. /\ ledger \in [Invoices -> Outcomes \cup {"none"}]
          /\ record \in [Outcomes -> Nat]
      BY DEF MaturityInv, TypeOK
    <3>2. \A i \in Invoices : ledger[i] # "none" => ledger'[i] = ledger[i]
      BY <2>2, <3>1 DEF LedgerMarked
    <3>3. "default" \in Outcomes
      BY DEF Outcomes
    <3>4. record'["default"] \in {record["default"], record["default"] + 1}
      BY <2>2, <3>1, <3>3 DEF LedgerMarked, Accumulate
    <3>5. Assess(record) = "D" => record["default"] > 0
      BY DEF Assess
    <3>6. record'["default"] > 0 => Assess(record') = "D"
      BY DEF Assess
    <3>7. record["default"] \in Nat
      BY <3>1, <3>3
    <3> QED
      BY <3>2, <3>4, <3>5, <3>6, <3>7
  <2> QED
    BY <2>1, <2>2, LedgerSteps
<1> QED
  BY <1>1, MaturityInvariant, PTL DEF Spec, MarksArePermanent
=============================================================================

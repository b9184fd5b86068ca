-------------------------- MODULE SettlementProofs --------------------------
(* Proofs about Settlement, for every number of invoices, mandates, quotes, *)
(* requests, payments and trades, any prices, and any run of crashes and    *)
(* lost answers.  What the books say to the unit (who holds the paper, what *)
(* is allocated, what a vault still backs) holds one request at a time, and *)
(* is proved for that regime at the end.                                    *)
EXTENDS Settlement, TotalProofs, SequenceTheorems, TLAPS

(* The awaits at which a request carries the terms of a sale, and those at  *)
(* which it works on a numbered trade.                                      *)
Carrying == (Reads \cup Calls) \ {"releaseHold"}
Numbered == (Reads \ {"gate"}) \cup Calls

Inserting(t) ==
    \E k \in 1..Len(todo) : todo[k].op = "insert" /\ todo[k].trade = t

JobFormed(j) ==
    /\ j.pc \in Carrying => j.terms \in Terms
    /\ j.pc \in Numbered => /\ j.trade \in Trades
                            /\ Exists(j.trade) \/ Inserting(j.trade)
    /\ \A t \in j.batch : Exists(t)

(* What TypeOK needs to be inductive: terms are there wherever they are     *)
(* read, because a trade is inserted before anything else is written of it. *)
WellFormed ==
    /\ \A t \in Trades : Exists(t) => row[t].terms \in Terms
    /\ \A r \in Requests : JobFormed(job[r])
    /\ \A k \in 1..Len(todo) :
           /\ todo[k].op = "insert" => Len(todo) = 1
           /\ todo[k].op # "insert" => Exists(todo[k].trade)

TypeInv == TypeOK /\ WellFormed

-----------------------------------------------------------------------------

LEMMA InitTypeInv == Init => TypeInv
<1> SUFFICES ASSUME Init PROVE TypeInv
    OBVIOUS
<1> USE ConstantsAssumption
<1>1. TypeOK
  <2>1. row \in [Trades -> Row]
    <3>1. NoRow \in Row
      BY DEF NoRow, Row, TradeStatus, Rail
    <3> QED
      BY <3>1 DEF Init
  <2>2. capital \in [Mandates -> Capital]
    BY DEF Init, Capital, MandateStatus
  <2>3. job \in [Requests -> Job]
    <3>1. IdleJob \in Job
      BY DEF IdleJob, Job, Handlers, Rail
    <3> QED
      BY <3>1 DEF Init
  <2>4. todo \in Seq(Write)
    BY DEF Init
  <2>5. vault \in [Mandates -> Nat]
    BY DEF Init
  <2> QED
    BY <2>1, <2>2, <2>3, <2>4, <2>5
       DEF TypeOK, Init, InvoiceStatus, QuoteStatus, Parties, HoldState,
           PayoutState
<1>2. WellFormed
  BY DEF WellFormed, Init, Exists, NoRow, JobFormed, IdleJob, Carrying,
         Numbered, Reads, Calls
<1> QED
  BY <1>1, <1>2 DEF TypeInv

(* A step of one request, whatever it does to the rows: it moves its job on *)
(* and queues writes.                                                       *)
LEMMA StepTypeInv ==
    ASSUME TypeInv, NEW r \in Requests, NEW j \in Job,
           NEW writes \in Seq(Write), todo = <<>>, GoOn(r, j, writes),
           UNCHANGED <<quote, chain, bounds>>,
           invoice' \in [Invoices -> InvoiceStatus],
           capital' \in [Mandates -> Capital],
           row' \in [Trades -> Row],
           \A t \in Trades : /\ Exists(t)' = Exists(t)
                             /\ row'[t].terms = row[t].terms,
           j.pc \in Carrying => j.terms \in Terms,
           j.pc \in Numbered =>
               /\ j.trade \in Trades
               /\ \/ Exists(j.trade)
                  \/ \E k \in 1..Len(writes) :
                         writes[k].op = "insert" /\ writes[k].trade = j.trade,
           \A t \in j.batch : Exists(t),
           \A k \in 1..Len(writes) :
               /\ writes[k].op = "insert" => Len(writes) = 1
               /\ writes[k].op # "insert" => Exists(writes[k].trade)
    PROVE  TypeInv'
<1>1. TypeOK'
  BY DEF TypeInv, TypeOK, GoOn, chain, bounds
<1>2. \A k \in 1..Len(writes) : writes[k].trade \in Trades
  <2>1. writes \in [1..Len(writes) -> Write]
    BY LenProperties
  <2> QED
    BY <2>1 DEF Write
<1>3. todo' = writes
  BY DEF GoOn
<1>4. (\A t \in Trades : Exists(t) => row[t].terms \in Terms)'
  BY DEF TypeInv, WellFormed
<1>5. \A s \in Requests : JobFormed(job[s])'
  <2> SUFFICES ASSUME NEW s \in Requests PROVE JobFormed(job[s])'
    OBVIOUS
  <2>1. CASE s = r
    <3>1. job'[s] = j /\ j.batch \subseteq Trades
      BY <2>1 DEF GoOn, TypeInv, TypeOK, Job
    <3> QED
      BY <1>3, <3>1 DEF JobFormed, Inserting
  <2>2. CASE s # r
    <3>1. job'[s] = job[s] /\ job[s].batch \subseteq Trades
      BY <2>2 DEF GoOn, TypeInv, TypeOK, Job
    <3>2. JobFormed(job[s]) /\ ~ \E t \in Trades : Inserting(t)
      BY DEF TypeInv, WellFormed, Inserting
    <3> QED
      BY <3>1, <3>2 DEF JobFormed
  <2> QED
    BY <2>1, <2>2
<1>6. (\A k \in 1..Len(todo) :
           /\ todo[k].op = "insert" => Len(todo) = 1
           /\ todo[k].op # "insert" => Exists(todo[k].trade))'
  BY <1>2, <1>3
<1>7. WellFormed'
  BY <1>4, <1>5, <1>6 DEF WellFormed
<1> QED
  BY <1>1, <1>7 DEF TypeInv

(* A request step that leaves the rows alone.                               *)
LEMMA GoOnTypeInv ==
    ASSUME TypeInv, NEW r \in Requests, NEW j \in Job,
           NEW writes \in Seq(Write), todo = <<>>,
           GoOn(r, j, writes), UNCHANGED <<rows, chain, bounds>>,
           j.pc \in Carrying => j.terms \in Terms,
           j.pc \in Numbered => j.trade \in Trades /\ Exists(j.trade),
           \A t \in j.batch : Exists(t),
           \A k \in 1..Len(writes) :
               writes[k].op # "insert" /\ Exists(writes[k].trade)
    PROVE  TypeInv'
<1>1. \A t \in Trades : Exists(t)' = Exists(t) /\ row'[t].terms = row[t].terms
  BY DEF Exists, rows
<1>2. /\ invoice' \in [Invoices -> InvoiceStatus]
      /\ capital' \in [Mandates -> Capital]
      /\ row' \in [Trades -> Row]
      /\ UNCHANGED <<quote, chain, bounds>>
  BY DEF TypeInv, TypeOK, rows
<1> QED
  BY <1>1, <1>2, StepTypeInv

(* A step that writes the store and leaves every request where it is.       *)
LEMMA RowsTypeInv ==
    ASSUME TypeInv, UNCHANGED job, TypeOK',
           \A t \in Trades : Exists(t) => Exists(t)',
           \A t \in Trades : Exists(t)' => (row[t].terms \in Terms)',
           \A t \in Trades : Inserting(t) => (Exists(t) \/ Inserting(t))',
           (\A k \in 1..Len(todo) :
               /\ todo[k].op = "insert" => Len(todo) = 1
               /\ todo[k].op # "insert" => Exists(todo[k].trade))'
    PROVE  TypeInv'
<1>1. ASSUME NEW r \in Requests PROVE JobFormed(job[r])'
  <2>1. JobFormed(job[r]) /\ job'[r] = job[r]
    BY DEF TypeInv, WellFormed
  <2>2. job[r].batch \subseteq Trades
    BY DEF TypeInv, TypeOK, Job
  <2> QED
    BY <2>1, <2>2 DEF JobFormed
<1>2. (\A t \in Trades : Exists(t) => row[t].terms \in Terms)'
  OBVIOUS
<1>3. (\A k \in 1..Len(todo) :
           /\ todo[k].op = "insert" => Len(todo) = 1
           /\ todo[k].op # "insert" => Exists(todo[k].trade))'
  OBVIOUS
<1>4. WellFormed'
  BY <1>1, <1>2, <1>3 DEF WellFormed
<1> QED
  BY <1>4 DEF TypeInv

(* The mandate arithmetic keeps a mandate row well typed.                   *)
LEMMA CapitalTyped ==
    ASSUME NEW c \in Capital, NEW n \in Nat
    PROVE  /\ Release(c, n) \in Capital
           /\ Retire(c, n) \in Capital
           /\ Allocate(c, n) \in Capital
<1>1. ASSUME NEW d \in Capital PROVE Reopened(d) \in Capital
  BY <1>1 DEF Reopened, Capital, MandateStatus
<1>2. ASSUME NEW x \in Nat PROVE AtLeast0(x - n) \in Nat
  BY <1>2 DEF AtLeast0
<1>3. c.allocated \in Nat /\ c.funded \in Nat
  BY DEF Capital
<1>4. [c EXCEPT !.allocated = AtLeast0(c.allocated - n)] \in Capital
  BY <1>2, <1>3 DEF Capital
<1>5. [c EXCEPT !.allocated = AtLeast0(c.allocated - n),
                !.funded = AtLeast0(c.funded - n)] \in Capital
  BY <1>2, <1>3 DEF Capital
<1>6. Allocate(c, n) \in Capital
  <2> DEFINE status == IF c.allocated + n >= c.funded
                       THEN "exhausted" ELSE c.status
  <2>1. c.allocated + n \in Nat
    BY <1>3
  <2>2. status \in MandateStatus
    BY DEF Capital, MandateStatus
  <2>3. Allocate(c, n) = [c EXCEPT !.allocated = c.allocated + n,
                                   !.status = status]
    BY DEF Allocate
  <2> HIDE DEF status
  <2> QED
    BY <2>1, <2>2, <2>3 DEF Capital
<1>7. Release(c, n) \in Capital
  <2> DEFINE d == [c EXCEPT !.allocated = AtLeast0(c.allocated - n)]
  <2>1. Release(c, n) = Reopened(d)
    BY DEF Release
  <2> QED
    BY <1>1, <1>4, <2>1
<1>8. Retire(c, n) \in Capital
  <2> DEFINE d == [c EXCEPT !.allocated = AtLeast0(c.allocated - n),
                            !.funded = AtLeast0(c.funded - n)]
  <2>1. Retire(c, n) = Reopened(d)
    BY DEF Retire
  <2> QED
    BY <1>1, <1>5, <2>1
<1> QED
  BY <1>6, <1>7, <1>8

(* The holder of a position is one of the trades it is looked for among.    *)
LEMMA HolderIsLive ==
    ASSUME NEW i, NEW S, HolderAmong(i, S) # NoTrade
    PROVE  /\ HolderAmong(i, S) \in On(i) \cap S
           /\ row[HolderAmong(i, S)].status = "settled"
           /\ ~row[HolderAmong(i, S)].superseded
BY DEF HolderAmong

(* A row write leaves a row that exists, with the terms it had or, when it  *)
(* inserts, those of the write.                                             *)
LEMMA PatchedRow ==
    ASSUME NEW x \in Row, NEW w \in Write, w.op \in RowOps,
           w.op # "insert" => x.status # "none"
    PROVE  /\ Patched(x, w) \in Row
           /\ Patched(x, w).status # "none"
           /\ w.op = "insert" => Patched(x, w).terms = w.terms
           /\ w.op # "insert" => Patched(x, w).terms = x.terms
<1>1. NoRow \in Row /\ w.terms \in Terms
  BY DEF NoRow, Row, TradeStatus, Rail, Write
<1>2. CASE w.op = "insert"
  BY <1>1, <1>2 DEF Patched, Row, NoRow, TradeStatus, Rail
<1>3. CASE w.op = "armed"
  BY <1>3 DEF Patched, Row, TradeStatus, Rail
<1>4. CASE w.op = "armedVault"
  BY <1>4 DEF Patched, Row, TradeStatus, Rail
<1>5. CASE w.op = "locked"
  BY <1>5 DEF Patched, Row
<1>6. CASE w.op = "paidFailed"
  BY <1>6 DEF Patched, Row, TradeStatus, Rail
<1>7. CASE w.op \in {"failed", "unwound"}
  BY <1>7 DEF Patched, Row, TradeStatus, Rail
<1> QED
  BY <1>2, <1>3, <1>4, <1>5, <1>6, <1>7 DEF RowOps

(* The writes still to make after the next one.                             *)
LEMMA NextWrite ==
    ASSUME TypeInv, todo # <<>>, todo' = Tail(todo)
    PROVE  LET w == Head(todo) IN
           /\ w \in Write
           /\ w = todo[1]
           /\ todo' \in Seq(Write)
           /\ \A k \in 1..Len(todo') : /\ k + 1 \in 1..Len(todo)
                                       /\ todo'[k] = todo[k + 1]
           /\ w.op # "insert" => /\ Exists(w.trade)
                                 /\ \A k \in 1..Len(todo) : todo[k].op # "insert"
           /\ w.op = "insert" => Len(todo) = 1 /\ Len(todo') = 0
<1>1. todo \in Seq(Write)
  BY DEF TypeInv, TypeOK
<1>2. /\ Head(todo) \in Write
      /\ Tail(todo) \in Seq(Write)
      /\ Len(Tail(todo)) = Len(todo) - 1
      /\ \A k \in 1..Len(Tail(todo)) : Tail(todo)[k] = todo[k + 1]
  BY <1>1, HeadTailProperties
<1>3. Len(todo) \in Nat /\ Len(todo) > 0 /\ Head(todo) = todo[1]
  BY <1>1, EmptySeq
<1>4. \A k \in 1..Len(todo) :
          /\ todo[k].op = "insert" => Len(todo) = 1
          /\ todo[k].op # "insert" => Exists(todo[k].trade)
  BY DEF TypeInv, WellFormed
<1> QED
  BY <1>2, <1>3, <1>4

LEMMA StoreWriteTypeInv == TypeInv /\ StoreWrite => TypeInv'
<1> SUFFICES ASSUME TypeInv, StoreWrite PROVE TypeInv'
  OBVIOUS
<1> DEFINE w == Head(todo)
<1>1. /\ todo # <<>>
      /\ todo' = Tail(todo)
      /\ UNCHANGED <<job, owner, hold, vault, payout, paid, crashes>>
  BY DEF StoreWrite, chain
<1>2. /\ w \in Write
      /\ w = todo[1]
      /\ todo' \in Seq(Write)
      /\ \A k \in 1..Len(todo') : k + 1 \in 1..Len(todo) /\ todo'[k] = todo[k + 1]
      /\ w.op # "insert" => /\ Exists(w.trade)
                            /\ \A k \in 1..Len(todo) : todo[k].op # "insert"
      /\ w.op = "insert" => Len(todo) = 1 /\ Len(todo') = 0
  BY <1>1, NextWrite
<1>3. w.trade \in Trades /\ w.terms \in Terms /\ w.terms.price \in Nat
      /\ w.terms.mandate \in Mandates /\ w.terms.quote \in Quotes
      /\ w.terms.invoice \in Invoices
  BY <1>2, ConstantsAssumption DEF Write, Terms
<1>4. /\ invoice \in [Invoices -> InvoiceStatus]
      /\ quote \in [Quotes -> [invoice : Invoices \cup {"none"},
                               status : QuoteStatus]]
      /\ row \in [Trades -> Row]
      /\ capital \in [Mandates -> Capital]
      /\ clock \in Nat
      /\ Len(todo) \in Nat
  BY DEF TypeInv, TypeOK
<1>5. \A t \in Trades : Exists(t) => row[t].terms \in Terms
  BY DEF TypeInv, WellFormed
<1> HIDE DEF w
<1>6. ASSUME /\ invoice' \in [Invoices -> InvoiceStatus]
             /\ quote' \in [Quotes -> [invoice : Invoices \cup {"none"},
                                       status : QuoteStatus]]
             /\ row' \in [Trades -> Row]
             /\ capital' \in [Mandates -> Capital]
             /\ clock' \in Nat,
             \A t \in Trades : Exists(t) => Exists(t)',
             \A t \in Trades : Exists(t)' => (row[t].terms \in Terms)',
             w.op = "insert" => row'[w.trade].status # "none"
      PROVE  TypeInv'
  <2>1. TypeOK'
    BY <1>1, <1>2, <1>6 DEF TypeInv, TypeOK
  <2>2. ASSUME NEW t \in Trades, Inserting(t) PROVE Exists(t)'
    <3>1. PICK k \in 1..Len(todo) : todo[k].op = "insert" /\ todo[k].trade = t
      BY <2>2 DEF Inserting
    <3>2. w.op = "insert" /\ Len(todo) = 1
      BY <1>2, <3>1
    <3>3. k = 1
      BY <3>1, <3>2
    <3> QED
      BY <1>2, <1>6, <3>1, <3>2, <3>3 DEF Exists
  <2>3. (\A k \in 1..Len(todo) :
             /\ todo[k].op = "insert" => Len(todo) = 1
             /\ todo[k].op # "insert" => Exists(todo[k].trade))'
    <3> SUFFICES ASSUME NEW k \in 1..Len(todo')
                 PROVE  todo'[k].op # "insert" /\ Exists(todo[k].trade)'
      OBVIOUS
    <3>1. w.op # "insert" /\ k + 1 \in 1..Len(todo) /\ todo'[k] = todo[k + 1]
      BY <1>2
    <3>2. todo[k + 1].op # "insert" /\ Exists(todo[k + 1].trade)
      BY <1>2, <3>1 DEF TypeInv, WellFormed
    <3>3. todo'[k] \in Write /\ todo'[k].trade \in Trades
      <4>1. todo' \in [1..Len(todo') -> Write]
        BY <1>2, LenProperties
      <4> QED
        BY <4>1 DEF Write
    <3> QED
      BY <1>6, <3>1, <3>2, <3>3 DEF Exists
  <2> QED
    BY <1>1, <1>6, <2>1, <2>2, <2>3, RowsTypeInv
<1>7. CASE WriteTrade(w)
  <2>1. w.op \in RowOps /\ row' = [row EXCEPT ![w.trade] = Patched(row[w.trade], w)]
        /\ UNCHANGED <<invoice, quote, capital, clock>>
    BY <1>7 DEF WriteTrade
  <2>2. row[w.trade] \in Row /\ (w.op # "insert" => row[w.trade].status # "none")
    BY <1>2, <1>3, <1>4 DEF Exists
  <2>3. /\ Patched(row[w.trade], w) \in Row
        /\ Patched(row[w.trade], w).status # "none"
        /\ w.op = "insert" => Patched(row[w.trade], w).terms = w.terms
        /\ w.op # "insert" => Patched(row[w.trade], w).terms = row[w.trade].terms
    BY <1>2, <2>1, <2>2, PatchedRow
  <2>4. row' \in [Trades -> Row]
    BY <1>3, <1>4, <2>1, <2>3
  <2>5. \A t \in Trades : row'[t] = IF t = w.trade THEN Patched(row[t], w) ELSE row[t]
    BY <1>3, <1>4, <2>1
  <2>6. \A t \in Trades : Exists(t) => Exists(t)'
    BY <2>3, <2>5 DEF Exists
  <2>7. \A t \in Trades : Exists(t)' => (row[t].terms \in Terms)'
    BY <1>2, <1>3, <1>5, <2>3, <2>5 DEF Exists
  <2>8. w.op = "insert" => row'[w.trade].status # "none"
    BY <1>3, <2>3, <2>5
  <2> QED
    BY <1>4, <1>6, <2>1, <2>4, <2>6, <2>7, <2>8
<1>8. CASE WriteSettled(w)
  <2>1. w.op \in {"settled", "paidSettled"}
        /\ UNCHANGED <<invoice, quote, capital>> /\ clock' = clock + 1
    BY <1>8 DEF WriteSettled
  <2>2. /\ \A t \in Trades : t # w.trade => row'[t] = row[t]
        /\ row'[w.trade].status = "settled"
        /\ row'[w.trade].terms = row[w.trade].terms
        /\ row' \in [Trades -> Row]
    <3> DEFINE x == row[w.trade]
    <3>1. x \in Row /\ row' = [row EXCEPT ![w.trade] = Settled(x, w)]
      BY <1>3, <1>4, <1>8 DEF WriteSettled
    <3>2. /\ Settled(x, w) \in Row
          /\ Settled(x, w).status = "settled"
          /\ Settled(x, w).terms = x.terms
      <4> DEFINE rail == IF w.op = "paidSettled" THEN "x402" ELSE x.rail
                 cash == x.cashTransaction \/ w.op = "paidSettled"
      <4>1. rail \in Rail /\ cash \in BOOLEAN /\ clock + 1 \in Nat
        BY <1>4, <3>1 DEF Row, Rail
      <4>2. Settled(x, w) = [x EXCEPT !.status = "settled",
                                      !.settledAt = clock + 1,
                                      !.rail = rail,
                                      !.cashTransaction = cash]
        BY DEF Settled
      <4> HIDE DEF rail, cash
      <4>3. "settled" \in TradeStatus
        BY DEF TradeStatus
      <4>4. Settled(x, w) \in Row
        <5>1. [x EXCEPT !.status = "settled"] \in Row
          BY <3>1, <4>3 DEF Row
        <5>2. \A y \in Row : [y EXCEPT !.settledAt = clock + 1] \in Row
          BY <4>1 DEF Row
        <5>3. \A y \in Row : [y EXCEPT !.rail = rail] \in Row
          BY <4>1 DEF Row
        <5>4. \A y \in Row : [y EXCEPT !.cashTransaction = cash] \in Row
          BY <4>1 DEF Row
        <5> HIDE DEF x
        <5> QED
          BY <4>2, <5>1, <5>2, <5>3, <5>4
      <4>5. Settled(x, w).status = "settled" /\ Settled(x, w).terms = x.terms
        BY <3>1, <4>2 DEF Row
      <4> QED
        BY <4>4, <4>5
    <3> QED
      BY <1>3, <1>4, <3>1, <3>2
  <2>3. \A t \in Trades : Exists(t) => Exists(t)'
    BY <2>2 DEF Exists
  <2>4. \A t \in Trades : Exists(t)' => (row[t].terms \in Terms)'
    BY <1>2, <1>5, <2>1, <2>2 DEF Exists
  <2>5. invoice' = invoice /\ quote' = quote /\ capital' = capital
        /\ clock' \in Nat
    BY <1>4, <2>1
  <2> QED
    BY <1>4, <1>6, <2>1, <2>2, <2>3, <2>4, <2>5
<1>9. CASE WriteRelease(w)
  <2>1. capital' \in [Mandates -> Capital]
    BY <1>3, <1>4, <1>9, CapitalTyped DEF WriteRelease
  <2> QED
    BY <1>2, <1>3, <1>4, <1>5, <1>6, <1>9, <2>1 DEF WriteRelease, Exists
<1>10. CASE WriteSold(w)
  BY <1>2, <1>3, <1>4, <1>5, <1>6, <1>10 DEF WriteSold, Exists, InvoiceStatus
<1>11. CASE WriteQuote(w)
  <2>1. w.op \in {"accepted", "expired"}
        /\ UNCHANGED <<invoice, row, capital, clock>>
        /\ quote' = [quote EXCEPT ![w.terms.quote].status = w.op]
    BY <1>11 DEF WriteQuote
  <2>2. quote' \in [Quotes -> [invoice : Invoices \cup {"none"},
                               status : QuoteStatus]]
    BY <1>3, <1>4, <2>1 DEF QuoteStatus
  <2> QED
    BY <1>4, <1>5, <1>6, <2>1, <2>2 DEF Exists
<1>12. CASE WriteHandOver(w)
  <2> DEFINE previous == HolderAmong(w.terms.invoice, Trades \ {w.trade})
             terms == TermsOf(previous)
  <2>1. CASE previous = NoTrade
    BY <1>2, <1>3, <1>4, <1>5, <1>6, <1>12, <2>1 DEF WriteHandOver, Exists
  <2>2. CASE previous # NoTrade
    <3>1. previous \in Trades /\ Exists(previous)
      BY <2>2, HolderIsLive DEF On
    <3>2. terms \in Terms /\ terms.price \in Nat /\ terms.mandate \in Mandates
      BY <1>5, <3>1, ConstantsAssumption DEF TermsOf, Terms
    <3> HIDE DEF previous, terms
    <3>3. /\ row' = [row EXCEPT ![previous].superseded = TRUE]
          /\ capital' = [capital EXCEPT ![terms.mandate] =
                             IF row[previous].rail = "arc-vault"
                             THEN Retire(capital[terms.mandate], terms.price)
                             ELSE Release(capital[terms.mandate], terms.price)]
          /\ UNCHANGED <<invoice, quote, clock>>
          /\ w.op = "handover"
      BY <1>12, <2>2 DEF WriteHandOver, previous, terms
    <3>4. capital' \in [Mandates -> Capital]
      BY <1>4, <3>2, <3>3, CapitalTyped
    <3>5. /\ row' \in [Trades -> Row]
          /\ \A t \in Trades : /\ row'[t].status = row[t].status
                               /\ row'[t].terms = row[t].terms
      BY <1>4, <3>1, <3>3 DEF Row
    <3> QED
      BY <1>2, <1>3, <1>4, <1>5, <1>6, <3>1, <3>3, <3>4, <3>5 DEF Exists
  <2> QED
    BY <2>1, <2>2
<1> QED
  BY <1>7, <1>8, <1>9, <1>10, <1>11, <1>12 DEF StoreWrite, w

-----------------------------------------------------------------------------
(* The steps of a request.                                                  *)

(* Between writes, a request at a numbered await works on a trade that has  *)
(* been inserted.                                                           *)
LEMMA Formed ==
    ASSUME TypeInv, NEW r \in Requests, todo = <<>>
    PROVE  /\ job[r] \in Job
           /\ job[r].pc \in Carrying => job[r].terms \in Terms
           /\ job[r].pc \in Numbered => job[r].trade \in Trades /\ Exists(job[r].trade)
           /\ \A t \in job[r].batch : t \in Trades /\ Exists(t)
<1>1. job[r] \in Job /\ JobFormed(job[r])
  BY DEF TypeInv, TypeOK, WellFormed
<1>2. \A t \in Trades : ~Inserting(t)
  BY DEF Inserting
<1> QED
  BY <1>1, <1>2 DEF JobFormed, Job

LEMMA AtJob ==
    ASSUME NEW r \in Requests, job[r] \in Job,
           NEW pc \in Reads \cup Calls
    PROVE  /\ At(r, pc) \in Job
           /\ At(r, pc).pc = pc
           /\ At(r, pc).heard = "nothing"
           /\ At(r, pc).terms = job[r].terms
           /\ At(r, pc).trade = job[r].trade
           /\ At(r, pc).rail = job[r].rail
           /\ At(r, pc).batch = job[r].batch
BY DEF At, Job

(* The writes queued for one trade.                                         *)
LEMMA WritesTyped ==
    ASSUME NEW ops \in Seq(WriteOps), NEW t \in Trades, NEW terms \in Terms
    PROVE  /\ Writes(ops, t, terms) \in Seq(Write)
           /\ Len(Writes(ops, t, terms)) = Len(ops)
           /\ \A k \in 1..Len(ops) :
                  /\ Writes(ops, t, terms)[k].op = ops[k]
                  /\ Writes(ops, t, terms)[k].trade = t
                  /\ Writes(ops, t, terms)[k].terms = terms
<1> DEFINE n == Len(ops)
           w == Writes(ops, t, terms)
<1>1. n \in Nat /\ ops \in [1..n -> WriteOps]
  BY LenProperties
<1>2. w = [k \in 1..n |-> [op |-> ops[k], trade |-> t, terms |-> terms]]
  BY DEF Writes
<1>3. w \in [1..n -> Write]
  BY <1>1, <1>2 DEF Write
<1>4. \A k \in 1..n : w[k].op = ops[k] /\ w[k].trade = t /\ w[k].terms = terms
  BY <1>2
<1> HIDE DEF w, n
<1>5. w \in Seq(Write)
  BY <1>1, <1>3, SeqDef
<1>6. Len(w) = n
  BY <1>1, <1>3, <1>5, LenProperties
<1> QED
  BY <1>4, <1>5, <1>6 DEF w, n

LEMMA IdleJobTyped == /\ IdleJob \in Job
                      /\ IdleJob.pc = "idle"
                      /\ IdleJob.heard = "nothing"
                      /\ IdleJob.batch = {}
BY DEF IdleJob, Job, Handlers, Rail

LEMMA SweptJob ==
    ASSUME NEW batch \in SUBSET Trades, NEW after \in Handlers
    PROVE  /\ Swept(batch, after) \in Job
           /\ Swept(batch, after).pc \in Handlers \cup {"reclaim"}
           /\ Swept(batch, after).heard = "nothing"
           /\ Swept(batch, after).batch = batch
BY DEF Swept, IdleJob, Job, Handlers, Rail

LEMMA UnwindWritesTyped ==
    ASSUME TypeInv, NEW t \in Trades, Exists(t)
    PROVE  /\ UnwindWrites(t) \in Seq(Write)
           /\ \A k \in 1..Len(UnwindWrites(t)) :
                  /\ UnwindWrites(t)[k].op \in {"release", "unwound", "expired"}
                  /\ UnwindWrites(t)[k].trade = t
<1> DEFINE ops == <<"release", "unwound", "expired">>
<1>1. TermsOf(t) \in Terms
  BY DEF TypeInv, WellFormed, TermsOf
<1>2. ops \in Seq(WriteOps) /\ Len(ops) = 3
  BY DEF WriteOps
<1>3. \A k \in 1..3 : ops[k] \in {"release", "unwound", "expired"}
  OBVIOUS
<1>4. UnwindWrites(t) = Writes(ops, t, TermsOf(t))
  BY DEF UnwindWrites
<1> HIDE DEF ops
<1>5. /\ Writes(ops, t, TermsOf(t)) \in Seq(Write)
      /\ Len(Writes(ops, t, TermsOf(t))) = Len(ops)
      /\ \A k \in 1..Len(ops) : /\ Writes(ops, t, TermsOf(t))[k].op = ops[k]
                               /\ Writes(ops, t, TermsOf(t))[k].trade = t
  BY <1>1, <1>2, WritesTyped
<1> QED
  BY <1>2, <1>3, <1>4, <1>5

(* A step that moves its job on and writes nothing.                         *)
LEMMA MoveTypeInv ==
    ASSUME TypeInv, NEW r \in Requests, NEW j \in Job, todo = <<>>,
           GoOn(r, j, <<>>), UNCHANGED <<rows, chain, bounds>>,
           j.pc \in Carrying => j.terms \in Terms,
           j.pc \in Numbered => j.trade \in Trades /\ Exists(j.trade),
           \A t \in j.batch : Exists(t)
    PROVE  TypeInv'
<1> DEFINE writes == <<>>
<1>1. writes \in Seq(Write) /\ \A k \in 1..Len(writes) : FALSE
  BY EmptySeq
<1>2. GoOn(r, j, writes)
  OBVIOUS
<1> HIDE DEF writes
<1> QED
  BY <1>1, <1>2, GoOnTypeInv

(* A step that ends the request, queueing writes of its own trade.          *)
LEMMA EndTypeInv ==
    ASSUME TypeInv, NEW r \in Requests, NEW writes \in Seq(Write), todo = <<>>,
           GoOn(r, IdleJob, writes), UNCHANGED <<rows, chain, bounds>>,
           \A k \in 1..Len(writes) :
               writes[k].op # "insert" /\ Exists(writes[k].trade)
    PROVE  TypeInv'
BY IdleJobTyped, GoOnTypeInv DEF Carrying, Numbered, Reads, Calls

(* A step that moves the request to its next await, keeping the trade.      *)
LEMMA AtTypeInv ==
    ASSUME TypeInv, NEW r \in Requests, NEW writes \in Seq(Write), todo = <<>>,
           NEW pc \in Reads \cup Calls, job[r].pc \in Carrying \cap Numbered,
           GoOn(r, At(r, pc), writes), UNCHANGED <<rows, chain, bounds>>,
           \A k \in 1..Len(writes) :
               writes[k].op # "insert" /\ Exists(writes[k].trade)
    PROVE  TypeInv'
BY Formed, AtJob, GoOnTypeInv

LEMMA UnwindTypeInv ==
    ASSUME TypeInv, NEW r \in Requests, todo = <<>>,
           NEW t \in Trades, Exists(t),
           NEW batch \in SUBSET Trades, NEW after \in Handlers,
           \A u \in batch : Exists(u),
           Unwind(r, t, batch, after), UNCHANGED <<rows, chain, bounds>>
    PROVE  TypeInv'
<1>2. CASE GoOn(r, Swept(batch, after), <<>>)
  BY <1>2, SweptJob, MoveTypeInv
     DEF Carrying, Numbered, Reads, Calls, Handlers
<1>3. CASE GoOn(r, Swept(batch, after), UnwindWrites(t))
  <2>1. \A k \in 1..Len(UnwindWrites(t)) :
            UnwindWrites(t)[k].op # "insert" /\ Exists(UnwindWrites(t)[k].trade)
    BY UnwindWritesTyped
  <2> QED
    BY <1>3, <2>1, UnwindWritesTyped, SweptJob, GoOnTypeInv
       DEF Carrying, Numbered, Reads, Calls, Handlers
<1>4. CASE GoOn(r, [IdleJob EXCEPT !.pc = "releaseHold", !.trade = t,
                                   !.batch = batch, !.after = after], <<>>)
  <2> DEFINE j == [IdleJob EXCEPT !.pc = "releaseHold", !.trade = t,
                                  !.batch = batch, !.after = after]
  <2>1. j \in Job /\ j.pc = "releaseHold" /\ j.trade = t /\ j.batch = batch
    BY DEF IdleJob, Job, Handlers, Rail, Calls
  <2> HIDE DEF j
  <2>2. GoOn(r, j, <<>>)
    BY <1>4 DEF j
  <2> QED
    BY <2>1, <2>2, MoveTypeInv DEF Carrying
<1> QED
  BY <1>2, <1>3, <1>4 DEF Unwind

(* Every action of a client.                                                *)
LEMMA ClientTypeInv ==
    ASSUME TypeInv, NEW r \in Requests, Client(r)
    PROVE  TypeInv'
<1>0. /\ IdleJob \in Job /\ IdleJob.pc = "idle" /\ IdleJob.batch = {}
      /\ IdleJob.pc \notin Carrying \cup Numbered
  BY IdleJobTyped DEF Carrying, Numbered, Reads, Calls
<1>1. ASSUME NEW handler \in Handlers, Sweep(r, handler) PROVE TypeInv'
  <2>1. Stale \in SUBSET Trades /\ \A t \in Stale : Exists(t)
    BY DEF Stale, Armed, Exists
  <2> QED
    BY <1>1, <2>1, SweptJob, MoveTypeInv
       DEF Sweep, Running, Carrying, Numbered, Reads, Calls, Handlers
<1>2. ASSUME NEW i \in Invoices, Delist(r, i) PROVE TypeInv'
  <2>1. /\ todo = <<>> /\ GoOn(r, IdleJob, <<>>)
        /\ UNCHANGED <<quote, row, capital, chain, bounds>>
        /\ invoice' \in [Invoices -> InvoiceStatus]
    BY <1>2 DEF Delist, Starting, Running, TypeInv, TypeOK, InvoiceStatus
  <2>2. /\ capital' \in [Mandates -> Capital]
        /\ row' \in [Trades -> Row]
        /\ \A t \in Trades : Exists(t)' = Exists(t) /\ row'[t].terms = row[t].terms
    BY <2>1 DEF TypeInv, TypeOK, Exists
  <2> DEFINE writes == <<>>
  <2>3. writes \in Seq(Write) /\ \A k \in 1..Len(writes) : FALSE
    BY EmptySeq
  <2>4. GoOn(r, IdleJob, writes)
    BY <2>1
  <2> HIDE DEF writes
  <2> QED
    BY <1>0, <2>1, <2>2, <2>3, <2>4, StepTypeInv
<1>3. ASSUME NEW i \in Invoices, NEW q \in Quotes, NEW m \in Mandates,
             NEW price \in Prices, ArmTrade(r, i, q, m, price)
      PROVE  TypeInv'
  <2> DEFINE terms == [invoice |-> i, quote |-> q, mandate |-> m,
                       seller |-> PartyHolding(i), price |-> price]
             j == [IdleJob EXCEPT !.pc = "gate", !.terms = terms]
  <2>1. PartyHolding(i) \in Parties
    <3>1. CASE CurrentHolder(i) = NoTrade
      BY <3>1 DEF PartyHolding, Parties
    <3>2. CASE CurrentHolder(i) # NoTrade
      <4>1. CurrentHolder(i) \in Trades /\ Exists(CurrentHolder(i))
        BY <3>2, HolderIsLive DEF CurrentHolder, On
      <4>2. TermsOf(CurrentHolder(i)).mandate \in Mandates
        BY <4>1 DEF TypeInv, WellFormed, TermsOf, Terms
      <4> QED
        BY <3>2, <4>2 DEF PartyHolding, Parties
    <3> QED
      BY <3>1, <3>2
  <2>2. terms \in Terms
    BY <2>1 DEF Terms
  <2> HIDE DEF terms
  <2>3. j \in Job /\ j.pc = "gate" /\ j.terms = terms /\ j.batch = {}
    BY <2>2 DEF IdleJob, Job, Handlers, Rail, Reads
  <2>4. /\ todo = <<>> /\ GoOn(r, j, <<>>)
        /\ UNCHANGED <<rows, chain, bounds>>
    BY <1>3 DEF ArmTrade, Starting, Running, j, terms
  <2> HIDE DEF j
  <2> QED
    BY <2>2, <2>3, <2>4, MoveTypeInv DEF Numbered, Calls
<1>4. ASSUME NEW t \in Trades, NEW p \in Payments, Pay(r, t, p)
      PROVE  TypeInv'
  <2> DEFINE j == [IdleJob EXCEPT !.pc = "requirements", !.trade = t,
                                  !.terms = TermsOf(t), !.payment = p]
  <2>1. /\ todo = <<>> /\ Exists(t) /\ GoOn(r, j, <<>>)
        /\ UNCHANGED <<rows, chain, bounds>>
    BY <1>4 DEF Pay, Starting, Running
  <2>2. TermsOf(t) \in Terms
    BY <2>1 DEF TermsOf, TypeInv, WellFormed
  <2>3. j \in Job /\ j.pc = "requirements" /\ j.terms \in Terms
        /\ j.trade = t /\ j.batch = {}
    BY <2>2 DEF IdleJob, Job, Handlers, Rail, Reads
  <2> HIDE DEF j
  <2> QED
    BY <2>1, <2>3, MoveTypeInv
<1>5. ASSUME NEW t \in Trades, AskUnwind(r, t) PROVE TypeInv'
  <2>1. /\ todo = <<>> /\ Unwind(r, t, {}, "idle")
        /\ UNCHANGED <<rows, chain, bounds>>
    BY <1>5 DEF AskUnwind, Running
  <2>2. Exists(t)
    BY <1>5 DEF AskUnwind
  <2> QED
    BY <2>1, <2>2, UnwindTypeInv DEF Handlers
<1> QED
  BY <1>1, <1>2, <1>3, <1>4, <1>5 DEF Client

(* Every step a handler takes between two awaits.                           *)
LEMMA HandlerTypeInv ==
    ASSUME TypeInv, NEW r \in Requests, Handler(r)
    PROVE  TypeInv'
<1> DEFINE Same == UNCHANGED <<rows, chain, bounds>>
<1>0. /\ IdleJob \in Job /\ IdleJob.pc = "idle" /\ IdleJob.batch = {}
      /\ IdleJob.pc \notin Carrying \cup Numbered
  BY IdleJobTyped DEF Carrying, Numbered, Reads, Calls
<1>1. todo = <<>>
  BY DEF Handler, Reclaim, GateAdmits, Refuse, GateRefuses, ReadFails, CallFails,
         ChooseRail, PositionRead, HoldAnswered, ChallengeBuilt, MatchAnswered,
         PayoutAnswered, DeliverAnswered, RequirementsBuilt, RequirementsFail,
         Verified, NotVerified, SettleAnswered, SettleDeclined, SettleFails,
         PaidDeliveryAnswered, ReleaseAnswered, Heard, Running
<1>2. /\ job[r] \in Job
      /\ job[r].pc \in Carrying => job[r].terms \in Terms
      /\ job[r].pc \in Numbered => job[r].trade \in Trades /\ Exists(job[r].trade)
      /\ \A t \in job[r].batch : t \in Trades /\ Exists(t)
  BY <1>1, Formed
<1>3. ASSUME GoOn(r, IdleJob, <<>>), Same PROVE TypeInv'
  BY <1>0, <1>1, <1>3, MoveTypeInv
(* Moving a numbered request on, with no writes or with some of its trade.  *)
<1>4. ASSUME NEW pc \in Reads \cup Calls, job[r].pc \in Carrying \cap Numbered,
             NEW j, j = At(r, pc) \/ j = [At(r, pc) EXCEPT !.rail = "x402"]
                    \/ j = [At(r, pc) EXCEPT !.rail = "arc-vault"],
             GoOn(r, j, <<>>), Same
      PROVE  TypeInv'
  <2>1. /\ j \in Job /\ j.pc = pc /\ j.terms = job[r].terms
        /\ j.trade = job[r].trade /\ j.batch = job[r].batch
    BY <1>2, <1>4, AtJob DEF Job, Rail
  <2> QED
    BY <1>1, <1>2, <1>4, <2>1, MoveTypeInv
<1>5. ASSUME NEW ops \in Seq(WriteOps), \A k \in 1..Len(ops) : ops[k] # "insert",
             job[r].pc \in Carrying \cap Numbered,
             NEW j, j = IdleJob \/ \E pc \in Reads \cup Calls : j = At(r, pc),
             GoOn(r, j, Do(r, ops)), Same
      PROVE  TypeInv'
  <2> DEFINE writes == Do(r, ops)
  <2>1. /\ writes \in Seq(Write)
        /\ \A k \in 1..Len(writes) :
               writes[k].op # "insert" /\ Exists(writes[k].trade)
    BY <1>2, <1>5, WritesTyped DEF Do
  <2>2. GoOn(r, j, writes)
    BY <1>5
  <2> HIDE DEF writes
  <2>3. CASE j = IdleJob
    BY <1>1, <1>5, <2>1, <2>2, <2>3, EndTypeInv
  <2>4. ASSUME NEW pc \in Reads \cup Calls, j = At(r, pc) PROVE TypeInv'
    BY <1>1, <1>5, <2>1, <2>2, <2>4, AtTypeInv
  <2> QED
    BY <1>5, <2>3, <2>4
<1>6. ASSUME Abandon(r), Same, job[r].pc \in Carrying \cap Numbered PROVE TypeInv'
  <2> DEFINE ops == <<"release", "failed">>
  <2>1. ops \in Seq(WriteOps) /\ \A k \in 1..Len(ops) : ops[k] # "insert"
    BY DEF WriteOps
  <2>2. GoOn(r, IdleJob, Do(r, ops))
    BY <1>6 DEF Abandon
  <2> HIDE DEF ops
  <2> QED
    BY <1>5, <1>6, <2>1, <2>2
<1>7. ASSUME UnwindPaid(r), Same, job[r].pc \in Numbered PROVE TypeInv'
  BY <1>1, <1>2, <1>7, UnwindTypeInv DEF UnwindPaid, Handlers
<1>8. ASSUME NEW t \in Trades, Reclaim(r, t) PROVE TypeInv'
  <2>1. job[r].batch \ {t} \in SUBSET Trades /\ job[r].after \in Handlers
    BY <1>2 DEF Job
  <2> QED
    BY <1>1, <1>2, <1>8, <2>1, UnwindTypeInv DEF Reclaim
<1>9. ASSUME NEW t \in Trades, GateAdmits(r, t) PROVE TypeInv'
  <2> DEFINE terms == job[r].terms
             ops == <<"insert">>
             j == [job[r] EXCEPT !.pc = "rail", !.trade = t]
             writes == Writes(ops, t, terms)
  <2>1. terms \in Terms /\ terms.price \in Nat /\ terms.mandate \in Mandates
    BY <1>2, <1>9, ConstantsAssumption
       DEF GateAdmits, Running, Carrying, Reads, Calls, Terms
  <2>2. ops \in Seq(WriteOps) /\ Len(ops) = 1 /\ ops[1] = "insert"
    BY DEF WriteOps
  <2> HIDE DEF ops
  <2>3. /\ writes \in Seq(Write)
        /\ Len(writes) = 1
        /\ writes[1].op = "insert"
        /\ writes[1].trade = t
    BY <2>1, <2>2, WritesTyped
  <2>4. /\ j \in Job /\ j.pc = "rail" /\ j.trade = t
        /\ j.terms = terms /\ j.batch = job[r].batch
    BY <1>2 DEF Job, Reads
  <2>5. /\ GoOn(r, j, writes)
        /\ UNCHANGED <<invoice, quote, row, chain, bounds>>
        /\ capital' = [capital EXCEPT ![terms.mandate] =
                           Allocate(capital[terms.mandate], terms.price)]
    BY <1>9 DEF GateAdmits, ops
  <2>6. /\ capital' \in [Mandates -> Capital]
        /\ invoice' \in [Invoices -> InvoiceStatus]
        /\ row' \in [Trades -> Row]
        /\ \A u \in Trades : Exists(u)' = Exists(u) /\ row'[u].terms = row[u].terms
    BY <2>1, <2>5, CapitalTyped DEF TypeInv, TypeOK, Exists
  <2> HIDE DEF writes, j, terms
  <2>7. \E k \in 1..Len(writes) : writes[k].op = "insert" /\ writes[k].trade = j.trade
    BY <2>3, <2>4
  <2>8. \A k \in 1..Len(writes) : writes[k].op = "insert"
    BY <2>3
  <2>9. \A u \in j.batch : Exists(u)
    BY <1>2, <2>4
  <2>10. UNCHANGED <<quote, chain, bounds>>
    BY <2>5
  <2> QED
    BY <1>1, <2>1, <2>3, <2>4, <2>5, <2>6, <2>7, <2>8, <2>9, <2>10, StepTypeInv
<1>10. CASE Refuse(r) \/ GateRefuses(r) \/ RequirementsFail(r)
  BY <1>3, <1>10 DEF Refuse, GateRefuses, RequirementsFail
<1>11. CASE ReadFails(r) \/ CallFails(r)
  BY <1>6, <1>11
     DEF ReadFails, CallFails, Heard, Running, Carrying, Numbered, Reads, Calls
<1>12. ASSUME NEW rail \in {"x402", "arc-vault"}, ChooseRail(r, rail) PROVE TypeInv'
  <2> DEFINE j == [At(r, "position") EXCEPT !.rail = rail]
  <2>1. job[r].pc \in Carrying \cap Numbered /\ GoOn(r, j, <<>>) /\ Same
    BY <1>12 DEF ChooseRail, Running, Carrying, Numbered, Reads, Calls
  <2>2. \/ j = [At(r, "position") EXCEPT !.rail = "x402"]
        \/ j = [At(r, "position") EXCEPT !.rail = "arc-vault"]
    OBVIOUS
  <2>3. "position" \in Reads \cup Calls
    BY DEF Reads
  <2> HIDE DEF j
  <2> QED
    BY <1>4, <2>1, <2>2, <2>3
<1>13. CASE PositionRead(r)
  BY <1>4, <1>13 DEF PositionRead, Running, Carrying, Numbered, Reads, Calls
<1>14. CASE HoldAnswered(r)
  <2> DEFINE ops == <<"armedVault">>
  <2>1. ops \in Seq(WriteOps) /\ \A k \in 1..Len(ops) : ops[k] # "insert"
    BY DEF WriteOps
  <2>2. \/ GoOn(r, At(r, "challenge"), <<>>)
        \/ GoOn(r, At(r, "register"), Do(r, ops))
    BY <1>14 DEF HoldAnswered
  <2> HIDE DEF ops
  <2> QED
    BY <1>4, <1>5, <1>14, <2>1, <2>2
       DEF HoldAnswered, Heard, Running, Carrying, Numbered, Reads, Calls
<1>15. CASE ChallengeBuilt(r)
  <2> DEFINE ops == <<"armed">>
  <2>1. ops \in Seq(WriteOps) /\ \A k \in 1..Len(ops) : ops[k] # "insert"
    BY DEF WriteOps
  <2>2. GoOn(r, IdleJob, Do(r, ops))
    BY <1>15 DEF ChallengeBuilt
  <2> HIDE DEF ops
  <2> QED
    BY <1>5, <1>15, <2>1, <2>2
       DEF ChallengeBuilt, Running, Carrying, Numbered, Reads, Calls
<1>16. CASE MatchAnswered(r) \/ SettleAnswered(r)
  BY <1>4, <1>16
     DEF MatchAnswered, SettleAnswered, Heard, Running, Carrying, Numbered,
         Reads, Calls
<1>17. CASE PayoutAnswered(r)
  <2> DEFINE ops == <<"locked", "sold", "accepted", "handover">>
  <2>1. ops \in Seq(WriteOps) /\ \A k \in 1..Len(ops) : ops[k] # "insert"
    BY DEF WriteOps
  <2>2. GoOn(r, At(r, "deliver"), Do(r, ops))
    BY <1>17 DEF PayoutAnswered
  <2> HIDE DEF ops
  <2> QED
    BY <1>5, <1>17, <2>1, <2>2
       DEF PayoutAnswered, Heard, Running, Carrying, Numbered, Reads, Calls
<1>18. CASE DeliverAnswered(r) \/ PaidDeliveryAnswered(r)
  <2> DEFINE Plain(ops) == /\ ops \in Seq(WriteOps)
                           /\ \A k \in 1..Len(ops) : ops[k] # "insert"
  <2>1. Plain(<<"settled">>) /\ Plain(<<"failed">>) /\ Plain(<<"paidFailed">>)
    BY DEF WriteOps
  <2>2. Plain(<<"paidSettled", "accepted", "sold", "handover">>)
    BY DEF WriteOps
  <2>3. job[r].pc \in Carrying \cap Numbered /\ Same
    BY <1>18 DEF DeliverAnswered, PaidDeliveryAnswered, Heard, Running, Carrying,
                 Numbered, Reads, Calls
  <2>4. ASSUME NEW ops, Plain(ops), GoOn(r, IdleJob, Do(r, ops)) PROVE TypeInv'
    BY <1>5, <2>3, <2>4
  <2> HIDE DEF Plain
  <2> QED
    BY <1>18, <2>1, <2>2, <2>4 DEF DeliverAnswered, PaidDeliveryAnswered
<1>19. CASE RequirementsBuilt(r)
  <2>1. job[r].pc \in Carrying \cap Numbered /\ Same
    BY <1>19 DEF RequirementsBuilt, Running, Carrying, Numbered, Reads, Calls
  <2>2. GoOn(r, At(r, "verify"), <<>>) \/ UnwindPaid(r)
    BY <1>19 DEF RequirementsBuilt
  <2> QED
    BY <1>4, <1>7, <2>1, <2>2 DEF Reads
<1>20. CASE Verified(r)
  BY <1>4, <1>20 DEF Verified, Running, Carrying, Numbered, Reads, Calls
<1>21. CASE NotVerified(r) \/ SettleFails(r)
  BY <1>7, <1>21
     DEF NotVerified, SettleFails, Heard, Running, Numbered, Reads, Calls
<1>22. CASE SettleDeclined(r)
  <2> DEFINE t == job[r].trade
             writes == <<>>
             j == [IdleJob EXCEPT !.pc = "releaseHold", !.trade = t]
  <2>1. t \in Trades /\ Exists(t)
    BY <1>2, <1>22 DEF SettleDeclined, Heard, Running, Numbered, Calls
  <2>2. /\ GoOn(r, IdleJob, writes) \/ GoOn(r, j, writes)
        /\ row' = [row EXCEPT ![t].status = "failed"]
        /\ UNCHANGED <<invoice, quote, capital, chain, bounds>>
    BY <1>22 DEF SettleDeclined
  <2>3. j \in Job /\ j.pc = "releaseHold" /\ j.trade = t /\ j.batch = {}
    BY <2>1 DEF IdleJob, Job, Handlers, Rail, Calls
  <2>4. writes \in Seq(Write) /\ \A k \in 1..Len(writes) : FALSE
    BY EmptySeq
  <2>5. /\ row' \in [Trades -> Row]
        /\ \A u \in Trades : Exists(u)' = Exists(u) /\ row'[u].terms = row[u].terms
    <3>1. row \in [Trades -> Row] /\ row[t].status # "none"
      BY <2>1 DEF TypeInv, TypeOK, Exists
    <3> HIDE DEF t
    <3>2. row' \in [Trades -> Row]
      BY <2>1, <2>2, <3>1 DEF Row, TradeStatus
    <3>3. \A u \in Trades : /\ row'[u].terms = row[u].terms
                            /\ row'[u].status # "none" <=> row[u].status # "none"
      BY <2>1, <2>2, <3>1 DEF Row
    <3> QED
      BY <3>2, <3>3 DEF Exists
  <2>6. invoice' \in [Invoices -> InvoiceStatus] /\ capital' \in [Mandates -> Capital]
    BY <2>2 DEF TypeInv, TypeOK
  <2> HIDE DEF j, writes, t
  <2>7. CASE GoOn(r, IdleJob, writes)
    BY <1>0, <1>1, <2>2, <2>4, <2>5, <2>6, <2>7, StepTypeInv
  <2>8. CASE GoOn(r, j, writes)
    BY <1>1, <2>1, <2>2, <2>3, <2>4, <2>5, <2>6, <2>8, StepTypeInv DEF Carrying
  <2> QED
    BY <2>2, <2>7, <2>8
<1>23. CASE ReleaseAnswered(r)
  <2> DEFINE t == job[r].trade
             j == Swept(job[r].batch, job[r].after)
  <2>1. t \in Trades /\ Exists(t) /\ Same
    BY <1>2, <1>23 DEF ReleaseAnswered, Heard, Running, Numbered, Calls
  <2>2. /\ j \in Job /\ j.batch = job[r].batch
        /\ j.pc \notin Carrying \cup Numbered
    <3>1. job[r].batch \in SUBSET Trades /\ job[r].after \in Handlers
      BY <1>2 DEF Job
    <3> QED
      BY <3>1, SweptJob DEF Carrying, Numbered, Reads, Calls, Handlers
  <2>3. \A k \in 1..Len(UnwindWrites(t)) :
            UnwindWrites(t)[k].op # "insert" /\ Exists(UnwindWrites(t)[k].trade)
    BY <2>1, UnwindWritesTyped
  <2>4. GoOn(r, j, UnwindWrites(t)) \/ GoOn(r, j, <<>>)
    BY <1>23 DEF ReleaseAnswered
  <2> HIDE DEF j, t
  <2>5. CASE GoOn(r, j, UnwindWrites(t))
    BY <1>1, <1>2, <2>1, <2>2, <2>3, <2>5, UnwindWritesTyped, GoOnTypeInv
  <2>6. CASE GoOn(r, j, <<>>)
    BY <1>1, <1>2, <2>1, <2>2, <2>6, MoveTypeInv
  <2> QED
    BY <2>4, <2>5, <2>6
<1> QED
  BY <1>8, <1>9, <1>10, <1>11, <1>12, <1>13, <1>14, <1>15, <1>16, <1>17, <1>18,
     <1>19, <1>20, <1>21, <1>22, <1>23 DEF Handler

-----------------------------------------------------------------------------
(* The steps of everything else.                                            *)

(* A step that leaves the store, the writes and what the requests work on   *)
(* as they are.                                                             *)
LEMMA FrameTypeInv ==
    ASSUME TypeInv, TypeOK', UNCHANGED <<row, todo>>,
           \A r \in Requests : /\ job'[r].pc = job[r].pc
                               /\ job'[r].trade = job[r].trade
                               /\ job'[r].terms = job[r].terms
                               /\ job'[r].batch = job[r].batch
    PROVE  TypeInv'
<1>1. \A k \in 1..Len(todo) : todo[k].trade \in Trades
  <2>1. todo \in [1..Len(todo) -> Write]
    BY LenProperties DEF TypeInv, TypeOK
  <2> QED
    BY <2>1 DEF Write
<1>2. ASSUME NEW r \in Requests PROVE JobFormed(job[r])'
  <2>1. JobFormed(job[r]) /\ job[r].batch \subseteq Trades
    BY DEF TypeInv, TypeOK, WellFormed, Job
  <2>2. \A t \in Trades : Exists(t)' = Exists(t) /\ Inserting(t)' = Inserting(t)
    BY DEF Exists, Inserting
  <2> QED
    BY <2>1, <2>2 DEF JobFormed
<1>3. (\A t \in Trades : Exists(t) => row[t].terms \in Terms)'
  BY DEF TypeInv, WellFormed, Exists
<1>4. (\A k \in 1..Len(todo) :
           /\ todo[k].op = "insert" => Len(todo) = 1
           /\ todo[k].op # "insert" => Exists(todo[k].trade))'
  BY <1>1 DEF TypeInv, WellFormed, Exists
<1>5. WellFormed'
  BY <1>2, <1>3, <1>4 DEF WellFormed
<1> QED
  BY <1>5 DEF TypeInv

(* A call landing, or being refused, outside.                               *)
LEMMA OutsideTypeInv ==
    ASSUME TypeInv, NEW r \in Requests, Outside(r)
    PROVE  TypeInv'
<1>1. /\ UNCHANGED <<rows, todo, bounds>>
      /\ \E answer \in {"ok", "error", "declined"} :
             job' = [job EXCEPT ![r].heard = answer]
  <2>1. \E answer \in {"ok", "error", "declined"} : Answer(r, answer)
    BY DEF Outside, CallRefused, PaymentDeclined, HoldCreated, HoldExecuted,
           HoldReleased, MatchRegistered, PayoutExecuted, PaymentSettled, Landed
  <2> QED
    BY <2>1 DEF Answer
<1>2. /\ job' \in [Requests -> Job]
      /\ \A s \in Requests : /\ job'[s].pc = job[s].pc
                             /\ job'[s].trade = job[s].trade
                             /\ job'[s].terms = job[s].terms
                             /\ job'[s].batch = job[s].batch
  <2>1. PICK answer \in {"ok", "error", "declined"} :
            job' = [job EXCEPT ![r].heard = answer]
    BY <1>1
  <2>2. job \in [Requests -> Job]
    BY DEF TypeInv, TypeOK
  <2>3. /\ job' = [job EXCEPT ![r] = [job[r] EXCEPT !.heard = answer]]
        /\ [job[r] EXCEPT !.heard = answer] \in Job
    BY <2>1, <2>2 DEF Job
  <2> QED
    BY <2>2, <2>3 DEF Job
<1>3. todo = <<>>
  BY DEF Outside, CallRefused, PaymentDeclined, HoldCreated, HoldExecuted,
         HoldReleased, MatchRegistered, PayoutExecuted, PaymentSettled, Waiting,
         Heard, Running
<1>4. /\ \E pc \in Calls : job[r].pc = pc
      /\ job[r].trade \in Trades
      /\ job[r].pc # "releaseHold" => job[r].terms \in Terms
  <2>1. \E pc \in Calls : job[r].pc = pc
    BY DEF Outside, CallRefused, PaymentDeclined, HoldCreated, HoldExecuted,
           HoldReleased, MatchRegistered, PayoutExecuted, PaymentSettled, Waiting,
           Heard, Running, Calls
  <2> QED
    BY <1>3, <2>1, Formed DEF Numbered, Carrying
<1>5. /\ owner \in [Invoices -> Parties]
      /\ hold \in [Trades -> HoldState]
      /\ vault \in [Mandates -> Nat]
      /\ payout \in [Trades -> PayoutState]
      /\ paid \in [Trades -> SUBSET Payments]
  BY DEF TypeInv, TypeOK
<1>6. ASSUME owner' \in [Invoices -> Parties],
             hold' \in [Trades -> HoldState],
             vault' \in [Mandates -> Nat],
             payout' \in [Trades -> PayoutState],
             paid' \in [Trades -> SUBSET Payments]
      PROVE  TypeInv'
  <2>1. TypeOK'
    BY <1>1, <1>2, <1>6 DEF TypeInv, TypeOK, rows, bounds
  <2> QED
    BY <1>1, <1>2, <2>1, FrameTypeInv DEF rows
<1>7. CASE CallRefused(r) \/ PaymentDeclined(r)
  BY <1>5, <1>6, <1>7 DEF CallRefused, PaymentDeclined, chain
<1>8. CASE HoldCreated(r) \/ HoldReleased(r)
  BY <1>4, <1>5, <1>6, <1>8 DEF HoldCreated, HoldReleased, HoldState
<1>9. CASE HoldExecuted(r)
  <2>1. job[r].pc \in {"deliver", "deliverPaid"}
    BY <1>9 DEF HoldExecuted, Waiting, Heard, Running
  <2>2. job[r].terms.mandate \in Parties
    BY <1>4, <2>1 DEF Terms, Parties
  <2> QED
    BY <1>4, <1>5, <1>6, <1>9, <2>2 DEF HoldExecuted, HoldState
<1>10. CASE MatchRegistered(r)
  BY <1>4, <1>5, <1>6, <1>10 DEF MatchRegistered, PayoutState
<1>11. CASE PayoutExecuted(r)
  <2> DEFINE m == job[r].terms.mandate
             price == job[r].terms.price
  <2>1. /\ job[r].pc = "payout"
        /\ price <= vault[m]
        /\ vault' = [vault EXCEPT ![m] = vault[m] - price]
        /\ payout' = [payout EXCEPT ![job[r].trade] = "executed"]
        /\ UNCHANGED <<owner, hold, paid>>
    BY <1>11 DEF PayoutExecuted, Waiting, Heard, Running
  <2>2. m \in Mandates /\ price \in Nat
    BY <1>4, <2>1, ConstantsAssumption DEF Terms
  <2> HIDE DEF m, price
  <2>3. vault' \in [Mandates -> Nat]
    BY <1>5, <2>1, <2>2
  <2> QED
    BY <1>4, <1>5, <1>6, <2>1, <2>3 DEF PayoutState
<1>12. CASE PaymentSettled(r)
  BY <1>4, <1>5, <1>6, <1>12 DEF PaymentSettled
<1> QED
  BY <1>7, <1>8, <1>9, <1>10, <1>11, <1>12 DEF Outside

LEMMA NextTypeInv == TypeInv /\ [Next]_vars => TypeInv'
<1> SUFFICES ASSUME TypeInv, [Next]_vars PROVE TypeInv'
  OBVIOUS
<1>1. CASE StoreWrite
  BY <1>1, StoreWriteTypeInv
<1>2. ASSUME NEW q \in Quotes, NEW i \in Invoices, IssueQuote(q, i)
      PROVE  TypeInv'
  <2>1. TypeOK'
    BY <1>2 DEF IssueQuote, TypeInv, TypeOK, QuoteStatus, chain, bounds
  <2> QED
    BY <1>2, <2>1, FrameTypeInv DEF IssueQuote
<1>3. ASSUME NEW i \in Invoices, List(i) PROVE TypeInv'
  <2>1. TypeOK'
    BY <1>3 DEF List, TypeInv, TypeOK, InvoiceStatus, chain, bounds
  <2> QED
    BY <1>3, <2>1, FrameTypeInv DEF List
<1>4. ASSUME NEW r \in Requests, Client(r) \/ Handler(r) \/ Outside(r)
      PROVE  TypeInv'
  BY <1>4, ClientTypeInv, HandlerTypeInv, OutsideTypeInv
<1>5. ASSUME NEW t \in Trades, Age(t) PROVE TypeInv'
  <2>1. /\ row' = [row EXCEPT ![t].stale = TRUE]
        /\ UNCHANGED <<invoice, quote, capital, job, todo, chain, bounds>>
        /\ todo = <<>>
    BY <1>5 DEF Age
  <2>2. /\ row' \in [Trades -> Row]
        /\ \A u \in Trades : /\ row'[u].status = row[u].status
                              /\ row'[u].terms = row[u].terms
    <3>1. row \in [Trades -> Row]
      BY DEF TypeInv, TypeOK
    <3> QED
      BY <2>1, <3>1 DEF Row
  <2>3. TypeOK'
    BY <2>1, <2>2 DEF TypeInv, TypeOK, chain, bounds
  <2>4. /\ \A u \in Trades : Exists(u) => Exists(u)'
        /\ \A u \in Trades : Exists(u)' => (row[u].terms \in Terms)'
    BY <2>2 DEF TypeInv, WellFormed, Exists
  <2>5. \A u \in Trades : Inserting(u) => (Exists(u) \/ Inserting(u))'
    BY <2>1 DEF Inserting
  <2>6. \A k \in 1..Len(todo') : FALSE
    BY <2>1
  <2> QED
    BY <2>1, <2>3, <2>4, <2>5, <2>6, RowsTypeInv
<1>6. ASSUME NEW t \in Trades, ExpireHold(t) PROVE TypeInv'
  <2>1. TypeOK'
    BY <1>6 DEF ExpireHold, TypeInv, TypeOK, HoldState, rows, bounds
  <2> QED
    BY <1>6, <2>1, FrameTypeInv DEF ExpireHold, rows
<1>7. CASE Crash
  <2>1. /\ job' = [r \in Requests |-> IdleJob] /\ todo' = <<>>
        /\ UNCHANGED <<rows, chain>>
    BY <1>7 DEF Crash
  <2>2. TypeOK'
    BY <1>7, IdleJobTyped DEF Crash, TypeInv, TypeOK, rows, chain
  <2>3. \A r \in Requests : JobFormed(job[r])'
    <3>1. IdleJob.pc \notin Carrying \cup Numbered /\ IdleJob.batch = {}
      BY IdleJobTyped DEF Carrying, Numbered, Reads, Calls
    <3> QED
      BY <2>1, <3>1 DEF JobFormed
  <2>4. (\A t \in Trades : Exists(t) => row[t].terms \in Terms)'
    BY <2>1 DEF TypeInv, WellFormed, Exists, rows
  <2>5. WellFormed'
    BY <2>1, <2>3, <2>4 DEF WellFormed
  <2> QED
    BY <2>2, <2>5 DEF TypeInv
<1>8. CASE UNCHANGED vars
  <2>1. TypeOK'
    BY <1>8 DEF vars, TypeInv, TypeOK
  <2> QED
    BY <1>8, <2>1, FrameTypeInv DEF vars
<1> QED
  BY <1>1, <1>2, <1>3, <1>4, <1>5, <1>6, <1>7, <1>8 DEF Next

(* Every reachable state is well typed: no interleaving, lost answer or     *)
(* crash leaves a write, a trade or a request without the sale it is about. *)
THEOREM TypeCorrect == Spec => []TypeOK
<1>1. TypeInv => TypeOK
  BY DEF TypeInv
<1> QED
  BY <1>1, InitTypeInv, NextTypeInv, PTL DEF Spec

-----------------------------------------------------------------------------
(* Delivery versus payment, proved of Settlement: paper is delivered, and a *)
(* trade reads settled, only when the money for that trade moved, whatever  *)
(* the requests, the crashes and the lost answers.                          *)

-----------------------------------------------------------------------------
(* The strengthening for delivery versus payment.                           *)

(* A trade that is being armed and whose hold has not been asked for yet.   *)
Fresh(j) == \/ j.pc \in {"rail", "position"}
            \/ j.pc = "createHold" /\ j.heard = "nothing"

(* What a request may rely on at its await: an answer of ok is true of the  *)
(* outside world, and stays so.                                             *)
JobHonest(j) ==
    /\ j.pc = "deliver" \/ (j.pc = "payout" /\ j.heard = "ok")
           => payout[j.trade] = "executed"
    /\ j.pc = "deliverPaid" \/ (j.pc = "settle" /\ j.heard = "ok")
           => paid[j.trade] # {}
    /\ j.pc \in {"deliver", "deliverPaid"} /\ j.heard = "ok"
           => hold[j.trade] = "executed"
    /\ Fresh(j) => hold[j.trade] = "none"

(* No two requests are about to place the hold of one trade.                *)
FreshApart ==
    \A r, s \in Requests :
        Fresh(job[r]) /\ Fresh(job[s]) /\ job[r].trade = job[s].trade => r = s

(* Settled is written only of a trade both whose legs moved.                *)
WritesHonest ==
    \A k \in 1..Len(todo) :
        todo[k].op \in {"settled", "paidSettled"} =>
            hold[todo[k].trade] = "executed" /\ CashMoved(todo[k].trade)

DvpInv ==
    /\ DeliveredImpliesPaid
    /\ SettledMeansBothLegs
    /\ \A t \in Trades : ~Exists(t) => hold[t] = "none"
    /\ \A r \in Requests : JobHonest(job[r])
    /\ FreshApart
    /\ WritesHonest

-----------------------------------------------------------------------------
(* Delivery versus payment.                                                 *)

LEMMA InitDvpInv == Init => DvpInv
BY DEF Init, DvpInv, DeliveredImpliesPaid, SettledMeansBothLegs, JobHonest,
       FreshApart, WritesHonest, Fresh, IdleJob, NoRow

(* A step of one request that lands nothing outside.                        *)
LEMMA StepDvpInv ==
    ASSUME TypeInv, DvpInv, NEW r \in Requests, NEW j \in Job,
           NEW writes \in Seq(Write), GoOn(r, j, writes), UNCHANGED chain,
           \A t \in Trades : /\ Exists(t)' = Exists(t)
                             /\ row'[t].status = "settled" => row[t].status = "settled",
           JobHonest(j),
           Fresh(j) => \A s \in Requests \ {r} :
                           Fresh(job[s]) => job[s].trade # j.trade,
           \A k \in 1..Len(writes) :
               writes[k].op \in {"settled", "paidSettled"} =>
                   hold[writes[k].trade] = "executed" /\ CashMoved(writes[k].trade)
    PROVE  DvpInv'
<1>1. /\ job' = [job EXCEPT ![r] = j] /\ todo' = writes
      /\ UNCHANGED <<owner, hold, vault, payout, paid>>
      /\ \A s \in Requests : job'[s] = IF s = r THEN j ELSE job[s]
  BY DEF GoOn, chain, TypeInv, TypeOK
<1>2. (DeliveredImpliesPaid /\ SettledMeansBothLegs)'
  BY <1>1 DEF DvpInv, DeliveredImpliesPaid, SettledMeansBothLegs, CashMoved
<1>3. (\A t \in Trades : ~Exists(t) => hold[t] = "none")'
  BY <1>1 DEF DvpInv
<1>4. (\A s \in Requests : JobHonest(job[s]))'
  BY <1>1 DEF DvpInv, JobHonest
<1>5. FreshApart'
  BY <1>1 DEF DvpInv, FreshApart
<1>6. WritesHonest'
  BY <1>1 DEF WritesHonest, CashMoved
<1> QED
  BY <1>2, <1>3, <1>4, <1>5, <1>6 DEF DvpInv

(* What the next store write does to a row.                                 *)
LEMMA RowAfterWrite ==
    ASSUME TypeInv, StoreWrite, NEW t \in Trades
    PROVE  LET w == Head(todo) IN
           /\ t = w.trade /\ w.op \in RowOps => row'[t] = Patched(row[t], w)
           /\ t = w.trade /\ w.op \in {"settled", "paidSettled"} =>
                  row'[t] = Settled(row[t], w)
           /\ t # w.trade \/ w.op \notin RowOps \cup {"settled", "paidSettled"} =>
                  /\ row'[t].status = row[t].status
                  /\ row'[t].rail = row[t].rail
           /\ w \in Write /\ w.trade \in Trades /\ w = todo[1] /\ row[t] \in Row
           /\ 1 \in 1..Len(todo)
           /\ w.op # "insert" => Exists(w.trade)
<1> DEFINE w == Head(todo)
<1>1. todo # <<>> /\ todo' = Tail(todo)
  BY DEF StoreWrite
<1>2. /\ w \in Write /\ w.trade \in Trades /\ w = todo[1]
      /\ 1 \in 1..Len(todo)
      /\ w.op # "insert" => Exists(w.trade)
  <2>1. Len(todo) \in Nat /\ Len(todo) > 0
    BY <1>1, EmptySeq DEF TypeInv, TypeOK
  <2> QED
    BY <1>1, <2>1, NextWrite DEF Write
<1>3. row \in [Trades -> Row]
  BY DEF TypeInv, TypeOK
<1>4. \/ WriteTrade(w) \/ WriteSettled(w) \/ WriteRelease(w) \/ WriteSold(w)
      \/ WriteQuote(w) \/ WriteHandOver(w)
  BY DEF StoreWrite
<1> HIDE DEF w
<1>5. CASE WriteTrade(w)
  <2>1. row' = [row EXCEPT ![w.trade] = Patched(row[w.trade], w)] /\ w.op \in RowOps
    BY <1>5 DEF WriteTrade
  <2>2. w.op \notin {"settled", "paidSettled"}
    BY <2>1 DEF RowOps
  <2> QED
    BY <1>2, <1>3, <2>1, <2>2 DEF w
<1>6. CASE WriteSettled(w)
  <2>1. /\ row' = [row EXCEPT ![w.trade] = Settled(row[w.trade], w)]
        /\ w.op \in {"settled", "paidSettled"}
    BY <1>6 DEF WriteSettled
  <2>2. w.op \notin RowOps
    BY <2>1 DEF RowOps
  <2> QED
    BY <1>2, <1>3, <2>1, <2>2 DEF w
<1>7. CASE WriteRelease(w) \/ WriteSold(w) \/ WriteQuote(w)
  <2>1. /\ row' = row
        /\ w.op \in {"release", "sold", "accepted", "expired"}
    BY <1>7 DEF WriteRelease, WriteSold, WriteQuote
  <2> QED
    BY <1>2, <1>3, <2>1 DEF w, RowOps
<1>8. CASE WriteHandOver(w)
  <2> DEFINE previous == HolderAmong(w.terms.invoice, Trades \ {w.trade})
  <2>1. /\ w.op = "handover"
        /\ row' = row \/ row' = [row EXCEPT ![previous].superseded = TRUE]
    BY <1>8 DEF WriteHandOver
  <2> HIDE DEF previous
  <2>2. row'[t].status = row[t].status /\ row'[t].rail = row[t].rail
    BY <1>3, <2>1 DEF Row
  <2> QED
    BY <1>2, <1>3, <2>1, <2>2 DEF w, RowOps
<1> QED
  BY <1>4, <1>5, <1>6, <1>7, <1>8

LEMMA StoreWriteDvpInv == TypeInv /\ DvpInv /\ StoreWrite => DvpInv'
<1> SUFFICES ASSUME TypeInv, DvpInv, StoreWrite PROVE DvpInv'
  OBVIOUS
<1> DEFINE w == Head(todo)
<1>1. /\ todo # <<>> /\ todo' = Tail(todo)
      /\ UNCHANGED <<job, owner, hold, vault, payout, paid>>
  BY DEF StoreWrite, chain
<1>2. /\ w \in Write /\ w.trade \in Trades /\ w = todo[1]
      /\ \A k \in 1..Len(todo') : k + 1 \in 1..Len(todo) /\ todo'[k] = todo[k + 1]
      /\ 1 \in 1..Len(todo)
  <2>1. Len(todo) \in Nat /\ Len(todo) > 0
    BY <1>1, EmptySeq DEF TypeInv, TypeOK
  <2> QED
    BY <1>1, <2>1, NextWrite DEF Write
<1>4. \A t \in Trades :
          row'[t].status = "settled" =>
              \/ row[t].status = "settled"
              \/ t = w.trade /\ w.op \in {"settled", "paidSettled"}
  <2> SUFFICES ASSUME NEW t \in Trades, row'[t].status = "settled",
                      row[t].status # "settled"
               PROVE  t = w.trade /\ w.op \in {"settled", "paidSettled"}
    OBVIOUS
  <2>1. w.op \in RowOps => Patched(row[t], w).status # "settled"
    BY RowAfterWrite DEF Patched, RowOps, Row, NoRow
  <2> HIDE DEF w
  <2> QED
    BY <2>1, RowAfterWrite DEF w
<1>5. w.op \in {"settled", "paidSettled"} =>
          hold[w.trade] = "executed" /\ CashMoved(w.trade)
  BY <1>2 DEF DvpInv, WritesHonest
<1>6. \A t \in Trades : Exists(t) => Exists(t)'
  <2> SUFFICES ASSUME NEW t \in Trades, Exists(t) PROVE row'[t].status # "none"
    BY DEF Exists
  <2>1. w.op \in RowOps => Patched(row[t], w).status # "none"
    BY RowAfterWrite, PatchedRow DEF Exists
  <2>2. Settled(row[t], w).status = "settled"
    BY RowAfterWrite DEF Settled, Row
  <2> HIDE DEF w
  <2> QED
    BY <2>1, <2>2, RowAfterWrite DEF w, Exists
<1> HIDE DEF w
<1>7. (DeliveredImpliesPaid /\ SettledMeansBothLegs)'
  BY <1>1, <1>4, <1>5
     DEF DvpInv, DeliveredImpliesPaid, SettledMeansBothLegs, CashMoved
<1>8. (\A t \in Trades : ~Exists(t) => hold[t] = "none")'
  BY <1>1, <1>6 DEF DvpInv
<1>9. (\A s \in Requests : JobHonest(job[s]))' /\ FreshApart'
  BY <1>1 DEF DvpInv, JobHonest, FreshApart, Fresh
<1>10. WritesHonest'
  <2> SUFFICES ASSUME NEW k \in 1..Len(todo'),
                      todo'[k].op \in {"settled", "paidSettled"}
               PROVE  (hold[todo[k].trade] = "executed" /\ CashMoved(todo[k].trade))'
    BY DEF WritesHonest
  <2> QED
    BY <1>1, <1>2 DEF DvpInv, WritesHonest, CashMoved
<1> QED
  BY <1>7, <1>8, <1>9, <1>10 DEF DvpInv

(* A request that moves on and writes nothing.                              *)
LEMMA MoveDvpInv ==
    ASSUME TypeInv, DvpInv, NEW r \in Requests, NEW j \in Job,
           GoOn(r, j, <<>>), UNCHANGED <<rows, chain>>,
           JobHonest(j),
           Fresh(j) => Fresh(job[r]) /\ job[r].trade = j.trade
    PROVE  DvpInv'
<1> DEFINE writes == <<>>
<1>1. writes \in Seq(Write) /\ \A k \in 1..Len(writes) : FALSE
  BY EmptySeq
<1>2. GoOn(r, j, writes)
  OBVIOUS
<1> HIDE DEF writes
<1>3. \A t \in Trades : /\ Exists(t)' = Exists(t)
                        /\ row'[t].status = "settled" => row[t].status = "settled"
  BY DEF Exists, rows
<1>4. Fresh(j) => \A s \in Requests \ {r} :
                      Fresh(job[s]) => job[s].trade # j.trade
  BY DEF DvpInv, FreshApart
<1> QED
  BY <1>1, <1>2, <1>3, <1>4, StepDvpInv

(* A request that moves on to an await past its hold, or ends, queueing     *)
(* writes of its trade.                                                     *)
LEMMA QueueDvpInv ==
    ASSUME TypeInv, DvpInv, NEW r \in Requests, NEW j \in Job,
           NEW ops \in Seq(WriteOps), NEW t \in Trades, NEW terms \in Terms,
           GoOn(r, j, Writes(ops, t, terms)), UNCHANGED <<rows, chain>>,
           JobHonest(j), ~Fresh(j),
           \A k \in 1..Len(ops) :
               ops[k] \in {"settled", "paidSettled"} =>
                   hold[t] = "executed" /\ CashMoved(t)
    PROVE  DvpInv'
<1> DEFINE writes == Writes(ops, t, terms)
<1>1. /\ writes \in Seq(Write) /\ Len(writes) = Len(ops)
      /\ \A k \in 1..Len(writes) : writes[k].op = ops[k] /\ writes[k].trade = t
  BY WritesTyped
<1>2. GoOn(r, j, writes)
  OBVIOUS
<1> HIDE DEF writes
<1>3. \A u \in Trades : /\ Exists(u)' = Exists(u)
                        /\ row'[u].status = "settled" => row[u].status = "settled"
  BY DEF Exists, rows
<1> QED
  BY <1>1, <1>2, <1>3, StepDvpInv

(* An ended, sweeping or unwinding request relies on nothing.               *)
LEMMA UnwindDvpInv ==
    ASSUME TypeInv, DvpInv, NEW r \in Requests, todo = <<>>,
           NEW t \in Trades, Exists(t),
           NEW batch \in SUBSET Trades, NEW after \in Handlers,
           Unwind(r, t, batch, after), UNCHANGED <<rows, chain>>
    PROVE  DvpInv'
<1>1. ASSUME NEW j \in Job, j.pc \in Handlers \cup {"reclaim", "releaseHold"}
      PROVE  JobHonest(j) /\ ~Fresh(j)
  BY <1>1 DEF JobHonest, Fresh, Handlers
<1> DEFINE j == Swept(batch, after)
           ops == <<"release", "unwound", "expired">>
<1>2. j \in Job /\ JobHonest(j) /\ ~Fresh(j)
  BY <1>1, SweptJob
<1>3. /\ ops \in Seq(WriteOps)
      /\ \A k \in 1..Len(ops) : ops[k] \notin {"settled", "paidSettled"}
      /\ UnwindWrites(t) = Writes(ops, t, TermsOf(t))
  BY DEF UnwindWrites, WriteOps
<1>4. TermsOf(t) \in Terms
  BY DEF TypeInv, WellFormed, TermsOf
<1> HIDE DEF j, ops
<1>5. CASE GoOn(r, j, <<>>)
  BY <1>2, <1>5, MoveDvpInv
<1>6. CASE GoOn(r, j, UnwindWrites(t))
  BY <1>2, <1>3, <1>4, <1>6, QueueDvpInv
<1>7. CASE GoOn(r, [IdleJob EXCEPT !.pc = "releaseHold", !.trade = t,
                                   !.batch = batch, !.after = after], <<>>)
  <2> DEFINE i == [IdleJob EXCEPT !.pc = "releaseHold", !.trade = t,
                                  !.batch = batch, !.after = after]
  <2>1. i \in Job /\ i.pc = "releaseHold"
    BY DEF IdleJob, Job, Handlers, Rail, Calls
  <2>2. GoOn(r, i, <<>>)
    BY <1>7
  <2> HIDE DEF i
  <2> QED
    BY <1>1, <2>1, <2>2, MoveDvpInv
<1> QED
  BY <1>5, <1>6, <1>7 DEF Unwind, j

LEMMA ClientDvpInv ==
    ASSUME TypeInv, DvpInv, NEW r \in Requests, Client(r)
    PROVE  DvpInv'
<1>1. ASSUME NEW handler \in Handlers, Sweep(r, handler) PROVE DvpInv'
  <2> DEFINE j == Swept(Stale, handler)
  <2>1. Stale \in SUBSET Trades
    BY DEF Stale
  <2>2. j \in Job /\ j.pc \in Handlers \cup {"reclaim"}
    BY <2>1, SweptJob
  <2>3. GoOn(r, j, <<>>) /\ UNCHANGED <<rows, chain>>
    BY <1>1 DEF Sweep
  <2> HIDE DEF j
  <2> QED
    BY <2>2, <2>3, MoveDvpInv DEF JobHonest, Fresh, Handlers
<1>2. ASSUME NEW i \in Invoices, Delist(r, i) PROVE DvpInv'
  <2> DEFINE writes == <<>>
  <2>1. writes \in Seq(Write) /\ \A k \in 1..Len(writes) : FALSE
    BY EmptySeq
  <2>2. GoOn(r, IdleJob, writes) /\ UNCHANGED <<row, chain>>
    BY <1>2 DEF Delist
  <2>3. \A t \in Trades : /\ Exists(t)' = Exists(t)
                          /\ row'[t].status = "settled" => row[t].status = "settled"
    BY <2>2 DEF Exists
  <2>4. JobHonest(IdleJob) /\ ~Fresh(IdleJob) /\ IdleJob \in Job
    BY IdleJobTyped DEF JobHonest, Fresh
  <2> HIDE DEF writes
  <2> QED
    BY <2>1, <2>2, <2>3, <2>4, StepDvpInv
<1>3. ASSUME NEW j \in Job, j.pc \in {"gate", "requirements"},
             GoOn(r, j, <<>>), UNCHANGED <<rows, chain>>
      PROVE  DvpInv'
  BY <1>3, MoveDvpInv DEF JobHonest, Fresh
<1>4. ASSUME NEW i \in Invoices, NEW q \in Quotes, NEW m \in Mandates,
             NEW price \in Prices, ArmTrade(r, i, q, m, price)
      PROVE  DvpInv'
  <2> DEFINE terms == [invoice |-> i, quote |-> q, mandate |-> m,
                       seller |-> PartyHolding(i), price |-> price]
             j == [IdleJob EXCEPT !.pc = "gate", !.terms = terms]
  <2>1. GoOn(r, j, <<>>) /\ UNCHANGED <<rows, chain>> /\ j.pc = "gate"
    BY <1>4 DEF ArmTrade, IdleJob
  <2>2. j \in Job
    <3>1. TypeInv' /\ job' = [job EXCEPT ![r] = j]
      BY <2>1, ClientTypeInv DEF GoOn
    <3> HIDE DEF j
    <3> QED
      BY <3>1 DEF TypeInv, TypeOK
  <2> HIDE DEF j
  <2> QED
    BY <1>3, <2>1, <2>2
<1>5. ASSUME NEW t \in Trades, NEW p \in Payments, Pay(r, t, p) PROVE DvpInv'
  <2> DEFINE j == [IdleJob EXCEPT !.pc = "requirements", !.trade = t,
                                  !.terms = TermsOf(t), !.payment = p]
  <2>1. GoOn(r, j, <<>>) /\ UNCHANGED <<rows, chain>> /\ j.pc = "requirements"
    BY <1>5 DEF Pay, IdleJob
  <2>2. j \in Job
    <3>1. TypeInv' /\ job' = [job EXCEPT ![r] = j]
      BY <2>1, ClientTypeInv DEF GoOn
    <3> HIDE DEF j
    <3> QED
      BY <3>1 DEF TypeInv, TypeOK
  <2> HIDE DEF j
  <2> QED
    BY <1>3, <2>1, <2>2
<1>6. ASSUME NEW t \in Trades, AskUnwind(r, t) PROVE DvpInv'
  <2>1. /\ Unwind(r, t, {}, "idle") /\ UNCHANGED <<rows, chain>>
        /\ todo = <<>> /\ Exists(t)
    BY <1>6 DEF AskUnwind, Running
  <2> QED
    BY <2>1, UnwindDvpInv DEF Handlers
<1> QED
  BY <1>1, <1>2, <1>4, <1>5, <1>6 DEF Client

LEMMA HandlerDvpInv ==
    ASSUME TypeInv, DvpInv, NEW r \in Requests, Handler(r)
    PROVE  DvpInv'
<1> DEFINE Same == UNCHANGED <<rows, chain>>
           t == job[r].trade
           Plain(ops) == /\ ops \in Seq(WriteOps)
                         /\ \A k \in 1..Len(ops) : ops[k] \notin {"settled", "paidSettled"}
<1>1. todo = <<>>
  BY DEF Handler, Reclaim, GateAdmits, Refuse, GateRefuses, ReadFails, CallFails,
         ChooseRail, PositionRead, HoldAnswered, ChallengeBuilt, MatchAnswered,
         PayoutAnswered, DeliverAnswered, RequirementsBuilt, RequirementsFail,
         Verified, NotVerified, SettleAnswered, SettleDeclined, SettleFails,
         PaidDeliveryAnswered, ReleaseAnswered, Heard, Running
<1>2. /\ job[r] \in Job
      /\ job[r].pc \in Carrying => job[r].terms \in Terms
      /\ job[r].pc \in Numbered => t \in Trades /\ Exists(t)
      /\ \A u \in job[r].batch : u \in Trades /\ Exists(u)
  BY <1>1, Formed
<1>3. JobHonest(job[r])
  BY DEF DvpInv
<1>4. \A pc \in Reads \cup Calls :
          /\ At(r, pc) \in Job /\ At(r, pc).pc = pc
          /\ At(r, pc).heard = "nothing" /\ At(r, pc).trade = t
  BY <1>2, AtJob
<1>5. IdleJob \in Job /\ JobHonest(IdleJob) /\ ~Fresh(IdleJob)
  BY IdleJobTyped DEF JobHonest, Fresh
<1>6. ASSUME NEW ops, Plain(ops), NEW j \in Job, JobHonest(j), ~Fresh(j), Same,
             job[r].pc \in Carrying \cap Numbered, GoOn(r, j, Do(r, ops))
      PROVE  DvpInv'
  BY <1>2, <1>6, QueueDvpInv DEF Do
<1> HIDE DEF t
<1>7. ASSUME UnwindPaid(r), Same, job[r].pc \in Numbered PROVE DvpInv'
  BY <1>1, <1>2, <1>7, UnwindDvpInv DEF UnwindPaid, Handlers, t
<1>8. ASSUME NEW u \in Trades, Reclaim(r, u) PROVE DvpInv'
  <2>1. job[r].batch \ {u} \in SUBSET Trades /\ job[r].after \in Handlers
    BY <1>2 DEF Job
  <2> QED
    BY <1>1, <1>2, <1>8, <2>1, UnwindDvpInv DEF Reclaim
<1>9. ASSUME NEW u \in Trades, GateAdmits(r, u) PROVE DvpInv'
  <2> DEFINE j == [job[r] EXCEPT !.pc = "rail", !.trade = u]
             ops == <<"insert">>
             writes == Writes(ops, u, job[r].terms)
  <2>1. /\ GoOn(r, j, writes) /\ UNCHANGED <<row, chain>>
        /\ ~Exists(u) /\ job[r].pc = "gate"
    BY <1>9 DEF GateAdmits, IsNext, Running
  <2>2. j \in Job /\ j.pc = "rail" /\ j.trade = u
    BY <1>2 DEF Job, Reads
  <2>3. /\ writes \in Seq(Write)
        /\ \A k \in 1..Len(writes) : writes[k].op \notin {"settled", "paidSettled"}
    <3>1. ops \in Seq(WriteOps) /\ Len(ops) = 1 /\ ops[1] = "insert"
      BY DEF WriteOps
    <3>2. job[r].terms \in Terms
      BY <1>2, <2>1 DEF Carrying, Reads, Calls
    <3> HIDE DEF ops
    <3> QED
      BY <3>1, <3>2, WritesTyped
  <2>4. hold[u] = "none"
    BY <2>1 DEF DvpInv
  <2>5. ASSUME NEW s \in Requests, Fresh(job[s]) PROVE job[s].trade # u
    <3>1. job[s].pc \in Numbered
      BY <2>5 DEF Fresh, Numbered, Reads, Calls
    <3> QED
      BY <1>1, <2>1, <3>1, Formed
  <2> HIDE DEF j, writes
  <2>6. JobHonest(j)
    BY <2>2, <2>4 DEF JobHonest
  <2>7. \A v \in Trades : /\ Exists(v)' = Exists(v)
                          /\ row'[v].status = "settled" => row[v].status = "settled"
    BY <2>1 DEF Exists
  <2> QED
    BY <2>1, <2>2, <2>3, <2>5, <2>6, <2>7, StepDvpInv
<1>10. CASE Refuse(r) \/ GateRefuses(r) \/ RequirementsFail(r)
  BY <1>5, <1>10, MoveDvpInv DEF Refuse, GateRefuses, RequirementsFail
<1>11. CASE ReadFails(r) \/ CallFails(r)
  <2>1. Plain(<<"release", "failed">>)
    BY DEF WriteOps
  <2>2. /\ GoOn(r, IdleJob, Do(r, <<"release", "failed">>)) /\ Same
        /\ job[r].pc \in Carrying \cap Numbered
    BY <1>11 DEF ReadFails, CallFails, Abandon, Heard, Running, Carrying, Numbered,
                 Reads, Calls
  <2> HIDE DEF Plain
  <2> QED
    BY <1>5, <1>6, <2>1, <2>2
<1>12. ASSUME NEW rail \in {"x402", "arc-vault"}, ChooseRail(r, rail) PROVE DvpInv'
  <2> DEFINE j == [At(r, "position") EXCEPT !.rail = rail]
  <2>1. /\ GoOn(r, j, <<>>) /\ Same /\ job[r].pc = "rail"
    BY <1>12 DEF ChooseRail, Running
  <2>2. j \in Job /\ j.pc = "position" /\ j.trade = t
    BY <1>4 DEF Job, Rail, Reads, t
  <2> HIDE DEF j
  <2> QED
    BY <1>3, <2>1, <2>2, MoveDvpInv DEF JobHonest, Fresh, t
<1>13. CASE PositionRead(r)
  <2> DEFINE j == At(r, "createHold")
  <2>1. GoOn(r, j, <<>>) /\ Same /\ job[r].pc = "position"
    BY <1>13 DEF PositionRead, Running
  <2>2. j \in Job /\ j.pc = "createHold" /\ j.trade = t
    BY <1>4 DEF Calls
  <2> HIDE DEF j
  <2> QED
    BY <1>3, <2>1, <2>2, MoveDvpInv DEF JobHonest, Fresh, t
<1>14. CASE HoldAnswered(r)
  <2>1. Plain(<<"armedVault">>)
    BY DEF WriteOps
  <2>2. /\ \/ GoOn(r, At(r, "challenge"), <<>>)
           \/ GoOn(r, At(r, "register"), Do(r, <<"armedVault">>))
        /\ Same /\ job[r].pc \in Carrying \cap Numbered
    BY <1>14 DEF HoldAnswered, Heard, Running, Carrying, Numbered, Reads, Calls
  <2>3. \A pc \in {"challenge", "register"} :
            At(r, pc) \in Job /\ JobHonest(At(r, pc)) /\ ~Fresh(At(r, pc))
    BY <1>4 DEF JobHonest, Fresh, Reads, Calls
  <2> HIDE DEF Plain
  <2> QED
    BY <1>6, <2>1, <2>2, <2>3, MoveDvpInv
<1>15. CASE ChallengeBuilt(r)
  <2>1. Plain(<<"armed">>)
    BY DEF WriteOps
  <2>2. /\ GoOn(r, IdleJob, Do(r, <<"armed">>)) /\ Same
        /\ job[r].pc \in Carrying \cap Numbered
    BY <1>15 DEF ChallengeBuilt, Running, Carrying, Numbered, Reads, Calls
  <2> HIDE DEF Plain
  <2> QED
    BY <1>5, <1>6, <2>1, <2>2
<1>16. CASE MatchAnswered(r) \/ RequirementsBuilt(r) \/ Verified(r)
  <2>1. /\ \/ \E pc \in {"payout", "verify", "settle"} : GoOn(r, At(r, pc), <<>>)
           \/ UnwindPaid(r)
        /\ Same /\ job[r].pc \in Numbered
    BY <1>16 DEF MatchAnswered, RequirementsBuilt, Verified, Heard, Running,
                 Numbered, Reads, Calls
  <2>2. \A pc \in {"payout", "verify", "settle"} :
            At(r, pc) \in Job /\ JobHonest(At(r, pc)) /\ ~Fresh(At(r, pc))
    BY <1>4 DEF JobHonest, Fresh, Reads, Calls
  <2> QED
    BY <1>7, <2>1, <2>2, MoveDvpInv
<1>17. CASE PayoutAnswered(r)
  <2> DEFINE j == At(r, "deliver")
             ops == <<"locked", "sold", "accepted", "handover">>
  <2>1. Plain(ops)
    BY DEF WriteOps
  <2>2. /\ GoOn(r, j, Do(r, ops)) /\ Same
        /\ job[r].pc = "payout" /\ job[r].heard = "ok"
    BY <1>17 DEF PayoutAnswered, Heard, Running
  <2>3. /\ j \in Job /\ j.pc = "deliver" /\ j.trade = t /\ j.heard = "nothing"
        /\ job[r].pc \in Carrying \cap Numbered
    BY <1>4, <2>2 DEF Calls, Reads, Carrying, Numbered
  <2> HIDE DEF j, ops, Plain
  <2>4. JobHonest(j) /\ ~Fresh(j)
    BY <1>3, <2>2, <2>3 DEF JobHonest, Fresh, t
  <2> QED
    BY <1>6, <2>1, <2>2, <2>3, <2>4
<1>18. CASE SettleAnswered(r)
  <2> DEFINE j == At(r, "deliverPaid")
  <2>1. /\ GoOn(r, j, <<>>) /\ Same
        /\ job[r].pc = "settle" /\ job[r].heard = "ok"
    BY <1>18 DEF SettleAnswered, Heard, Running
  <2>2. j \in Job /\ j.pc = "deliverPaid" /\ j.trade = t /\ j.heard = "nothing"
    BY <1>4 DEF Calls
  <2> HIDE DEF j
  <2> QED
    BY <1>3, <2>1, <2>2, MoveDvpInv DEF JobHonest, Fresh, t
<1>19. CASE DeliverAnswered(r) \/ PaidDeliveryAnswered(r)
  <2>1. Plain(<<"failed">>) /\ Plain(<<"paidFailed">>)
    BY DEF WriteOps
  <2>2. /\ <<"settled">> \in Seq(WriteOps)
        /\ <<"paidSettled", "accepted", "sold", "handover">> \in Seq(WriteOps)
    BY DEF WriteOps
  <2>3. /\ job[r].pc \in {"deliver", "deliverPaid"} /\ Same
        /\ \/ GoOn(r, IdleJob, Do(r, <<"failed">>))
           \/ GoOn(r, IdleJob, Do(r, <<"paidFailed">>))
           \/ /\ job[r].heard = "ok"
              /\ \/ GoOn(r, IdleJob, Do(r, <<"settled">>))
                 \/ GoOn(r, IdleJob,
                         Do(r, <<"paidSettled", "accepted", "sold", "handover">>))
    BY <1>19 DEF DeliverAnswered, PaidDeliveryAnswered, Heard, Running
  <2>4. job[r].pc \in Carrying \cap Numbered
    BY <2>3 DEF Carrying, Numbered, Reads, Calls
  <2>5. job[r].heard = "ok" => hold[t] = "executed" /\ CashMoved(t)
    BY <1>3, <2>3 DEF JobHonest, CashMoved, t
  <2>6. ASSUME NEW ops \in Seq(WriteOps), job[r].heard = "ok",
               GoOn(r, IdleJob, Do(r, ops))
        PROVE  DvpInv'
    BY <1>2, <1>5, <2>3, <2>4, <2>5, <2>6, QueueDvpInv DEF Do, t
  <2> HIDE DEF Plain
  <2> QED
    BY <1>5, <1>6, <2>1, <2>2, <2>3, <2>4, <2>6
<1>20. CASE NotVerified(r) \/ SettleFails(r)
  BY <1>7, <1>20
     DEF NotVerified, SettleFails, Heard, Running, Numbered, Reads, Calls
<1>21. CASE SettleDeclined(r)
  <2> DEFINE writes == <<>>
             j == [IdleJob EXCEPT !.pc = "releaseHold", !.trade = t]
  <2>1. /\ GoOn(r, IdleJob, writes) \/ GoOn(r, j, writes)
        /\ row' = [row EXCEPT ![t].status = "failed"]
        /\ UNCHANGED chain /\ job[r].pc = "settle"
    BY <1>21 DEF SettleDeclined, Heard, Running, t
  <2>2. t \in Trades /\ Exists(t) /\ row \in [Trades -> Row]
    BY <1>2, <2>1 DEF Numbered, Calls, TypeInv, TypeOK
  <2>3. j \in Job /\ JobHonest(j) /\ ~Fresh(j)
    <3>1. j \in Job /\ j.pc = "releaseHold"
      BY <2>2 DEF IdleJob, Job, Handlers, Rail, Calls
    <3> QED
      BY <3>1 DEF JobHonest, Fresh
  <2>4. writes \in Seq(Write) /\ \A k \in 1..Len(writes) : FALSE
    BY EmptySeq
  <2>5. \A u \in Trades : /\ Exists(u)' = Exists(u)
                          /\ row'[u].status = "settled" => row[u].status = "settled"
    BY <2>1, <2>2 DEF Exists, Row
  <2> HIDE DEF writes, j
  <2> QED
    BY <1>5, <2>1, <2>3, <2>4, <2>5, StepDvpInv
<1>22. CASE ReleaseAnswered(r)
  <2> DEFINE j == Swept(job[r].batch, job[r].after)
             ops == <<"release", "unwound", "expired">>
  <2>1. /\ Same /\ job[r].pc = "releaseHold"
        /\ GoOn(r, j, <<>>) \/ GoOn(r, j, Writes(ops, t, TermsOf(t)))
    BY <1>22 DEF ReleaseAnswered, Heard, Running, UnwindWrites, t
  <2>2. t \in Trades /\ TermsOf(t) \in Terms
    BY <1>2, <2>1 DEF Numbered, Calls, TypeInv, WellFormed, TermsOf
  <2>3. j \in Job /\ JobHonest(j) /\ ~Fresh(j)
    <3>1. job[r].batch \in SUBSET Trades /\ job[r].after \in Handlers
      BY <1>2 DEF Job
    <3>2. j \in Job /\ j.pc \in Handlers \cup {"reclaim"}
      BY <3>1, SweptJob
    <3> QED
      BY <3>2 DEF JobHonest, Fresh, Handlers
  <2>4. Plain(ops)
    BY DEF WriteOps
  <2> HIDE DEF j, ops
  <2> QED
    BY <2>1, <2>2, <2>3, <2>4, MoveDvpInv, QueueDvpInv
<1> QED
  BY <1>8, <1>9, <1>10, <1>11, <1>12, <1>13, <1>14, <1>15, <1>16, <1>17, <1>18,
     <1>19, <1>20, <1>21, <1>22 DEF Handler

(* A call that lands only adds to what moved, and the hold of a trade is    *)
(* placed once.                                                             *)
LEMMA OutsideDvpInv ==
    ASSUME TypeInv, DvpInv, NEW r \in Requests, Outside(r)
    PROVE  DvpInv'
<1> DEFINE t == job[r].trade
           Moved == paid'[t] # {} \/ payout'[t] = "executed"
<1>1. /\ UNCHANGED <<row, todo>> /\ todo = <<>>
      /\ \E pc \in Calls : job[r].pc = pc
      /\ job[r].heard = "nothing"
  BY DEF Outside, CallRefused, PaymentDeclined, HoldCreated, HoldExecuted,
         HoldReleased, MatchRegistered, PayoutExecuted, PaymentSettled, Landed,
         Answer, Waiting, Heard, Running, Calls, rows
<1>2. \E answer \in {"ok", "error", "declined"} :
          job' = [job EXCEPT ![r].heard = answer]
  BY DEF Outside, CallRefused, PaymentDeclined, HoldCreated, HoldExecuted,
         HoldReleased, MatchRegistered, PayoutExecuted, PaymentSettled, Landed,
         Answer
<1>3. t \in Trades /\ Exists(t)
  BY <1>1, Formed DEF Numbered
<1>4. /\ \A s \in Requests : /\ job'[s].pc = job[s].pc
                             /\ job'[s].trade = job[s].trade
      /\ \A s \in Requests \ {r} : job'[s] = job[s]
      /\ job'[r].heard # "nothing"
  <2>1. job \in [Requests -> Job]
    BY DEF TypeInv, TypeOK
  <2> QED
    BY <1>2, <2>1 DEF Job
<1>5. /\ hold \in [Trades -> HoldState]
      /\ payout \in [Trades -> PayoutState]
      /\ paid \in [Trades -> SUBSET Payments]
  BY DEF TypeInv, TypeOK
<1>6. /\ \A s \in Requests : JobHonest(job[s])
      /\ DeliveredImpliesPaid /\ SettledMeansBothLegs /\ FreshApart
      /\ \A u \in Trades : ~Exists(u) => hold[u] = "none"
  BY DEF DvpInv
<1> HIDE DEF t
(* What any landing call must respect.                                      *)
<1>7. ASSUME \A u \in Trades : payout[u] = "executed" => payout'[u] = "executed",
             \A u \in Trades : paid[u] \subseteq paid'[u],
             \A u \in Trades : hold[u] = "executed" => hold'[u] = "executed",
             \A u \in Trades \ {t} : hold'[u] = hold[u],
             hold'[t] # hold[t] => Fresh(job[r]) \/ hold[t] # "none",
             hold'[t] = "executed" => Moved,
             JobHonest(job[r])'
      PROVE  DvpInv'
  <2>1. \A u \in Trades : CashMoved(u) => CashMoved(u)'
    BY <1>7 DEF CashMoved
  <2>2. DeliveredImpliesPaid'
    BY <1>3, <1>6, <1>7, <2>1 DEF DeliveredImpliesPaid, CashMoved
  <2>3. SettledMeansBothLegs'
    BY <1>1, <1>6, <1>7, <2>1 DEF SettledMeansBothLegs
  <2>4. (\A u \in Trades : ~Exists(u) => hold[u] = "none")'
    BY <1>1, <1>3, <1>6, <1>7 DEF Exists
  <2>5. ASSUME NEW s \in Requests, s # r PROVE JobHonest(job[s])'
    <3>1. job'[s] = job[s] /\ JobHonest(job[s])
      BY <1>4, <1>6, <2>5
    <3>2. job[s].pc \in {"deliver", "payout", "deliverPaid", "settle"}
             => job[s].trade \in Trades
      BY <1>1, Formed DEF Numbered, Calls
    <3>3. Fresh(job[s]) => job[s].trade \in Trades
      BY <1>1, Formed DEF Fresh, Numbered, Calls, Reads
    <3>4. Fresh(job[s]) => hold'[job[s].trade] = "none"
      <4> SUFFICES ASSUME Fresh(job[s]) PROVE hold'[job[s].trade] = "none"
        OBVIOUS
      <4>1. hold[job[s].trade] = "none"
        BY <3>1 DEF JobHonest
      <4>2. CASE job[s].trade = t
        <5>1. ~Fresh(job[r])
          BY <1>6, <2>5, <4>2 DEF FreshApart, t
        <5> QED
          BY <1>7, <4>1, <4>2, <5>1
      <4>3. CASE job[s].trade # t
        BY <1>7, <3>3, <4>1, <4>3
      <4> QED
        BY <4>2, <4>3
    <3> QED
      BY <1>7, <3>1, <3>2, <3>4 DEF JobHonest
  <2>6. (\A s \in Requests : JobHonest(job[s]))'
    BY <1>7, <2>5
  <2>7. FreshApart'
    BY <1>4, <1>6 DEF FreshApart, Fresh
  <2>8. WritesHonest'
    BY <1>1 DEF WritesHonest
  <2> QED
    BY <2>2, <2>3, <2>4, <2>6, <2>7, <2>8 DEF DvpInv
<1>8. /\ job[r].pc \in {"rail", "position"} => FALSE
      /\ ~Fresh(job'[r])
  BY <1>1, <1>4 DEF Calls, Fresh
<1>9. /\ job[r].pc = "deliver" => payout[t] = "executed"
      /\ job[r].pc = "deliverPaid" => paid[t] # {}
  BY <1>6 DEF JobHonest, t
<1>10. CASE CallRefused(r) \/ PaymentDeclined(r)
  <2>1. UNCHANGED <<hold, payout, paid>> /\ job'[r].heard \in {"error", "declined"}
    <3>1. job \in [Requests -> Job]
      BY DEF TypeInv, TypeOK
    <3> QED
      BY <1>10, <3>1 DEF CallRefused, PaymentDeclined, Answer, chain, Job
  <2>2. JobHonest(job[r])'
    BY <1>4, <1>8, <1>9, <2>1 DEF JobHonest, t
  <2>3. hold[t] = "executed" => Moved
    BY <1>3, <1>6, <2>1 DEF DeliveredImpliesPaid, CashMoved
  <2> QED
    BY <1>7, <2>1, <2>2, <2>3
<1>11. CASE HoldCreated(r)
  <2>1. /\ job[r].pc = "createHold"
        /\ hold' = [hold EXCEPT ![t] = "held"]
        /\ UNCHANGED <<payout, paid>>
    BY <1>11 DEF HoldCreated, Waiting, Heard, Running, t
  <2>2. Fresh(job[r]) /\ hold[t] = "none"
    BY <1>1, <1>6, <2>1 DEF Fresh, JobHonest, t
  <2>3. JobHonest(job[r])'
    BY <1>4, <1>8, <2>1 DEF JobHonest
  <2> QED
    BY <1>3, <1>5, <1>7, <2>1, <2>2, <2>3
<1>12. CASE HoldExecuted(r)
  <2>1. /\ job[r].pc \in {"deliver", "deliverPaid"}
        /\ hold[t] = "held" /\ hold' = [hold EXCEPT ![t] = "executed"]
        /\ UNCHANGED <<payout, paid>>
    BY <1>12 DEF HoldExecuted, Waiting, Heard, Running, t
  <2>2. Moved
    BY <1>9, <2>1 DEF CashMoved
  <2>3. JobHonest(job[r])'
    BY <1>3, <1>4, <1>5, <1>8, <1>9, <2>1 DEF JobHonest, t
  <2> QED
    BY <1>3, <1>5, <1>7, <2>1, <2>2, <2>3
<1>13. CASE HoldReleased(r)
  <2>1. /\ job[r].pc = "releaseHold"
        /\ hold[t] \in {"held", "expired"}
        /\ hold' = [hold EXCEPT ![t] = "released"]
        /\ UNCHANGED <<payout, paid>>
    BY <1>13 DEF HoldReleased, Waiting, Heard, Running, t
  <2>2. JobHonest(job[r])'
    BY <1>4, <1>8, <2>1 DEF JobHonest
  <2> QED
    BY <1>3, <1>5, <1>7, <2>1, <2>2
<1>14. CASE MatchRegistered(r)
  <2>1. /\ job[r].pc = "register" /\ payout[t] = "none"
        /\ payout' = [payout EXCEPT ![t] = "registered"]
        /\ UNCHANGED <<hold, paid>>
    BY <1>14 DEF MatchRegistered, Waiting, Heard, Running, t
  <2>2. JobHonest(job[r])'
    BY <1>4, <1>8, <2>1 DEF JobHonest
  <2>3. hold[t] = "executed" => Moved
    BY <1>3, <1>6, <2>1 DEF DeliveredImpliesPaid, CashMoved
  <2> QED
    BY <1>3, <1>5, <1>7, <2>1, <2>2, <2>3
<1>15. CASE PayoutExecuted(r)
  <2>1. /\ job[r].pc = "payout" /\ payout[t] = "registered"
        /\ payout' = [payout EXCEPT ![t] = "executed"]
        /\ UNCHANGED <<hold, paid>>
    BY <1>15 DEF PayoutExecuted, Waiting, Heard, Running, t
  <2>2. Moved /\ payout'[t] = "executed"
    BY <1>3, <1>5, <2>1 DEF CashMoved
  <2>3. JobHonest(job[r])'
    BY <1>4, <1>8, <2>1, <2>2 DEF JobHonest, t
  <2> QED
    BY <1>3, <1>5, <1>7, <2>1, <2>2, <2>3
<1>16. CASE PaymentSettled(r)
  <2>1. /\ job[r].pc = "settle"
        /\ paid' = [paid EXCEPT ![t] = paid[t] \cup {job[r].payment}]
        /\ UNCHANGED <<hold, payout>>
    BY <1>16 DEF PaymentSettled, Waiting, Heard, Running, t
  <2>2. Moved /\ paid'[t] # {}
    BY <1>3, <1>5, <2>1 DEF CashMoved
  <2>3. JobHonest(job[r])'
    BY <1>4, <1>8, <2>1, <2>2 DEF JobHonest, t
  <2> QED
    BY <1>3, <1>5, <1>7, <2>1, <2>2, <2>3
<1> QED
  BY <1>10, <1>11, <1>12, <1>13, <1>14, <1>15, <1>16 DEF Outside

(* A step that is no request's leaves what moved alone, or ends the process.*)
LEMMA NextDvpInv == TypeInv /\ DvpInv /\ [Next]_vars => DvpInv'
<1> SUFFICES ASSUME TypeInv, DvpInv, [Next]_vars PROVE DvpInv'
  OBVIOUS
<1>1. CASE StoreWrite
  BY <1>1, StoreWriteDvpInv
<1>2. ASSUME NEW r \in Requests, Client(r) \/ Handler(r) \/ Outside(r)
      PROVE  DvpInv'
  BY <1>2, ClientDvpInv, HandlerDvpInv, OutsideDvpInv
<1>3. ASSUME UNCHANGED <<job, todo, hold, payout, paid>>,
             \A t \in Trades : row'[t].status = row[t].status
      PROVE  DvpInv'
  <2>1. (DeliveredImpliesPaid /\ SettledMeansBothLegs)'
    BY <1>3 DEF DvpInv, DeliveredImpliesPaid, SettledMeansBothLegs, CashMoved
  <2>2. (\A t \in Trades : ~Exists(t) => hold[t] = "none")'
    BY <1>3 DEF DvpInv, Exists
  <2>3. (\A r \in Requests : JobHonest(job[r]))' /\ FreshApart' /\ WritesHonest'
    BY <1>3 DEF DvpInv, JobHonest, FreshApart, WritesHonest, CashMoved
  <2> QED
    BY <2>1, <2>2, <2>3 DEF DvpInv
<1>4. /\ \A q \in Quotes, i \in Invoices : IssueQuote(q, i) => DvpInv'
      /\ \A i \in Invoices : List(i) => DvpInv'
  BY <1>3 DEF IssueQuote, List, chain
<1>5. ASSUME NEW t \in Trades, Age(t) PROVE DvpInv'
  <2>1. row \in [Trades -> Row]
    BY DEF TypeInv, TypeOK
  <2> QED
    BY <1>3, <1>5, <2>1 DEF Age, chain, Row
<1>6. ASSUME NEW t \in Trades, ExpireHold(t) PROVE DvpInv'
  <2>1. /\ UNCHANGED <<row, job, todo, payout, paid>> /\ todo = <<>>
        /\ hold \in [Trades -> HoldState]
        /\ \A u \in Trades : hold'[u] = IF u = t THEN "expired" ELSE hold[u]
        /\ hold[t] = "held"
    BY <1>6 DEF ExpireHold, rows, TypeInv, TypeOK
  <2>2. (DeliveredImpliesPaid /\ SettledMeansBothLegs)'
    BY <2>1 DEF DvpInv, DeliveredImpliesPaid, SettledMeansBothLegs, CashMoved
  <2>3. (\A u \in Trades : ~Exists(u) => hold[u] = "none")'
    BY <2>1 DEF DvpInv, Exists
  <2>4. ASSUME NEW r \in Requests PROVE JobHonest(job[r])'
    <3>1. job[r].pc \in {"deliver", "deliverPaid"} \/ Fresh(job[r])
             => job[r].trade \in Trades
      BY <2>1, Formed DEF Fresh, Numbered, Reads, Calls
    <3> QED
      BY <2>1, <3>1 DEF DvpInv, JobHonest
  <2>5. FreshApart' /\ WritesHonest'
    BY <2>1 DEF DvpInv, FreshApart, WritesHonest
  <2> QED
    BY <2>2, <2>3, <2>4, <2>5 DEF DvpInv
<1>7. CASE Crash
  <2>1. /\ job' = [r \in Requests |-> IdleJob] /\ todo' = <<>>
        /\ UNCHANGED <<row, hold, payout, paid>>
    BY <1>7 DEF Crash, rows, chain
  <2>2. (DeliveredImpliesPaid /\ SettledMeansBothLegs)'
    BY <2>1 DEF DvpInv, DeliveredImpliesPaid, SettledMeansBothLegs, CashMoved
  <2>3. (\A t \in Trades : ~Exists(t) => hold[t] = "none")'
    BY <2>1 DEF DvpInv, Exists
  <2>4. (\A r \in Requests : JobHonest(job[r]))' /\ FreshApart' /\ WritesHonest'
    BY <2>1, IdleJobTyped DEF JobHonest, FreshApart, WritesHonest, Fresh
  <2> QED
    BY <2>2, <2>3, <2>4 DEF DvpInv
<1>8. CASE UNCHANGED vars
  BY <1>3, <1>8 DEF vars
<1> QED
  BY <1>1, <1>2, <1>4, <1>5, <1>6, <1>7, <1>8 DEF Next

(* Paper is delivered only after the money for that very trade moved: no    *)
(* order of requests, crash or lost answer makes executeHold run first.     *)
THEOREM DeliveryAfterPayment == Spec => []DeliveredImpliesPaid
<1>1. DvpInv => DeliveredImpliesPaid
  BY DEF DvpInv
<1> QED
  BY <1>1, InitTypeInv, NextTypeInv, InitDvpInv, NextDvpInv, PTL DEF Spec

(* A row that reads settled stands for two legs that really moved, however  *)
(* late and from whichever request it was written.                          *)
THEOREM SettledIsTrue == Spec => []SettledMeansBothLegs
<1>1. DvpInv => SettledMeansBothLegs
  BY DEF DvpInv
<1> QED
  BY <1>1, InitTypeInv, NextTypeInv, InitDvpInv, NextDvpInv, PTL DEF Spec

-----------------------------------------------------------------------------
(* One rail for each trade, proved of Settlement: a trade the vault pays    *)
(* for never collects a signature, and the other way round.                 *)

(* Request j is arming trade t, or collecting its payment; writes of some   *)
(* kinds are queued for t.                                                  *)
Arming(j, t) ==
    /\ j.pc \in {"rail", "position", "createHold", "challenge",
                 "register", "payout", "deliver"}
    /\ j.trade = t
Paying(j, t) ==
    /\ j.pc \in {"requirements", "verify", "settle", "deliverPaid"}
    /\ j.trade = t
Among(writes, ops, t) ==
    \E k \in 1..Len(writes) : writes[k].op \in ops /\ writes[k].trade = t

(* The trade is paid by the vault; or a signature is collected for it.      *)
VaultSide(t) == row[t].rail = "arc-vault" \/ Among(todo, {"armedVault"}, t)
Signed(t) == \/ paid[t] # {}
             \/ Among(todo, {"paidSettled", "paidFailed"}, t)
             \/ \E r \in Requests : Paying(job[r], t)
(* The trade waits for a signature, or is about to.                         *)
Offered(t) == \/ row[t].status = "awaiting_payment" /\ row[t].rail # "arc-vault"
              \/ Among(todo, {"armed"}, t)

OnePath(t) ==
    /\ ~Exists(t) => /\ ~VaultSide(t) /\ ~Signed(t) /\ ~Offered(t)
                     /\ payout[t] = "none"
    /\ Among(todo, {"insert"}, t) => ~Exists(t)
    /\ payout[t] # "none" => row[t].rail = "arc-vault"
    /\ Signed(t) \/ Offered(t) =>
           ~VaultSide(t) /\ \A r \in Requests : ~Arming(job[r], t)
    /\ \A r \in Requests : Arming(job[r], t) =>
           (VaultSide(t) <=> job[r].pc \in {"register", "payout", "deliver"})
    /\ \A r, s \in Requests : Arming(job[r], t) /\ Arming(job[s], t) => r = s

RailInv == \A t \in Trades : OnePath(t)

-----------------------------------------------------------------------------

LEMMA InitRailInv == Init => RailInv
BY DEF Init, RailInv, OnePath, VaultSide, Signed, Offered, Among, Arming, Paying,
       Exists, NoRow, IdleJob

(* A step of one request that lands nothing outside: what it may move to,   *)
(* and what it may queue.                                                   *)
LEMMA StepRailInv ==
    ASSUME TypeInv, RailInv, NEW r \in Requests, NEW j \in Job,
           NEW writes, todo = <<>>, GoOn(r, j, writes), UNCHANGED <<payout, paid>>,
           \A t \in Trades :
               /\ Exists(t)' = Exists(t)
               /\ row'[t].rail = row[t].rail
               /\ row'[t].status = "awaiting_payment"
                      => row[t].status = "awaiting_payment"
               /\ Arming(j, t) =>
                      /\ Arming(job[r], t) \/ ~Exists(t)
                      /\ row[t].rail = "arc-vault" \/ Among(writes, {"armedVault"}, t)
                         <=> j.pc \in {"register", "payout", "deliver"}
               /\ Paying(j, t) => Paying(job[r], t) \/ Offered(t)
               /\ Among(writes, {"armedVault"}, t) => Arming(job[r], t) /\ Arming(j, t)
               /\ Among(writes, {"armed"}, t) =>
                      /\ Arming(job[r], t) /\ job[r].pc = "challenge"
                      /\ ~Arming(j, t)
               /\ Among(writes, {"paidSettled", "paidFailed"}, t) => Paying(job[r], t)
               /\ Among(writes, {"insert"}, t) => ~Exists(t)
    PROVE  RailInv'
<1> SUFFICES ASSUME NEW t \in Trades PROVE OnePath(t)'
  BY DEF RailInv
<1>1. /\ todo' = writes /\ UNCHANGED <<payout, paid>>
      /\ job'[r] = j /\ \A s \in Requests \ {r} : job'[s] = job[s]
  BY DEF GoOn, TypeInv, TypeOK
<1>2. \A ops : ~Among(todo, ops, t)
  BY DEF Among
<1>3. \A s \in Requests : Arming(job[s], t) \/ Paying(job[s], t) => Exists(t)
  BY Formed DEF Arming, Paying, Numbered, Reads, Calls
<1>4. \A i : ~(Arming(i, t) /\ Paying(i, t))
  BY DEF Arming, Paying
<1>5. OnePath(t)
  BY DEF RailInv
<1>6. VaultSide(t)' <=> VaultSide(t) \/ Among(writes, {"armedVault"}, t)
  BY <1>1, <1>2 DEF VaultSide
<1>7. Signed(t)' => Signed(t) \/ Offered(t)
  BY <1>1, <1>2 DEF Signed
<1>8. Offered(t)' => Offered(t) \/ Among(writes, {"armed"}, t)
  BY <1>1, <1>2 DEF Offered
<1>9. \A s \in Requests : Arming(job[s], t)' <=>
          IF s = r THEN Arming(j, t) ELSE Arming(job[s], t)
  BY <1>1 DEF Arming
<1>10. VaultSide(t) <=> row[t].rail = "arc-vault"
  BY <1>2 DEF VaultSide
<1>11. (~Exists(t))' => (~VaultSide(t) /\ ~Signed(t) /\ ~Offered(t)
                          /\ payout[t] = "none")'
  BY <1>1, <1>3, <1>5, <1>6, <1>7, <1>8 DEF OnePath
<1>12. Among(todo, {"insert"}, t)' => (~Exists(t))'
  BY <1>1
<1>13. (payout[t] # "none" => row[t].rail = "arc-vault")'
  BY <1>1, <1>5 DEF OnePath
<1>14. Arming(job[r], t) /\ job[r].pc = "challenge" => ~VaultSide(t)
  BY <1>5 DEF OnePath
<1>15. (Signed(t) \/ Offered(t))' => (~VaultSide(t))'
  BY <1>4, <1>5, <1>6, <1>7, <1>8, <1>14 DEF OnePath, Arming
<1>16. (Signed(t) \/ Offered(t))' => (\A s \in Requests : ~Arming(job[s], t))'
  BY <1>3, <1>5, <1>7, <1>8, <1>9 DEF OnePath
<1>17. (\A s \in Requests : Arming(job[s], t) =>
           (VaultSide(t) <=> job[s].pc \in {"register", "payout", "deliver"}))'
  <2> SUFFICES ASSUME NEW s \in Requests, Arming(job[s], t)'
               PROVE  (VaultSide(t) <=>
                          job[s].pc \in {"register", "payout", "deliver"})'
    OBVIOUS
  <2>1. CASE s = r
    BY <1>1, <1>6, <1>9, <1>10, <2>1
  <2>2. CASE s # r
    <3>1. job'[s] = job[s] /\ Arming(job[s], t)
      BY <1>1, <1>9, <2>2
    <3>2. ~Among(writes, {"armedVault"}, t)
      BY <1>5, <2>2, <3>1 DEF OnePath
    <3> QED
      BY <1>5, <1>6, <3>1, <3>2 DEF OnePath
  <2> QED
    BY <2>1, <2>2
<1>18. (\A s, u \in Requests : Arming(job[s], t) /\ Arming(job[u], t) => s = u)'
  BY <1>3, <1>5, <1>9 DEF OnePath
<1> QED
  BY <1>11, <1>12, <1>13, <1>15, <1>16, <1>17, <1>18 DEF OnePath

(* Of the writes queued for a trade only the next is carried out, and the   *)
(* others stay queued.                                                      *)
LEMMA AmongAfterWrite ==
    ASSUME TypeInv, StoreWrite, NEW ops, NEW t \in Trades
    PROVE  /\ Among(todo, ops, t)' => Among(todo, ops, t)
           /\ Among(todo, ops, t) =>
                  \/ Among(todo, ops, t)'
                  \/ Head(todo).op \in ops /\ Head(todo).trade = t
           /\ Head(todo).op \in ops /\ Head(todo).trade = t => Among(todo, ops, t)
<1>1. todo # <<>> /\ todo' = Tail(todo)
  BY DEF StoreWrite
<1>2. /\ \A k \in 1..Len(todo') : k + 1 \in 1..Len(todo) /\ todo'[k] = todo[k + 1]
      /\ 1 \in 1..Len(todo) /\ Head(todo) = todo[1]
  BY <1>1, NextWrite, RowAfterWrite
<1>3. \A k \in 1..Len(todo) : k # 1 => k - 1 \in 1..Len(todo')
  <2>1. todo \in Seq(Write)
    BY DEF TypeInv, TypeOK
  <2>2. Len(Tail(todo)) = Len(todo) - 1
    BY <1>1, <2>1, HeadTailProperties
  <2>3. Len(todo) \in Nat
    BY <2>1, LenProperties
  <2> QED
    BY <1>1, <2>2, <2>3
<1>4. \A k \in 1..Len(todo) : k # 1 => todo'[k - 1] = todo[k]
  <2> SUFFICES ASSUME NEW k \in 1..Len(todo), k # 1 PROVE todo'[k - 1] = todo[k]
    OBVIOUS
  <2>1. k - 1 \in 1..Len(todo') /\ (k - 1) + 1 = k
    BY <1>3
  <2> QED
    BY <1>2, <2>1
<1>5. Among(todo, ops, t)' => Among(todo, ops, t)
  <2> SUFFICES ASSUME NEW k \in 1..Len(todo'),
                      todo'[k].op \in ops, todo'[k].trade = t
               PROVE  Among(todo, ops, t)
    BY DEF Among
  <2> QED
    BY <1>2 DEF Among
<1>6. ASSUME Among(todo, ops, t)
      PROVE  Among(todo, ops, t)' \/ (Head(todo).op \in ops /\ Head(todo).trade = t)
  <2>1. PICK k \in 1..Len(todo) : todo[k].op \in ops /\ todo[k].trade = t
    BY <1>6 DEF Among
  <2>2. CASE k = 1
    BY <1>2, <2>1, <2>2
  <2>3. CASE k # 1
    <3> DEFINE l == k - 1
    <3>1. l \in 1..Len(todo') /\ todo'[l] = todo[k]
      BY <1>3, <1>4, <2>3
    <3> HIDE DEF l
    <3> QED
      BY <2>1, <3>1 DEF Among
  <2> QED
    BY <2>2, <2>3
<1>7. Head(todo).op \in ops /\ Head(todo).trade = t => Among(todo, ops, t)
  BY <1>2 DEF Among
<1> QED
  BY <1>5, <1>6, <1>7

LEMMA StoreWriteRailInv == TypeInv /\ RailInv /\ StoreWrite => RailInv'
<1> SUFFICES ASSUME TypeInv, RailInv, StoreWrite, NEW t \in Trades
             PROVE  OnePath(t)'
  BY DEF RailInv
<1> DEFINE w == Head(todo)
           mine == w.trade = t
<1>1. UNCHANGED <<job, payout, paid>>
  BY DEF StoreWrite, chain
<1>2. OnePath(t)
  BY DEF RailInv
<1>3. \A ops : /\ Among(todo, ops, t)' => Among(todo, ops, t)
               /\ Among(todo, ops, t) => Among(todo, ops, t)' \/ (mine /\ w.op \in ops)
               /\ mine /\ w.op \in ops => Among(todo, ops, t)
  BY AmongAfterWrite
<1>4. row[t] \in Row /\ row'[t] \in Row
  <2>1. TypeInv'
    BY StoreWriteTypeInv
  <2> QED
    BY <2>1 DEF TypeInv, TypeOK
(* What the write does to the row, by its kind.                             *)
<1>5. /\ ~mine \/ w.op \notin RowOps \cup {"settled", "paidSettled"} =>
             row'[t].status = row[t].status /\ row'[t].rail = row[t].rail
      /\ mine /\ w.op = "insert" =>
             row'[t].status = "preparing" /\ row'[t].rail = "none"
      /\ mine /\ w.op = "armed" =>
             row'[t].status = "awaiting_payment" /\ row'[t].rail = row[t].rail
      /\ mine /\ w.op = "armedVault" =>
             row'[t].status = "awaiting_payment" /\ row'[t].rail = "arc-vault"
      /\ mine /\ w.op = "locked" =>
             row'[t].status = row[t].status /\ row'[t].rail = row[t].rail
      /\ mine /\ w.op \in {"paidFailed", "paidSettled"} =>
             row'[t].status \in {"failed", "settled"} /\ row'[t].rail = "x402"
      /\ mine /\ w.op \in {"failed", "unwound", "settled"} =>
             row'[t].status = w.op /\ row'[t].rail = row[t].rail
  <2> HIDE DEF w
  <2>1. w.op \in RowOps => /\ w.op = "insert" =>
                                 /\ Patched(row[t], w).status = "preparing"
                                 /\ Patched(row[t], w).rail = "none"
                           /\ w.op = "armed" =>
                                 /\ Patched(row[t], w).status = "awaiting_payment"
                                 /\ Patched(row[t], w).rail = row[t].rail
                           /\ w.op = "armedVault" =>
                                 /\ Patched(row[t], w).status = "awaiting_payment"
                                 /\ Patched(row[t], w).rail = "arc-vault"
                           /\ w.op = "locked" =>
                                 /\ Patched(row[t], w).status = row[t].status
                                 /\ Patched(row[t], w).rail = row[t].rail
                           /\ w.op = "paidFailed" =>
                                 /\ Patched(row[t], w).status = "failed"
                                 /\ Patched(row[t], w).rail = "x402"
                           /\ w.op \in {"failed", "unwound"} =>
                                 /\ Patched(row[t], w).status = w.op
                                 /\ Patched(row[t], w).rail = row[t].rail
    BY <1>4 DEF Patched, RowOps, Row, NoRow
  <2>2. /\ Settled(row[t], w).status = "settled"
        /\ Settled(row[t], w).rail =
               IF w.op = "paidSettled" THEN "x402" ELSE row[t].rail
    BY <1>4 DEF Settled, Row
  <2>3. /\ mine /\ w.op \in RowOps => row'[t] = Patched(row[t], w)
        /\ mine /\ w.op \in {"settled", "paidSettled"} => row'[t] = Settled(row[t], w)
        /\ ~mine \/ w.op \notin RowOps \cup {"settled", "paidSettled"} =>
               row'[t].status = row[t].status /\ row'[t].rail = row[t].rail
    BY RowAfterWrite DEF w
  <2> HIDE DEF mine
  <2> QED
    BY <2>1, <2>2, <2>3 DEF RowOps
<1>6. w.op \in WriteOps /\ (w.op # "insert" => Exists(w.trade))
  BY RowAfterWrite DEF Write
<1>7. Exists(t)' <=> Exists(t) \/ (mine /\ w.op = "insert")
  <2>1. Exists(t) => Exists(t)'
    BY <1>5, <1>6 DEF Exists, WriteOps, RowOps
  <2> HIDE DEF w
  <2> QED
    BY <1>5, <1>6, <2>1 DEF Exists, WriteOps, RowOps
<1> HIDE DEF w, mine
<1>8. mine /\ w.op = "insert" => ~Exists(t)
  BY <1>2, <1>3 DEF OnePath
<1>9. \A r \in Requests : /\ Arming(job[r], t)' <=> Arming(job[r], t)
                          /\ Paying(job[r], t)' <=> Paying(job[r], t)
                          /\ job'[r] = job[r]
  BY <1>1 DEF Arming, Paying
<1>10. VaultSide(t)' <=> VaultSide(t)
  <2>1. mine /\ w.op = "insert" => row[t].rail # "arc-vault"
    BY <1>2, <1>8 DEF OnePath, VaultSide
  <2>2. mine /\ w.op \in {"paidSettled", "paidFailed"} => row[t].rail # "arc-vault"
    BY <1>2, <1>3 DEF OnePath, VaultSide, Signed
  <2>3. row'[t].rail = "arc-vault" <=> row[t].rail = "arc-vault" \/
                                       (mine /\ w.op = "armedVault")
    BY <1>5, <1>6, <2>1, <2>2 DEF WriteOps, RowOps
  <2> QED
    BY <1>3, <2>3 DEF VaultSide
<1>11. Signed(t)' => Signed(t)
  BY <1>1, <1>3, <1>9 DEF Signed
<1>12. Offered(t)' => Offered(t)
  <2>1. row'[t].status = "awaiting_payment" /\ row'[t].rail # "arc-vault"
           => Offered(t)
    BY <1>3, <1>5, <1>6 DEF Offered, WriteOps, RowOps
  <2> QED
    BY <1>3, <2>1 DEF Offered
<1>13. (payout[t] # "none" => row[t].rail = "arc-vault")'
  <2>1. payout[t] # "none" => row[t].rail = "arc-vault" /\ Exists(t) /\ VaultSide(t)
    BY <1>2 DEF OnePath, VaultSide
  <2>2. row[t].rail = "arc-vault" /\ Exists(t) => row'[t].rail = "arc-vault"
    BY <1>2, <1>3, <1>5, <1>6, <1>8 DEF OnePath, VaultSide, Signed, WriteOps, RowOps
  <2> QED
    BY <1>1, <2>1, <2>2
<1>14. Among(todo, {"insert"}, t)' => (~Exists(t))'
  <2> SUFFICES ASSUME Among(todo, {"insert"}, t)' PROVE ~Exists(t)'
    OBVIOUS
  <2>1. Len(todo) \in Nat /\ todo # <<>> /\ todo' = Tail(todo)
    BY LenProperties DEF TypeInv, TypeOK, StoreWrite
  <2>2. PICK k \in 1..Len(todo') : todo'[k].op = "insert"
    BY DEF Among
  <2>3. k + 1 \in 1..Len(todo) /\ todo[k + 1].op = "insert"
    BY <2>1, <2>2, NextWrite
  <2>4. Len(todo) = 1
    BY <2>3 DEF TypeInv, WellFormed
  <2> QED
    BY <2>3, <2>4
<1>15. (~Exists(t))' => (~VaultSide(t) /\ ~Signed(t) /\ ~Offered(t)
                          /\ payout[t] = "none")'
  BY <1>1, <1>2, <1>7, <1>10, <1>11, <1>12 DEF OnePath
<1>16. (Signed(t) \/ Offered(t))' =>
           (~VaultSide(t) /\ \A r \in Requests : ~Arming(job[r], t))'
  BY <1>2, <1>9, <1>10, <1>11, <1>12 DEF OnePath
<1>17. (\A r \in Requests : Arming(job[r], t) =>
           (VaultSide(t) <=> job[r].pc \in {"register", "payout", "deliver"}))'
  BY <1>2, <1>9, <1>10 DEF OnePath
<1>18. (\A r, s \in Requests : Arming(job[r], t) /\ Arming(job[s], t) => r = s)'
  BY <1>2, <1>9 DEF OnePath
<1> QED
  BY <1>13, <1>14, <1>15, <1>16, <1>17, <1>18 DEF OnePath

(* The writes queued for one trade, and none for another.                   *)
LEMMA AmongWrites ==
    ASSUME NEW ops \in Seq(WriteOps), NEW t \in Trades, NEW terms \in Terms,
           NEW kinds, NEW u
    PROVE  Among(Writes(ops, t, terms), kinds, u) <=>
               u = t /\ \E k \in 1..Len(ops) : ops[k] \in kinds
BY WritesTyped DEF Among

Special == {"insert", "armed", "armedVault", "paidSettled", "paidFailed"}
Vaulting == {"register", "payout", "deliver"}

(* A request that ends, or goes on along its own path, queueing no write    *)
(* that chooses a path.                                                     *)
LEMMA MoveRailInv ==
    ASSUME TypeInv, RailInv, NEW r \in Requests, NEW j \in Job, NEW writes,
           todo = <<>>, GoOn(r, j, writes), UNCHANGED <<payout, paid>>,
           \A t \in Trades :
               /\ Exists(t)' = Exists(t)
               /\ row'[t].rail = row[t].rail
               /\ row'[t].status = "awaiting_payment"
                      => row[t].status = "awaiting_payment",
           \A ops \in SUBSET Special, t \in Trades : ~Among(writes, ops, t),
           \A t \in Trades :
               /\ Arming(j, t) =>
                      Arming(job[r], t) /\ (j.pc \in Vaulting <=> job[r].pc \in Vaulting)
               /\ Paying(j, t) => Paying(job[r], t) \/ Offered(t)
    PROVE  RailInv'
<1>1. \A t \in Trades : /\ ~Among(writes, {"armedVault"}, t)
                        /\ ~Among(writes, {"armed"}, t)
                        /\ ~Among(writes, {"paidSettled", "paidFailed"}, t)
                        /\ ~Among(writes, {"insert"}, t)
                        /\ ~Among(todo, {"armedVault"}, t)
  <2>1. /\ {"armedVault"} \in SUBSET Special
        /\ {"armed"} \in SUBSET Special
        /\ {"paidSettled", "paidFailed"} \in SUBSET Special
        /\ {"insert"} \in SUBSET Special
    BY DEF Special
  <2>2. \A t : ~Among(todo, {"armedVault"}, t)
    BY DEF Among
  <2> QED
    BY <2>1, <2>2
<1>2. \A t \in Trades : Arming(job[r], t) =>
          (row[t].rail = "arc-vault" <=> job[r].pc \in Vaulting)
  BY <1>1 DEF RailInv, OnePath, VaultSide, Vaulting
<1> QED
  BY <1>1, <1>2, StepRailInv DEF Vaulting

(* The same, when the rows stay as they are: with no writes, and with some. *)
LEMMA IdleRailInv ==
    ASSUME TypeInv, RailInv, NEW r \in Requests, NEW j \in Job, todo = <<>>,
           GoOn(r, j, <<>>), UNCHANGED <<rows, chain>>,
           \A t \in Trades :
               /\ Arming(j, t) =>
                      Arming(job[r], t) /\ (j.pc \in Vaulting <=> job[r].pc \in Vaulting)
               /\ Paying(j, t) => Paying(job[r], t) \/ Offered(t)
    PROVE  RailInv'
<1> DEFINE writes == <<>>
<1>1. /\ \A ops \in SUBSET Special, t \in Trades : ~Among(writes, ops, t)
      /\ GoOn(r, j, writes)
  BY DEF Among
<1> HIDE DEF writes
<1>2. \A t \in Trades :
          /\ Exists(t)' = Exists(t)
          /\ row'[t].rail = row[t].rail
          /\ row'[t].status = "awaiting_payment" => row[t].status = "awaiting_payment"
  BY DEF rows, Exists
<1>3. UNCHANGED <<payout, paid>>
  BY DEF chain
<1> QED
  BY <1>1, <1>2, <1>3, MoveRailInv

LEMMA QueueRailInv ==
    ASSUME TypeInv, RailInv, NEW r \in Requests, NEW j \in Job, todo = <<>>,
           NEW ops \in Seq(WriteOps), NEW t \in Trades, NEW terms \in Terms,
           \A k \in 1..Len(ops) : ops[k] \notin Special,
           GoOn(r, j, Writes(ops, t, terms)), UNCHANGED <<rows, chain>>,
           \A u \in Trades :
               /\ Arming(j, u) =>
                      Arming(job[r], u) /\ (j.pc \in Vaulting <=> job[r].pc \in Vaulting)
               /\ ~Paying(j, u)
    PROVE  RailInv'
<1> DEFINE writes == Writes(ops, t, terms)
<1>1. /\ \A kinds \in SUBSET Special, u \in Trades : ~Among(writes, kinds, u)
      /\ GoOn(r, j, writes)
  BY AmongWrites
<1> HIDE DEF writes
<1>2. \A u \in Trades :
          /\ Exists(u)' = Exists(u)
          /\ row'[u].rail = row[u].rail
          /\ row'[u].status = "awaiting_payment" => row[u].status = "awaiting_payment"
  BY DEF rows, Exists
<1>3. UNCHANGED <<payout, paid>>
  BY DEF chain
<1> QED
  BY <1>1, <1>2, <1>3, MoveRailInv

LEMMA UnwindRailInv ==
    ASSUME TypeInv, RailInv, NEW r \in Requests, todo = <<>>,
           NEW t \in Trades, Exists(t),
           NEW batch \in SUBSET Trades, NEW after \in Handlers,
           Unwind(r, t, batch, after), UNCHANGED <<rows, chain>>
    PROVE  RailInv'
<1> DEFINE j == Swept(batch, after)
           ops == <<"release", "unwound", "expired">>
<1>1. ASSUME NEW i, i.pc \in Handlers \cup {"reclaim", "releaseHold"}, NEW u
      PROVE  ~Arming(i, u) /\ ~Paying(i, u)
  BY <1>1 DEF Arming, Paying, Handlers
<1>2. j \in Job /\ j.pc \in Handlers \cup {"reclaim", "releaseHold"}
  BY SweptJob
<1>3. /\ ops \in Seq(WriteOps)
      /\ \A k \in 1..Len(ops) : ops[k] \notin Special
      /\ UnwindWrites(t) = Writes(ops, t, TermsOf(t))
  BY DEF UnwindWrites, WriteOps, Special
<1>4. TermsOf(t) \in Terms
  BY DEF TypeInv, WellFormed, TermsOf
<1> HIDE DEF j, ops
<1>5. CASE GoOn(r, j, <<>>)
  BY <1>1, <1>2, <1>5, IdleRailInv
<1>6. CASE GoOn(r, j, UnwindWrites(t))
  BY <1>1, <1>2, <1>3, <1>4, <1>6, QueueRailInv
<1>7. CASE GoOn(r, [IdleJob EXCEPT !.pc = "releaseHold", !.trade = t,
                                   !.batch = batch, !.after = after], <<>>)
  <2> DEFINE i == [IdleJob EXCEPT !.pc = "releaseHold", !.trade = t,
                                  !.batch = batch, !.after = after]
  <2>1. i \in Job /\ i.pc = "releaseHold"
    BY DEF IdleJob, Job, Handlers, Rail, Calls
  <2>2. GoOn(r, i, <<>>)
    BY <1>7
  <2> HIDE DEF i
  <2> QED
    BY <1>1, <2>1, <2>2, IdleRailInv
<1> QED
  BY <1>5, <1>6, <1>7 DEF Unwind, j

LEMMA ClientRailInv ==
    ASSUME TypeInv, RailInv, NEW r \in Requests, Client(r)
    PROVE  RailInv'
<1>0. ASSUME NEW i, i.pc \in Handlers \cup {"reclaim", "gate"}, NEW u
      PROVE  ~Arming(i, u) /\ ~Paying(i, u)
  BY <1>0 DEF Arming, Paying, Handlers
<1>1. ASSUME NEW handler \in Handlers, Sweep(r, handler) PROVE RailInv'
  <2> DEFINE j == Swept(Stale, handler)
  <2>1. j \in Job /\ j.pc \in Handlers \cup {"reclaim"}
    BY SweptJob DEF Stale
  <2>2. GoOn(r, j, <<>>) /\ UNCHANGED <<rows, chain>> /\ todo = <<>>
    BY <1>1 DEF Sweep, Running
  <2> HIDE DEF j
  <2> QED
    BY <1>0, <2>1, <2>2, IdleRailInv
<1>2. ASSUME NEW i \in Invoices, Delist(r, i) PROVE RailInv'
  <2> DEFINE writes == <<>>
  <2>1. /\ GoOn(r, IdleJob, writes) /\ UNCHANGED <<row, chain>> /\ todo = <<>>
        /\ \A ops \in SUBSET Special, t \in Trades : ~Among(writes, ops, t)
    BY <1>2 DEF Delist, Starting, Running, Among
  <2>2. \A t \in Trades :
            /\ Exists(t)' = Exists(t)
            /\ row'[t].rail = row[t].rail
            /\ row'[t].status = "awaiting_payment"
                   => row[t].status = "awaiting_payment"
    BY <2>1 DEF Exists
  <2>3. IdleJob \in Job /\ \A t \in Trades : ~Arming(IdleJob, t) /\ ~Paying(IdleJob, t)
    BY <1>0, IdleJobTyped DEF Handlers
  <2>4. UNCHANGED <<payout, paid>>
    BY <2>1 DEF chain
  <2> HIDE DEF writes
  <2> QED
    BY <2>1, <2>2, <2>3, <2>4, MoveRailInv
<1>3. ASSUME NEW j, GoOn(r, j, <<>>) PROVE j \in Job
  <2>1. TypeInv' /\ job' = [job EXCEPT ![r] = j]
    BY <1>3, ClientTypeInv DEF GoOn
  <2> QED
    BY <2>1 DEF TypeInv, TypeOK
<1>4. ASSUME NEW i \in Invoices, NEW q \in Quotes, NEW m \in Mandates,
             NEW price \in Prices, ArmTrade(r, i, q, m, price)
      PROVE  RailInv'
  <2> DEFINE j == [IdleJob EXCEPT
                     !.pc = "gate",
                     !.terms = [invoice |-> i, quote |-> q, mandate |-> m,
                                seller |-> PartyHolding(i), price |-> price]]
  <2>1. /\ GoOn(r, j, <<>>) /\ UNCHANGED <<rows, chain>> /\ todo = <<>>
        /\ j.pc = "gate"
    BY <1>4 DEF ArmTrade, Starting, Running, IdleJob
  <2> HIDE DEF j
  <2> QED
    BY <1>0, <1>3, <2>1, IdleRailInv
<1>5. ASSUME NEW t \in Trades, NEW p \in Payments, Pay(r, t, p) PROVE RailInv'
  <2> DEFINE j == [IdleJob EXCEPT !.pc = "requirements", !.trade = t,
                                  !.terms = TermsOf(t), !.payment = p]
  <2>1. /\ GoOn(r, j, <<>>) /\ UNCHANGED <<rows, chain>> /\ todo = <<>>
        /\ j.pc = "requirements" /\ j.trade = t /\ Offered(t)
    BY <1>5 DEF Pay, Starting, Running, IdleJob, Offered
  <2> HIDE DEF j
  <2>2. \A u \in Trades : ~Arming(j, u) /\ (Paying(j, u) => u = t)
    BY <2>1 DEF Arming, Paying
  <2> QED
    BY <1>3, <2>1, <2>2, IdleRailInv
<1>6. ASSUME NEW t \in Trades, AskUnwind(r, t) PROVE RailInv'
  <2>1. /\ Unwind(r, t, {}, "idle") /\ UNCHANGED <<rows, chain>>
        /\ todo = <<>> /\ Exists(t)
    BY <1>6 DEF AskUnwind, Running
  <2> QED
    BY <2>1, UnwindRailInv DEF Handlers
<1> QED
  BY <1>1, <1>2, <1>4, <1>5, <1>6 DEF Client

LEMMA HandlerRailInv ==
    ASSUME TypeInv, RailInv, NEW r \in Requests, Handler(r)
    PROVE  RailInv'
<1> DEFINE Same == UNCHANGED <<rows, chain>>
           t == job[r].trade
           Plain(ops) == /\ ops \in Seq(WriteOps)
                         /\ \A k \in 1..Len(ops) : ops[k] \notin Special
           Resting(j) == j \in Job /\ \A u \in Trades : ~Arming(j, u) /\ ~Paying(j, u)
<1>1. todo = <<>>
  BY DEF Handler, Reclaim, GateAdmits, Refuse, GateRefuses, ReadFails, CallFails,
         ChooseRail, PositionRead, HoldAnswered, ChallengeBuilt, MatchAnswered,
         PayoutAnswered, DeliverAnswered, RequirementsBuilt, RequirementsFail,
         Verified, NotVerified, SettleAnswered, SettleDeclined, SettleFails,
         PaidDeliveryAnswered, ReleaseAnswered, Heard, Running
<1>2. /\ job[r] \in Job
      /\ job[r].pc \in Carrying => job[r].terms \in Terms
      /\ job[r].pc \in Numbered => t \in Trades /\ Exists(t)
      /\ \A u \in job[r].batch : u \in Trades /\ Exists(u)
  BY <1>1, Formed
<1>3. \A u \in Trades : OnePath(u)
  BY DEF RailInv
<1>4. \A pc \in Reads \cup Calls :
          At(r, pc) \in Job /\ At(r, pc).pc = pc /\ At(r, pc).trade = t
  BY <1>2, AtJob
<1>5. ASSUME NEW j \in Job, j.pc \in Handlers \cup {"reclaim", "releaseHold"}
      PROVE  Resting(j)
  BY <1>5 DEF Arming, Paying, Handlers
<1>6. Resting(IdleJob)
  BY <1>5, IdleJobTyped DEF Handlers
<1> HIDE DEF t
<1>7. ASSUME UnwindPaid(r), Same, job[r].pc \in Numbered PROVE RailInv'
  BY <1>1, <1>2, <1>7, UnwindRailInv DEF UnwindPaid, Handlers, t
<1>8. ASSUME NEW u \in Trades, Reclaim(r, u) PROVE RailInv'
  <2>1. job[r].batch \ {u} \in SUBSET Trades /\ job[r].after \in Handlers
    BY <1>2 DEF Job
  <2> QED
    BY <1>1, <1>2, <1>8, <2>1, UnwindRailInv DEF Reclaim
(* A step to another await of the same half of the same path.               *)
<1>9. ASSUME NEW j \in Job, GoOn(r, j, <<>>), Same, j.trade = t,
             \/ /\ job[r].pc \in {"rail", "position", "createHold"}
                /\ j.pc \in {"position", "createHold", "challenge"}
             \/ job[r].pc \in Vaulting /\ j.pc \in Vaulting
             \/ /\ job[r].pc \in {"requirements", "verify", "settle"}
                /\ j.pc \in {"verify", "settle", "deliverPaid"}
      PROVE  RailInv'
  <2>1. \A u \in Trades :
            /\ Arming(j, u) =>
                   Arming(job[r], u) /\ (j.pc \in Vaulting <=> job[r].pc \in Vaulting)
            /\ Paying(j, u) => Paying(job[r], u)
    BY <1>9 DEF Arming, Paying, Vaulting, t
  <2> QED
    BY <1>1, <1>9, <2>1, IdleRailInv
(* A request that ends, with or without plain writes of its trade.          *)
<1>10. ASSUME GoOn(r, IdleJob, <<>>), Same PROVE RailInv'
  BY <1>1, <1>6, <1>10, IdleRailInv
<1>11. ASSUME NEW ops, Plain(ops), GoOn(r, IdleJob, Do(r, ops)), Same,
              job[r].pc \in Carrying \cap Numbered
       PROVE  RailInv'
  BY <1>1, <1>2, <1>6, <1>11, QueueRailInv DEF Do, t
<1>12. ASSUME NEW u \in Trades, GateAdmits(r, u) PROVE RailInv'
  <2> DEFINE j == [job[r] EXCEPT !.pc = "rail", !.trade = u]
             ops == <<"insert">>
             writes == Writes(ops, u, job[r].terms)
  <2>1. /\ GoOn(r, j, writes) /\ UNCHANGED <<row, chain>>
        /\ ~Exists(u) /\ job[r].pc = "gate"
    BY <1>12 DEF GateAdmits, IsNext, Running
  <2>2. j \in Job /\ j.pc = "rail" /\ j.trade = u
    BY <1>2 DEF Job, Reads
  <2>3. \A kinds, v : Among(writes, kinds, v) => v = u /\ "insert" \in kinds
    <3>1. ops \in Seq(WriteOps) /\ Len(ops) = 1 /\ ops[1] = "insert"
      BY DEF WriteOps
    <3>2. job[r].terms \in Terms
      BY <1>2, <2>1 DEF Carrying, Reads, Calls
    <3> HIDE DEF ops
    <3> QED
      BY <3>1, <3>2, AmongWrites
  <2> HIDE DEF j, writes
  <2>4. row[u].rail # "arc-vault"
    BY <1>3, <2>1 DEF OnePath, VaultSide
  <2>5. \A v \in Trades :
            /\ Exists(v)' = Exists(v)
            /\ row'[v].rail = row[v].rail
            /\ row'[v].status = "awaiting_payment" => row[v].status = "awaiting_payment"
    BY <2>1 DEF Exists
  <2>6. \A v \in Trades : (Arming(j, v) => v = u) /\ ~Paying(j, v)
    BY <2>2 DEF Arming, Paying
  <2>7. UNCHANGED <<payout, paid>>
    BY <2>1 DEF chain
  <2> QED
    BY <1>1, <2>1, <2>2, <2>3, <2>4, <2>5, <2>6, <2>7, StepRailInv
<1>13. CASE Refuse(r) \/ GateRefuses(r) \/ RequirementsFail(r)
  BY <1>10, <1>13 DEF Refuse, GateRefuses, RequirementsFail
<1>14. CASE ReadFails(r) \/ CallFails(r)
  <2>1. Plain(<<"release", "failed">>)
    BY DEF WriteOps, Special
  <2>2. /\ GoOn(r, IdleJob, Do(r, <<"release", "failed">>)) /\ Same
        /\ job[r].pc \in Carrying \cap Numbered
    BY <1>14 DEF ReadFails, CallFails, Abandon, Heard, Running, Carrying, Numbered,
                 Reads, Calls
  <2> HIDE DEF Plain
  <2> QED
    BY <1>11, <2>1, <2>2
<1>15. ASSUME NEW rail \in {"x402", "arc-vault"}, ChooseRail(r, rail) PROVE RailInv'
  <2> DEFINE j == [At(r, "position") EXCEPT !.rail = rail]
  <2>1. GoOn(r, j, <<>>) /\ Same /\ job[r].pc = "rail"
    BY <1>15 DEF ChooseRail, Running
  <2>2. j \in Job /\ j.pc = "position" /\ j.trade = t
    BY <1>4 DEF Job, Rail, Reads
  <2> HIDE DEF j
  <2> QED
    BY <1>9, <2>1, <2>2
<1>16. CASE PositionRead(r) \/ MatchAnswered(r) \/ Verified(r) \/ SettleAnswered(r)
  <2>1. \E pc \in {"createHold", "payout", "settle", "deliverPaid"} :
            /\ GoOn(r, At(r, pc), <<>>) /\ Same
            /\ pc = "createHold" => job[r].pc = "position"
            /\ pc = "payout" => job[r].pc = "register"
            /\ pc = "settle" => job[r].pc = "verify"
            /\ pc = "deliverPaid" => job[r].pc = "settle"
    BY <1>16 DEF PositionRead, MatchAnswered, Verified, SettleAnswered, Heard, Running
  <2>2. \A pc \in {"createHold", "payout", "settle", "deliverPaid"} :
            At(r, pc) \in Job /\ At(r, pc).pc = pc /\ At(r, pc).trade = t
    BY <1>4 DEF Calls
  <2> QED
    BY <1>9, <2>1, <2>2 DEF Vaulting
<1>17. CASE HoldAnswered(r)
  <2>1. job[r].pc = "createHold" /\ Same
    BY <1>17 DEF HoldAnswered, Heard, Running
  <2>2. t \in Trades /\ job[r].terms \in Terms
    BY <1>2, <2>1 DEF Carrying, Numbered, Calls
  <2>3. CASE GoOn(r, At(r, "challenge"), <<>>)
    <3>1. LET j == At(r, "challenge") IN
          j \in Job /\ j.pc = "challenge" /\ j.trade = t
      BY <1>4 DEF Reads
    <3> QED
      BY <1>9, <2>1, <2>3, <3>1
  <2>4. CASE GoOn(r, At(r, "register"), Do(r, <<"armedVault">>))
    <3> DEFINE j == At(r, "register")
               ops == <<"armedVault">>
               writes == Writes(ops, t, job[r].terms)
    <3>1. j \in Job /\ j.pc = "register" /\ j.trade = t
      BY <1>4 DEF Calls
    <3>2. ops \in Seq(WriteOps) /\ Len(ops) = 1 /\ ops[1] = "armedVault"
      BY DEF WriteOps
    <3>3. GoOn(r, j, writes)
      BY <2>4 DEF Do, t
    <3> HIDE DEF j, ops
    <3>4. \A kinds, u : Among(writes, kinds, u) <=> u = t /\ "armedVault" \in kinds
      BY <2>2, <3>2, AmongWrites
    <3> HIDE DEF writes
    <3>5. \A u \in Trades :
              /\ Exists(u)' = Exists(u)
              /\ row'[u].rail = row[u].rail
              /\ row'[u].status = "awaiting_payment"
                     => row[u].status = "awaiting_payment"
      BY <2>1 DEF rows, Exists
    <3>6. \A u \in Trades : /\ Arming(j, u) <=> u = t
                            /\ Arming(job[r], u) <=> u = t
                            /\ ~Paying(j, u)
      BY <2>1, <3>1 DEF Arming, Paying, t
    <3>7. UNCHANGED <<payout, paid>>
      BY <2>1 DEF chain
    <3> QED
      BY <1>1, <3>1, <3>3, <3>4, <3>5, <3>6, <3>7, StepRailInv
  <2> QED
    BY <1>17, <2>3, <2>4 DEF HoldAnswered
<1>18. CASE ChallengeBuilt(r)
  <2> DEFINE ops == <<"armed">>
             writes == Writes(ops, t, job[r].terms)
  <2>1. job[r].pc = "challenge" /\ Same /\ GoOn(r, IdleJob, writes)
    BY <1>18 DEF ChallengeBuilt, Running, Do, t
  <2>2. t \in Trades /\ job[r].terms \in Terms
    BY <1>2, <2>1 DEF Carrying, Numbered, Reads
  <2>3. ops \in Seq(WriteOps) /\ Len(ops) = 1 /\ ops[1] = "armed"
    BY DEF WriteOps
  <2> HIDE DEF ops
  <2>4. \A kinds, u : Among(writes, kinds, u) => u = t /\ "armed" \in kinds
    BY <2>2, <2>3, AmongWrites
  <2> HIDE DEF writes
  <2>5. \A u \in Trades :
            /\ Exists(u)' = Exists(u)
            /\ row'[u].rail = row[u].rail
            /\ row'[u].status = "awaiting_payment" => row[u].status = "awaiting_payment"
    BY <2>1 DEF rows, Exists
  <2>6. Arming(job[r], t)
    BY <2>1 DEF Arming, t
  <2>7. UNCHANGED <<payout, paid>>
    BY <2>1 DEF chain
  <2> QED
    BY <1>1, <1>6, <2>1, <2>4, <2>5, <2>6, <2>7, StepRailInv
<1>19. CASE PayoutAnswered(r)
  <2> DEFINE j == At(r, "deliver")
             ops == <<"locked", "sold", "accepted", "handover">>
  <2>1. Plain(ops)
    BY DEF WriteOps, Special
  <2>2. job[r].pc = "payout" /\ Same /\ GoOn(r, j, Writes(ops, t, job[r].terms))
    BY <1>19 DEF PayoutAnswered, Heard, Running, Do, t
  <2>3. t \in Trades /\ job[r].terms \in Terms
    BY <1>2, <2>2 DEF Carrying, Numbered, Calls
  <2>4. j \in Job /\ j.pc = "deliver" /\ j.trade = t
    BY <1>4 DEF Calls
  <2> HIDE DEF j, ops
  <2>5. \A u \in Trades :
            /\ Arming(j, u) =>
                   Arming(job[r], u) /\ (j.pc \in Vaulting <=> job[r].pc \in Vaulting)
            /\ ~Paying(j, u)
    BY <2>2, <2>4 DEF Arming, Paying, Vaulting, t
  <2> QED
    BY <1>1, <2>1, <2>2, <2>3, <2>4, <2>5, QueueRailInv
<1>20. CASE DeliverAnswered(r)
  <2>1. Plain(<<"settled">>) /\ Plain(<<"failed">>)
    BY DEF WriteOps, Special
  <2>2. /\ \/ GoOn(r, IdleJob, Do(r, <<"settled">>))
           \/ GoOn(r, IdleJob, Do(r, <<"failed">>))
        /\ Same /\ job[r].pc \in Carrying \cap Numbered
    BY <1>20 DEF DeliverAnswered, Heard, Running, Carrying, Numbered, Reads, Calls
  <2> HIDE DEF Plain
  <2> QED
    BY <1>11, <2>1, <2>2
<1>21. CASE RequirementsBuilt(r)
  <2>1. job[r].pc = "requirements" /\ Same /\ job[r].pc \in Numbered
    BY <1>21 DEF RequirementsBuilt, Running, Numbered, Reads
  <2>2. GoOn(r, At(r, "verify"), <<>>) \/ UnwindPaid(r)
    BY <1>21 DEF RequirementsBuilt
  <2>3. LET j == At(r, "verify") IN j \in Job /\ j.pc = "verify" /\ j.trade = t
    BY <1>4 DEF Reads
  <2> QED
    BY <1>7, <1>9, <2>1, <2>2, <2>3
<1>22. CASE NotVerified(r) \/ SettleFails(r)
  BY <1>7, <1>22
     DEF NotVerified, SettleFails, Heard, Running, Numbered, Reads, Calls
<1>23. CASE SettleDeclined(r)
  <2> DEFINE writes == <<>>
             j == [IdleJob EXCEPT !.pc = "releaseHold", !.trade = t]
  <2>1. /\ GoOn(r, IdleJob, writes) \/ GoOn(r, j, writes)
        /\ row' = [row EXCEPT ![t].status = "failed"]
        /\ UNCHANGED chain /\ job[r].pc = "settle"
    BY <1>23 DEF SettleDeclined, Heard, Running, t
  <2>2. t \in Trades /\ Exists(t) /\ row \in [Trades -> Row]
    BY <1>2, <2>1 DEF Numbered, Calls, TypeInv, TypeOK
  <2>3. Resting(j)
    <3>1. j \in Job /\ j.pc = "releaseHold"
      BY <2>2 DEF IdleJob, Job, Handlers, Rail, Calls
    <3> QED
      BY <1>5, <3>1
  <2>4. \A ops \in SUBSET Special, u \in Trades : ~Among(writes, ops, u)
    BY DEF Among
  <2>5. \A u \in Trades :
            /\ Exists(u)' = Exists(u)
            /\ row'[u].rail = row[u].rail
            /\ row'[u].status = "awaiting_payment" => row[u].status = "awaiting_payment"
    BY <2>1, <2>2 DEF Exists, Row
  <2>6. UNCHANGED <<payout, paid>>
    BY <2>1 DEF chain
  <2> HIDE DEF writes, j
  <2> QED
    BY <1>1, <1>6, <2>1, <2>3, <2>4, <2>5, <2>6, MoveRailInv
<1>24. CASE PaidDeliveryAnswered(r)
  <2>1. /\ \E ops \in {<<"paidFailed">>,
                      <<"paidSettled", "accepted", "sold", "handover">>} :
               GoOn(r, IdleJob, Do(r, ops))
        /\ Same /\ job[r].pc = "deliverPaid"
    BY <1>24 DEF PaidDeliveryAnswered, Heard, Running
  <2>2. ASSUME NEW ops \in Seq(WriteOps), GoOn(r, IdleJob, Do(r, ops)),
               \A k \in 1..Len(ops) : ops[k] \notin {"insert", "armed", "armedVault"}
        PROVE  RailInv'
    <3> DEFINE writes == Writes(ops, t, job[r].terms)
    <3>1. t \in Trades /\ job[r].terms \in Terms
      BY <1>2, <2>1 DEF Carrying, Numbered, Calls
    <3>2. GoOn(r, IdleJob, writes)
      BY <2>2 DEF Do, t
    <3>3. \A u : /\ ~Among(writes, {"armedVault"}, u)
                 /\ ~Among(writes, {"armed"}, u)
                 /\ ~Among(writes, {"insert"}, u)
                 /\ Among(writes, {"paidSettled", "paidFailed"}, u) => u = t
      BY <2>2, <3>1, AmongWrites
    <3> HIDE DEF writes
    <3>4. \A u \in Trades :
              /\ Exists(u)' = Exists(u)
              /\ row'[u].rail = row[u].rail
              /\ row'[u].status = "awaiting_payment"
                     => row[u].status = "awaiting_payment"
      BY <2>1 DEF rows, Exists
    <3>5. Paying(job[r], t)
      BY <2>1 DEF Paying, t
    <3>6. UNCHANGED <<payout, paid>>
      BY <2>1 DEF chain
    <3> QED
      BY <1>1, <1>6, <3>2, <3>3, <3>4, <3>5, <3>6, StepRailInv
  <2> DEFINE Fit(ops) == /\ ops \in Seq(WriteOps)
                         /\ \A k \in 1..Len(ops) :
                                ops[k] \notin {"insert", "armed", "armedVault"}
  <2>3. Fit(<<"paidFailed">>)
    BY DEF WriteOps
  <2>4. Fit(<<"paidSettled", "accepted", "sold", "handover">>)
    BY DEF WriteOps
  <2>5. ASSUME NEW ops, Fit(ops), GoOn(r, IdleJob, Do(r, ops)) PROVE RailInv'
    BY <2>2, <2>5
  <2> HIDE DEF Fit
  <2> QED
    BY <2>1, <2>3, <2>4, <2>5
<1>25. CASE ReleaseAnswered(r)
  <2> DEFINE j == Swept(job[r].batch, job[r].after)
             ops == <<"release", "unwound", "expired">>
  <2>1. /\ Same /\ job[r].pc = "releaseHold"
        /\ GoOn(r, j, <<>>) \/ GoOn(r, j, Writes(ops, t, TermsOf(t)))
    BY <1>25 DEF ReleaseAnswered, Heard, Running, UnwindWrites, t
  <2>2. t \in Trades /\ TermsOf(t) \in Terms
    BY <1>2, <2>1 DEF Numbered, Calls, TypeInv, WellFormed, TermsOf
  <2>3. Resting(j)
    <3>1. job[r].batch \in SUBSET Trades /\ job[r].after \in Handlers
      BY <1>2 DEF Job
    <3>2. j \in Job /\ j.pc \in Handlers \cup {"reclaim", "releaseHold"}
      BY <3>1, SweptJob
    <3> QED
      BY <1>5, <3>2
  <2>4. Plain(ops)
    BY DEF WriteOps, Special
  <2> HIDE DEF j, ops
  <2> QED
    BY <1>1, <2>1, <2>2, <2>3, <2>4, IdleRailInv, QueueRailInv
<1> QED
  BY <1>8, <1>12, <1>13, <1>14, <1>15, <1>16, <1>17, <1>18, <1>19, <1>20, <1>21,
     <1>22, <1>23, <1>24, <1>25 DEF Handler

(* A step that keeps rows, writes and what the requests work on, and lets   *)
(* money move only along the path of its trade.                             *)
LEMMA LandedRailInv ==
    ASSUME RailInv, UNCHANGED todo,
           \A t \in Trades : /\ row'[t].status = row[t].status
                             /\ row'[t].rail = row[t].rail,
           \A r \in Requests : /\ job'[r].pc = job[r].pc
                               /\ job'[r].trade = job[r].trade,
           \A t \in Trades : /\ payout'[t] # "none" =>
                                    payout[t] # "none" \/ row[t].rail = "arc-vault"
                             /\ paid'[t] # {} => Signed(t)
    PROVE  RailInv'
<1> SUFFICES ASSUME NEW t \in Trades PROVE OnePath(t)'
  BY DEF RailInv
<1>1. OnePath(t)
  BY DEF RailInv
<1>2. /\ Exists(t)' <=> Exists(t)
      /\ \A ops : Among(todo, ops, t)' <=> Among(todo, ops, t)
      /\ \A r \in Requests : /\ Arming(job[r], t)' <=> Arming(job[r], t)
                             /\ Paying(job[r], t)' <=> Paying(job[r], t)
  BY DEF Exists, Among, Arming, Paying
<1>3. /\ VaultSide(t)' <=> VaultSide(t)
      /\ Offered(t)' <=> Offered(t)
      /\ Signed(t)' => Signed(t)
  BY <1>2 DEF VaultSide, Offered, Signed
<1>4. (payout[t] # "none" => row[t].rail = "arc-vault")'
  BY <1>1 DEF OnePath
<1>5. (~Exists(t))' => (payout[t] = "none")'
  BY <1>1, <1>2 DEF OnePath, VaultSide
<1> QED
  BY <1>1, <1>2, <1>3, <1>4, <1>5 DEF OnePath

LEMMA OutsideRailInv ==
    ASSUME TypeInv, RailInv, NEW r \in Requests, Outside(r)
    PROVE  RailInv'
<1> DEFINE t == job[r].trade
<1>1. /\ UNCHANGED <<row, todo>> /\ todo = <<>>
      /\ \E pc \in Calls : job[r].pc = pc
      /\ \E answer \in {"ok", "error", "declined"} :
             job' = [job EXCEPT ![r].heard = answer]
  BY DEF Outside, CallRefused, PaymentDeclined, HoldCreated, HoldExecuted,
         HoldReleased, MatchRegistered, PayoutExecuted, PaymentSettled, Landed,
         Answer, Waiting, Heard, Running, Calls, rows
<1>2. t \in Trades
  BY <1>1, Formed DEF Numbered
<1>3. \A s \in Requests : /\ job'[s].pc = job[s].pc
                          /\ job'[s].trade = job[s].trade
  BY <1>1 DEF TypeInv, TypeOK, Job
<1>4. \/ UNCHANGED <<payout, paid>>
      \/ /\ job[r].pc \in {"register", "payout"}
         /\ \A u \in Trades \ {t} : payout'[u] = payout[u]
         /\ UNCHANGED paid
      \/ /\ job[r].pc = "settle"
         /\ \A u \in Trades \ {t} : paid'[u] = paid[u]
         /\ UNCHANGED payout
  BY DEF Outside, CallRefused, PaymentDeclined, HoldCreated, HoldExecuted,
         HoldReleased, MatchRegistered, PayoutExecuted, PaymentSettled, Waiting,
         Heard, Running, chain, TypeInv, TypeOK
<1>5. job[r].pc \in {"register", "payout"} => row[t].rail = "arc-vault"
  BY <1>1, <1>2 DEF RailInv, OnePath, VaultSide, Arming, Among
<1>6. job[r].pc = "settle" => Signed(t)
  BY DEF Signed, Paying
<1>7. \A u \in Trades : paid[u] # {} => Signed(u)
  BY DEF Signed
<1> HIDE DEF t
<1> QED
  BY <1>1, <1>2, <1>3, <1>4, <1>5, <1>6, <1>7, LandedRailInv

LEMMA NextRailInv == TypeInv /\ RailInv /\ [Next]_vars => RailInv'
<1> SUFFICES ASSUME TypeInv, RailInv, [Next]_vars PROVE RailInv'
  OBVIOUS
<1>1. CASE StoreWrite
  BY <1>1, StoreWriteRailInv
<1>2. ASSUME NEW r \in Requests, Client(r) \/ Handler(r) \/ Outside(r)
      PROVE  RailInv'
  BY <1>2, ClientRailInv, HandlerRailInv, OutsideRailInv
<1>3. ASSUME UNCHANGED <<job, todo, payout, paid>>,
             \A t \in Trades : /\ row'[t].status = row[t].status
                               /\ row'[t].rail = row[t].rail
      PROVE  RailInv'
  BY <1>3, LandedRailInv DEF Signed
<1>4. /\ \A q \in Quotes, i \in Invoices : IssueQuote(q, i) => RailInv'
      /\ \A i \in Invoices : List(i) => RailInv'
      /\ \A t \in Trades : ExpireHold(t) => RailInv'
  BY <1>3 DEF IssueQuote, List, ExpireHold, chain, rows
<1>5. ASSUME NEW t \in Trades, Age(t) PROVE RailInv'
  <2>1. row \in [Trades -> Row]
    BY DEF TypeInv, TypeOK
  <2> QED
    BY <1>3, <1>5, <2>1 DEF Age, chain, Row
<1>6. CASE Crash
  <2>1. /\ job' = [r \in Requests |-> IdleJob] /\ todo' = <<>>
        /\ UNCHANGED <<row, payout, paid>>
    BY <1>6 DEF Crash, rows, chain
  <2>2. \A t \in Trades :
            /\ \A ops : ~Among(todo, ops, t)'
            /\ \A r \in Requests : ~Arming(job[r], t)' /\ ~Paying(job[r], t)'
    BY <2>1, IdleJobTyped DEF Among, Arming, Paying
  <2> SUFFICES ASSUME NEW t \in Trades PROVE OnePath(t)'
    BY DEF RailInv
  <2>3. OnePath(t)
    BY DEF RailInv
  <2>4. /\ VaultSide(t)' => VaultSide(t)
        /\ Signed(t)' => Signed(t)
        /\ Offered(t)' => Offered(t)
        /\ Exists(t)' <=> Exists(t)
    BY <2>1, <2>2 DEF VaultSide, Signed, Offered, Exists
  <2> QED
    BY <2>1, <2>2, <2>3, <2>4 DEF OnePath
<1>7. CASE UNCHANGED vars
  BY <1>3, <1>7 DEF vars
<1> QED
  BY <1>1, <1>2, <1>4, <1>5, <1>6, <1>7 DEF Next

(* A trade draws money over one rail only: what the vault pays for never    *)
(* collects a signature too, however signatures, armings and crashes race.  *)
THEOREM OneRailOnly == Spec => []OneRail
<1>1. RailInv => OneRail
  BY DEF RailInv, OnePath, VaultSide, Signed, OneRail
<1> QED
  BY <1>1, InitTypeInv, NextTypeInv, InitRailInv, NextRailInv, PTL DEF Spec

-----------------------------------------------------------------------------
(* The capital ledger of the mandates, proved of Settlement: whatever order *)
(* allocations, releases, supersessions and retirements come in, none of    *)
(* them promises more than a mandate committed.                             *)

(* One mandate row, as CapitalWithinFunded wants it.                        *)
Within(c) == /\ c.allocated <= c.funded
             /\ c.status = "exhausted" => c.allocated = c.funded

(* Giving capital back, or retiring it, keeps a mandate row within.         *)
LEMMA GivenBack ==
    ASSUME NEW c \in Capital, Within(c), NEW n \in Nat
    PROVE  Within(Release(c, n)) /\ Within(Retire(c, n))
<1>1. ASSUME NEW d \in Capital, d.allocated <= d.funded
      PROVE  Within(Reopened(d))
  BY <1>1 DEF Reopened, Capital, MandateStatus, Within
<1>2. /\ c.allocated \in Nat /\ c.funded \in Nat /\ c.allocated <= c.funded
      /\ AtLeast0(c.allocated - n) \in Nat /\ AtLeast0(c.funded - n) \in Nat
      /\ AtLeast0(c.allocated - n) <= c.funded
      /\ AtLeast0(c.allocated - n) <= AtLeast0(c.funded - n)
  BY DEF Capital, Within, AtLeast0
<1>3. Within(Release(c, n))
  <2> DEFINE d == [c EXCEPT !.allocated = AtLeast0(c.allocated - n)]
  <2>1. Release(c, n) = Reopened(d)
    BY DEF Release
  <2>2. d \in Capital /\ d.allocated <= d.funded
    BY <1>2 DEF Capital
  <2> HIDE DEF d
  <2> QED
    BY <1>1, <2>1, <2>2
<1>4. Within(Retire(c, n))
  <2> DEFINE d == [c EXCEPT !.allocated = AtLeast0(c.allocated - n),
                            !.funded = AtLeast0(c.funded - n)]
  <2>1. Retire(c, n) = Reopened(d)
    BY DEF Retire
  <2>2. d \in Capital /\ d.allocated <= d.funded
    BY <1>2 DEF Capital
  <2> HIDE DEF d
  <2> QED
    BY <1>1, <2>1, <2>2
<1> QED
  BY <1>3, <1>4

(* Taking capital keeps a mandate row within, because no more than its      *)
(* headroom is taken.                                                       *)
LEMMA Taken ==
    ASSUME NEW c \in Capital, Within(c), NEW n \in Nat,
           n <= AtLeast0(c.funded - c.allocated)
    PROVE  Within(Allocate(c, n))
<1>1. c.allocated \in Nat /\ c.funded \in Nat /\ c.allocated + n <= c.funded
  BY DEF Capital, Within, AtLeast0
<1> DEFINE status == IF c.allocated + n >= c.funded THEN "exhausted" ELSE c.status
<1>2. Allocate(c, n) = [c EXCEPT !.allocated = c.allocated + n, !.status = status]
  BY DEF Allocate
<1>3. status = "exhausted" => c.allocated + n = c.funded
  BY <1>1 DEF Within
<1> HIDE DEF status
<1> QED
  BY <1>1, <1>2, <1>3 DEF Within, Capital

LEMMA NextWithin == TypeInv /\ CapitalWithinFunded /\ [Next]_vars
                        => CapitalWithinFunded'
<1> SUFFICES ASSUME TypeInv, CapitalWithinFunded, [Next]_vars
             PROVE  CapitalWithinFunded'
  OBVIOUS
<1>1. /\ capital \in [Mandates -> Capital]
      /\ \A m \in Mandates : Within(capital[m])
  BY DEF TypeInv, TypeOK, CapitalWithinFunded, Within
<1>2. ASSUME \A m \in Mandates : Within(capital'[m]) PROVE CapitalWithinFunded'
  BY <1>2 DEF CapitalWithinFunded, Within
<1>3. CASE UNCHANGED capital
  BY <1>1, <1>2, <1>3
<1>4. CASE StoreWrite
  <2> DEFINE w == Head(todo)
  <2>1. w \in Write
    BY <1>4, NextWrite DEF StoreWrite
  <2>2. w.terms.mandate \in Mandates /\ w.terms.price \in Nat
    BY <2>1, ConstantsAssumption DEF Write, Terms
  <2> HIDE DEF w
  <2>3. CASE WriteRelease(w)
    <3> DEFINE m == w.terms.mandate
    <3>1. capital' = [capital EXCEPT ![m] = Release(capital[m], w.terms.price)]
      BY <2>3 DEF WriteRelease
    <3>2. Within(Release(capital[m], w.terms.price))
      BY <1>1, <2>2, GivenBack
    <3> HIDE DEF m
    <3> QED
      BY <1>1, <1>2, <3>1, <3>2
  <2>4. CASE WriteHandOver(w)
    <3> DEFINE previous == HolderAmong(w.terms.invoice, Trades \ {w.trade})
               terms == TermsOf(previous)
    <3>1. CASE previous = NoTrade
      BY <1>3, <2>4, <3>1 DEF WriteHandOver
    <3>2. CASE previous # NoTrade
      <4>1. previous \in Trades /\ Exists(previous)
        BY <3>2, HolderIsLive DEF On
      <4>2. terms.price \in Nat /\ terms.mandate \in Mandates
        BY <4>1, ConstantsAssumption DEF TermsOf, Terms, TypeInv, WellFormed
      <4> HIDE DEF previous, terms
      <4>3. \/ capital' = [capital EXCEPT ![terms.mandate] =
                               Retire(capital[terms.mandate], terms.price)]
            \/ capital' = [capital EXCEPT ![terms.mandate] =
                               Release(capital[terms.mandate], terms.price)]
        BY <2>4, <3>2 DEF WriteHandOver, previous, terms
      <4>4. /\ Within(Retire(capital[terms.mandate], terms.price))
            /\ Within(Release(capital[terms.mandate], terms.price))
        BY <1>1, <4>2, GivenBack
      <4> QED
        BY <1>1, <1>2, <4>3, <4>4
    <3> QED
      BY <3>1, <3>2
  <2>5. CASE WriteTrade(w) \/ WriteSettled(w) \/ WriteSold(w) \/ WriteQuote(w)
    BY <1>3, <2>5 DEF WriteTrade, WriteSettled, WriteSold, WriteQuote
  <2> QED
    BY <1>4, <2>3, <2>4, <2>5 DEF StoreWrite, w
<1>5. ASSUME NEW r \in Requests, NEW t \in Trades, GateAdmits(r, t)
      PROVE  CapitalWithinFunded'
  <2> DEFINE terms == job[r].terms
             m == terms.mandate
  <2>1. /\ todo = <<>> /\ job[r].pc = "gate"
        /\ terms.price <= Free(m)
        /\ capital' = [capital EXCEPT ![m] = Allocate(capital[m], terms.price)]
    BY <1>5 DEF GateAdmits, Running
  <2>2. terms.price \in Nat /\ m \in Mandates
    <3>1. terms \in Terms
      BY <2>1, Formed DEF Carrying, Reads, Calls
    <3> QED
      BY <3>1, ConstantsAssumption DEF Terms
  <2> HIDE DEF terms, m
  <2>3. Within(Allocate(capital[m], terms.price))
    BY <1>1, <2>1, <2>2, Taken DEF Free
  <2> QED
    BY <1>1, <1>2, <2>1, <2>3
<1>6. ASSUME NEW r \in Requests, Client(r) \/ Outside(r) PROVE CapitalWithinFunded'
  BY <1>3, <1>6
     DEF Client, Sweep, Delist, ArmTrade, Pay, AskUnwind, Outside, CallRefused,
         PaymentDeclined, HoldCreated, HoldExecuted, HoldReleased, MatchRegistered,
         PayoutExecuted, PaymentSettled, Landed, Answer, rows
<1>7. ASSUME NEW r \in Requests, Handler(r) PROVE CapitalWithinFunded'
  BY <1>3, <1>5, <1>7
     DEF Handler, Reclaim, Refuse, GateRefuses, ReadFails, CallFails, ChooseRail,
         PositionRead, HoldAnswered, ChallengeBuilt, MatchAnswered, PayoutAnswered,
         DeliverAnswered, RequirementsBuilt, RequirementsFail, Verified,
         NotVerified, SettleAnswered, SettleDeclined, SettleFails,
         PaidDeliveryAnswered, ReleaseAnswered, rows
<1>8. /\ \A q \in Quotes, i \in Invoices : IssueQuote(q, i) => UNCHANGED capital
      /\ \A i \in Invoices : List(i) => UNCHANGED capital
      /\ \A t \in Trades : ExpireHold(t) \/ Age(t) => UNCHANGED capital
      /\ Crash \/ UNCHANGED vars => UNCHANGED capital
  BY DEF IssueQuote, List, ExpireHold, Age, Crash, rows, vars
<1> QED
  BY <1>3, <1>4, <1>6, <1>7, <1>8 DEF Next

(* No more capital is ever promised than was committed, and a mandate that  *)
(* reads exhausted has nothing left: racing armings that passed the same    *)
(* check before the gate are caught by the check after it.                  *)
THEOREM NeverOverAllocated == Spec => []CapitalWithinFunded
<1>1. Init => CapitalWithinFunded
  BY ConstantsAssumption DEF Init, CapitalWithinFunded
<1> QED
  BY <1>1, InitTypeInv, NextTypeInv, NextWithin, PTL DEF Spec

-----------------------------------------------------------------------------
(* One request at a time.                                                   *)

(* The regime: one request at a time, and a process that does not die.      *)
OneAtATime ==
    /\ \A r, s \in Requests : r = s
    /\ MaxCrashes = 0

(* The mandate's capital is promised to trade t.                            *)
InBooks(t) == \/ Armed(t)
              \/ row[t].status = "settled" /\ ~row[t].superseded
              \/ /\ row[t].status = "failed"
                 /\ \/ row[t].cashTransaction
                    \/ row[t].holdId /\ row[t].rail = "none"
Preparing(t) == row[t].status = "preparing"
Awaiting(t, rail) == row[t].status = "awaiting_payment" /\ row[t].rail = rail
Locked(t) == row[t].cashTransaction

(* What the columns of a row say together.                                  *)
RowFit(t) ==
    /\ Preparing(t) => /\ row[t].rail = "none" /\ ~row[t].holdId
                       /\ ~Locked(t) /\ ~row[t].arcLockId
    /\ row[t].status = "awaiting_payment" =>
           /\ row[t].holdId
           /\ row[t].rail \in {"none", "arc-vault"}
           /\ row[t].cashTransaction <=> row[t].arcLockId
           /\ Locked(t) => row[t].rail = "arc-vault"
    /\ row[t].superseded => row[t].status = "settled"

(* Trade t may fail, or end, and give its capital back.                     *)
Failing(t) == Armed(t) /\ ~Locked(t) /\ (row[t].holdId => row[t].rail # "none")
Closing(t) == (Armed(t) \/ row[t].status = "failed") /\ ~Locked(t)

(* The first of the writes finds the row as its handler read it, and the    *)
(* others follow from it.                                                   *)
Ready(writes, op, t) ==
    /\ op = "insert" => ~Exists(t)
    /\ op \in {"armed", "armedVault"} => Preparing(t)
    /\ op = "locked" => Awaiting(t, "arc-vault")
    /\ op = "settled" => Awaiting(t, "arc-vault") /\ Locked(t)
    /\ op \in {"paidSettled", "paidFailed"} => Awaiting(t, "none")
    /\ op = "release" => /\ Len(writes) > 1
                         /\ \/ writes[2].op = "failed" /\ Failing(t)
                            \/ writes[2].op = "unwound" /\ Closing(t)
    /\ op = "failed" => Failing(t) \/ (Awaiting(t, "arc-vault") /\ Locked(t))
    /\ op = "unwound" => Closing(t)
Later == {"sold", "accepted", "expired", "handover"}
TodoFit(writes) ==
    writes # <<>> =>
        /\ Ready(writes, writes[1].op, writes[1].trade)
        /\ writes[1].op # "insert" => writes[1].terms = TermsOf(writes[1].trade)
        /\ \A k \in 1..Len(writes) : /\ writes[k].trade = writes[1].trade
                                     /\ writes[k].terms = writes[1].terms
        /\ \A k \in 2..Len(writes) :
              \/ writes[k].op \in Later
              \/ /\ k = 2 /\ writes[1].op = "release"
                 /\ writes[k].op \in {"failed", "unwound"}

(* What the one request may rely on at its await, with writes to make.      *)
Own(j) == Exists(j.trade) /\ j.terms = TermsOf(j.trade)
JobFit(j, writes) ==
    /\ \A u \in j.batch : Armed(u) /\ (writes # <<>> => writes[1].trade # u)
    /\ j.pc \in Carrying => j.batch = {}
    /\ j.pc = "rail" =>
           IF writes = <<>> THEN Own(j) /\ Preparing(j.trade)
           ELSE /\ Len(writes) = 1 /\ writes[1].op = "insert"
                /\ writes[1].trade = j.trade /\ writes[1].terms = j.terms
    /\ j.pc \in {"position", "createHold", "challenge"} =>
           writes = <<>> /\ Own(j) /\ Preparing(j.trade)
    /\ j.pc = "register" =>
           /\ Own(j)
           /\ IF writes = <<>> THEN Awaiting(j.trade, "arc-vault") /\ ~Locked(j.trade)
              ELSE /\ Len(writes) = 1 /\ writes[1].op = "armedVault"
                   /\ writes[1].trade = j.trade
    /\ j.pc = "payout" =>
           writes = <<>> /\ Own(j) /\ Awaiting(j.trade, "arc-vault") /\ ~Locked(j.trade)
    /\ j.pc = "deliver" =>
           /\ Own(j) /\ Awaiting(j.trade, "arc-vault")
           /\ writes # <<>> => /\ writes[1].trade = j.trade
                               /\ writes[1].op \in {"locked"} \cup Later
           /\ Locked(j.trade) \/ (writes # <<>> /\ writes[1].op = "locked")
    /\ j.pc \in {"requirements", "verify", "settle", "deliverPaid"} =>
           writes = <<>> /\ Own(j) /\ Awaiting(j.trade, "none")
    /\ j.pc = "releaseHold" =>
           writes = <<>> /\ Closing(j.trade) /\ j.trade \notin j.batch

(* The paper of invoice i, and who may answer for it.                       *)
Live(i) == {t \in On(i) : row[t].status = "settled" /\ ~row[t].superseded}
TodoHolds(writes) ==
    \A k \in 1..Len(writes) :
        /\ writes[k].op \in {"settled", "paidSettled"} =>
               owner[writes[k].terms.invoice] = writes[k].terms.mandate
        /\ writes[k].op = "settled" => Live(writes[k].terms.invoice) = {}
        /\ writes[k].op = "paidSettled" => Among(writes, {"handover"}, writes[k].trade)
JobHolds(j, writes) ==
    /\ j.pc = "deliver" => \/ Live(j.terms.invoice) = {}
                           \/ Among(writes, {"handover"}, j.trade)
    /\ j.pc \in {"deliver", "deliverPaid"} /\ j.heard = "ok" =>
           owner[j.terms.invoice] = j.terms.mandate

InStep ==
    /\ \A t \in Trades : RowFit(t)
    /\ TodoFit(todo)
    /\ \A r \in Requests : JobFit(job[r], todo)

Handing(t) == Among(todo, {"handover"}, t)
OneHolder ==
    /\ \A i \in Invoices : \A t, u \in Live(i) : t = u \/ Handing(t) \/ Handing(u)
    /\ \A i \in Invoices : \A t \in Live(i) :
          \/ owner[i] = TermsOf(t).mandate
          \/ DeliveredUnawares(i)
          \/ \E u \in On(i) : u # t /\ Handing(u)
    /\ TodoHolds(todo)
    /\ \A r \in Requests : JobHolds(job[r], todo)

(* Between two writes, a trade about to be inserted has its capital         *)
(* already, and one about to end has given it back.                         *)
Ending(t) == /\ todo # <<>> /\ todo[1].trade = t
             /\ todo[1].op \in {"failed", "unwound"} /\ ~Locked(t)
Booked(t) == Inserting(t) \/ (InBooks(t) /\ ~Ending(t))
BookTerms(t) == IF Exists(t) THEN TermsOf(t) ELSE todo[1].terms
BookPrice == [t \in Trades |-> BookTerms(t).price]
Books(m) == {t \in Trades : Booked(t) /\ BookTerms(t).mandate = m}

(* Trades that gave back twice: unwound after their arming had failed, or   *)
(* about to read so.                                                        *)
Undone(t) == row[t].status = "unwound" /\ ~(row[t].holdId /\ row[t].rail = "none")
Repeated(t) == \/ Undone(t)
               \/ /\ row[t].status = "failed" /\ ~InBooks(t)
                  /\ todo # <<>> /\ todo[1].trade = t /\ todo[1].op = "unwound"
Again(m) == {t \in Trades : Repeated(t) /\ TermsOf(t).mandate = m}

Balanced ==
    \A m \in Mandates :
        /\ capital[m].allocated <= Total(BookPrice, Books(m))
        /\ Total(BookPrice, Books(m)) <= capital[m].allocated + Total(PriceOf, Again(m))

(* Rows that exist stay, on their terms.                                    *)
Kept(t) == Exists(t)' /\ TermsOf(t)' = TermsOf(t)

(* A step takes back nothing of what was given back twice.                  *)
AgainKept ==
    \A t \in Trades : /\ Exists(t) => Kept(t)
                      /\ Repeated(t) => Repeated(t)'
                      /\ Repeated(t)' => Exists(t)

-----------------------------------------------------------------------------

LEMMA PriceTyped ==
    ASSUME TypeInv, NEW t \in Trades
    PROVE  PriceOf[t] \in Nat /\ (Exists(t) => PriceOf[t] = TermsOf(t).price)
<1>1. Exists(t) => TermsOf(t) \in Terms
  BY DEF TypeInv, WellFormed, TermsOf
<1> QED
  BY <1>1, ConstantsAssumption DEF PriceOf, Terms

LEMMA TradesFinite == IsFiniteSet(Trades)
BY ConstantsAssumption, FS_Interval DEF Trades

LEMMA BookTermsTyped ==
    ASSUME TypeInv, NEW t \in Trades, Booked(t)
    PROVE  /\ BookTerms(t) \in Terms
           /\ BookPrice[t] \in Nat
           /\ BookPrice[t] = BookTerms(t).price
<1>1. ASSUME NEW terms \in Terms PROVE terms.price \in Nat
  BY ConstantsAssumption DEF Terms
<1>2. CASE Exists(t)
  BY <1>1, <1>2 DEF TypeInv, WellFormed, BookTerms, TermsOf, BookPrice
<1>3. CASE ~Exists(t)
  <2>1. Inserting(t)
    BY <1>3 DEF Booked, InBooks, Armed, Exists
  <2>2. PICK k \in 1..Len(todo) : todo[k].op = "insert"
    BY <2>1 DEF Inserting
  <2>3. todo \in Seq(Write) /\ Len(todo) = 1
    BY <2>2 DEF TypeInv, TypeOK, WellFormed
  <2>4. todo[1] \in Write /\ todo[1].op = "insert"
    BY <2>2, <2>3, ElementOfSeq
  <2>5. todo[1].terms \in Terms
    BY <2>4 DEF Write
  <2> QED
    BY <1>1, <1>3, <2>5 DEF BookTerms, BookPrice
<1> QED
  BY <1>2, <1>3

(* What was given back twice only grows.                                    *)
LEMMA AgainGrows ==
    ASSUME TypeInv, AgainKept, NEW m
    PROVE  /\ IsFiniteSet(Again(m)) /\ IsFiniteSet(Again(m)')
           /\ Again(m) \subseteq Again(m)'
           /\ \A t \in Again(m)' : PriceOf[t] \in Nat /\ PriceOf'[t] = PriceOf[t]
           /\ Total(PriceOf, Again(m)) \in Nat
           /\ Total(PriceOf', Again(m)') = Total(PriceOf, Again(m)')
           /\ Total(PriceOf, Again(m)') \in Nat
           /\ Total(PriceOf, Again(m)) <= Total(PriceOf, Again(m)')
<1>1. Again(m) \subseteq Trades /\ Again(m)' \subseteq Trades
  BY DEF Again, Trades
<1>2. IsFiniteSet(Again(m)) /\ IsFiniteSet(Again(m)')
  BY <1>1, TradesFinite, FS_Subset
<1>3. \A t \in Trades : Repeated(t) => Exists(t)
  BY DEF Repeated, Undone, Exists
<1>4. Again(m) \subseteq Again(m)'
  BY <1>3 DEF Again, AgainKept, Kept
<1>5. ASSUME NEW t \in Again(m)'
      PROVE  PriceOf[t] \in Nat /\ PriceOf'[t] = PriceOf[t]
  <2>1. t \in Trades /\ Exists(t) /\ Kept(t)
    BY <1>1, <1>5 DEF Again, AgainKept
  <2> QED
    BY <2>1, PriceTyped DEF PriceOf, Kept
<1>6. Total(PriceOf', Again(m)') = Total(PriceOf, Again(m)')
  BY <1>2, <1>5, TotalSame
<1>7. Total(PriceOf, Again(m)) \in Nat /\ Total(PriceOf, Again(m)') \in Nat
  BY <1>2, <1>4, <1>5, TotalNat
<1>8. Total(PriceOf, Again(m)) <= Total(PriceOf, Again(m)')
  <2>1. PICK S : S = Again(m)'
    OBVIOUS
  <2>2. Total(PriceOf, Again(m)) <= Total(PriceOf, S) + Total(PriceOf, {})
    BY <1>2, <1>4, <1>5, <2>1, FS_EmptySet, TotalCover
  <2>3. Total(PriceOf, {}) = 0
    BY TotalEmpty
  <2> QED
    BY <1>7, <2>1, <2>2, <2>3
<1> QED
  BY <1>2, <1>4, <1>5, <1>6, <1>7, <1>8

(* What the books come to is a number.                                      *)
LEMMA BooksTotal ==
    ASSUME TypeInv, NEW m \in Mandates
    PROVE  /\ IsFiniteSet(Books(m))
           /\ \A t \in Books(m) : BookPrice[t] \in Nat
           /\ Total(BookPrice, Books(m)) \in Nat
           /\ capital[m].allocated \in Nat
<1>1. IsFiniteSet(Books(m))
  BY TradesFinite, FS_Subset DEF Books
<1>2. \A t \in Books(m) : BookPrice[t] \in Nat
  BY BookTermsTyped DEF Books
<1>3. capital[m].allocated \in Nat
  BY DEF TypeInv, TypeOK, Capital
<1> QED
  BY <1>1, <1>2, <1>3, TotalNat

(* A step that leaves books and allocation keeps them balanced.             *)
LEMMA BooksSame ==
    ASSUME TypeInv, Balanced, AgainKept,
           \A t \in Trades : Booked(t)' <=> Booked(t),
           \A t \in Trades : Booked(t) => BookTerms(t)' = BookTerms(t),
           \A m \in Mandates : capital'[m].allocated = capital[m].allocated
    PROVE  Balanced'
<1> SUFFICES ASSUME NEW m \in Mandates
             PROVE  /\ capital'[m].allocated <= Total(BookPrice', Books(m)')
                    /\ Total(BookPrice', Books(m)')
                           <= capital'[m].allocated + Total(PriceOf', Again(m)')
  BY DEF Balanced
<1>1. Books(m)' = Books(m)
  BY DEF Books
<1>2. \A t \in Books(m) : BookPrice'[t] = BookPrice[t]
  BY DEF Books, BookPrice
<1>3. Total(BookPrice', Books(m)') = Total(BookPrice, Books(m))
  BY <1>1, <1>2, BooksTotal, TotalSame
<1>4. PICK a \in Nat, b \in Nat, g \in Nat, h \in Nat :
          /\ a = capital[m].allocated /\ b = Total(BookPrice, Books(m))
          /\ g = Total(PriceOf, Again(m)) /\ h = Total(PriceOf', Again(m)') /\ g <= h
  BY BooksTotal, AgainGrows
<1>5. a <= b /\ b <= a + g
  BY <1>4 DEF Balanced
<1>6. a <= b /\ b <= a + h
  BY <1>4, <1>5
<1> QED
  BY <1>3, <1>4, <1>6

(* One trade leaves the books, and its mandate has its price back.          *)
LEMMA BooksDrop ==
    ASSUME TypeInv, Balanced, AgainKept, NEW p \in Trades, Booked(p),
           \A t \in Trades : Booked(t)' <=> Booked(t) /\ t # p,
           \A t \in Trades : Booked(t) => BookTerms(t)' = BookTerms(t),
           \A m \in Mandates : capital'[m].allocated =
               IF m = BookTerms(p).mandate
               THEN AtLeast0(capital[m].allocated - BookTerms(p).price)
               ELSE capital[m].allocated
    PROVE  Balanced'
<1> SUFFICES ASSUME NEW m \in Mandates
             PROVE  /\ capital'[m].allocated <= Total(BookPrice', Books(m)')
                    /\ Total(BookPrice', Books(m)')
                           <= capital'[m].allocated + Total(PriceOf', Again(m)')
  BY DEF Balanced
<1>1. Books(m)' = Books(m) \ {p}
  BY DEF Books
<1>2. IsFiniteSet(Books(m)) /\ IsFiniteSet(Books(m)')
  BY <1>1, TradesFinite, FS_Subset DEF Books
<1>3. \A t \in Books(m)' : BookPrice'[t] = BookPrice[t]
  BY <1>1 DEF Books, BookPrice
<1>4. Total(BookPrice', Books(m)') = Total(BookPrice, Books(m)')
  BY <1>2, <1>3, TotalSame
<1>5. \A t \in Books(m) : BookPrice[t] \in Nat /\ BookPrice[t] = BookTerms(t).price
  BY BookTermsTyped DEF Books
<1>6. PICK a \in Nat, b \in Nat, g \in Nat, h \in Nat :
          /\ a = capital[m].allocated /\ b = Total(BookPrice, Books(m))
          /\ g = Total(PriceOf, Again(m)) /\ h = Total(PriceOf', Again(m)') /\ g <= h
  BY BooksTotal, AgainGrows
<1>7. a <= b /\ b <= a + g
  BY <1>6 DEF Balanced
<1>8. CASE m = BookTerms(p).mandate
  <2>1. p \in Books(m)
    BY <1>8 DEF Books
  <2>2. b = BookPrice[p] + Total(BookPrice, Books(m) \ {p})
    BY <1>2, <1>5, <1>6, <2>1, TotalRemove
  <2>3. Total(BookPrice, Books(m)') \in Nat
    BY <1>1, <1>2, <1>5, TotalNat
  <2>4. PICK n \in Nat, c \in Nat :
            n = BookPrice[p] /\ n = BookTerms(p).price /\ c = Total(BookPrice, Books(m)')
    BY <1>5, <2>1, <2>3
  <2>5. b = n + c
    BY <1>1, <2>2, <2>4
  <2>6. AtLeast0(a - n) <= c /\ c <= AtLeast0(a - n) + h
    BY <1>6, <1>7, <2>5 DEF AtLeast0
  <2>7. capital'[m].allocated = AtLeast0(a - n)
    BY <1>6, <1>8, <2>4
  <2> QED
    BY <1>4, <1>6, <2>4, <2>6, <2>7
<1>9. CASE m # BookTerms(p).mandate
  <2>1. Total(BookPrice', Books(m)') = b /\ capital'[m].allocated = a
    BY <1>1, <1>4, <1>6, <1>9 DEF Books
  <2>2. a <= b /\ b <= a + h
    BY <1>6, <1>7
  <2> QED
    BY <1>6, <2>1, <2>2
<1> QED
  BY <1>8, <1>9

(* A trade that is in no books gives its price back once more.              *)
LEMMA BooksAgain ==
    ASSUME TypeInv, Balanced, AgainKept, NEW p \in Trades, ~Repeated(p), Repeated(p)',
           \A t \in Trades : Booked(t)' <=> Booked(t),
           \A t \in Trades : Booked(t) => BookTerms(t)' = BookTerms(t),
           \A m \in Mandates : capital'[m].allocated =
               IF m = TermsOf(p).mandate
               THEN AtLeast0(capital[m].allocated - TermsOf(p).price)
               ELSE capital[m].allocated
    PROVE  Balanced'
<1> SUFFICES ASSUME NEW m \in Mandates
             PROVE  /\ capital'[m].allocated <= Total(BookPrice', Books(m)')
                    /\ Total(BookPrice', Books(m)')
                           <= capital'[m].allocated + Total(PriceOf', Again(m)')
  BY DEF Balanced
<1>1. Books(m)' = Books(m)
  BY DEF Books
<1>2. \A t \in Books(m) : BookPrice'[t] = BookPrice[t]
  BY DEF Books, BookPrice
<1>3. Total(BookPrice', Books(m)') = Total(BookPrice, Books(m))
  BY <1>1, <1>2, BooksTotal, TotalSame
<1>4. PICK a \in Nat, b \in Nat, g \in Nat, h \in Nat :
          /\ a = capital[m].allocated /\ b = Total(BookPrice, Books(m))
          /\ g = Total(PriceOf, Again(m)) /\ h = Total(PriceOf', Again(m)') /\ g <= h
  BY BooksTotal, AgainGrows
<1>5. a <= b /\ b <= a + g
  BY <1>4 DEF Balanced
<1>6. Exists(p) /\ Kept(p)
  BY DEF AgainKept
<1>7. CASE m = TermsOf(p).mandate
  <2>1. p \in Again(m)' /\ p \notin Again(m)
    BY <1>6, <1>7 DEF Again, Kept
  <2>2. PICK S : S = Again(m)'
    OBVIOUS
  <2>3. /\ IsFiniteSet(S) /\ \A t \in S : PriceOf[t] \in Int
        /\ Again(m) \subseteq S \ {p} /\ h = Total(PriceOf, S)
    BY <1>4, <2>1, <2>2, AgainGrows
  <2>4. h = PriceOf[p] + Total(PriceOf, S \ {p})
    BY <2>1, <2>2, <2>3, TotalRemove
  <2>5. g <= Total(PriceOf, S \ {p}) + Total(PriceOf, {})
    <3>1. IsFiniteSet(S \ {p}) /\ IsFiniteSet({})
      BY <2>3, FS_Subset, FS_EmptySet
    <3>2. \A t \in (S \ {p}) \cup {} : PriceOf[t] \in Nat
      BY <2>2, AgainGrows
    <3> QED
      BY <1>4, <2>3, <3>1, <3>2, TotalCover
  <2>6. Total(PriceOf, {}) = 0 /\ Total(PriceOf, S \ {p}) \in Int
    BY <2>3, FS_Subset, TotalEmpty, TotalInt
  <2>7. PICK n \in Nat : n = PriceOf[p] /\ n = TermsOf(p).price
    BY <1>6, PriceTyped
  <2>8. AtLeast0(a - n) <= b /\ b <= AtLeast0(a - n) + h
    BY <1>4, <1>5, <2>4, <2>5, <2>6, <2>7 DEF AtLeast0
  <2>9. capital'[m].allocated = AtLeast0(a - n)
    BY <1>4, <1>7, <2>7
  <2> QED
    BY <1>3, <1>4, <2>8, <2>9
<1>8. CASE m # TermsOf(p).mandate
  <2>1. capital'[m].allocated = a
    BY <1>4, <1>8
  <2>2. a <= b /\ b <= a + h
    BY <1>4, <1>5
  <2> QED
    BY <1>3, <1>4, <2>1, <2>2
<1> QED
  BY <1>7, <1>8

(* One trade enters the books, its price taken of its mandate.              *)
LEMMA BooksAdd ==
    ASSUME TypeInv, Balanced, AgainKept, NEW p \in Trades, ~Booked(p), Booked(p)',
           BookTerms(p)'.price \in Nat,
           \A t \in Trades \ {p} : Booked(t)' <=> Booked(t),
           \A t \in Trades \ {p} : Booked(t) => BookTerms(t)' = BookTerms(t),
           \A m \in Mandates : capital'[m].allocated =
               IF m = BookTerms(p)'.mandate
               THEN capital[m].allocated + BookTerms(p)'.price
               ELSE capital[m].allocated
    PROVE  Balanced'
<1> SUFFICES ASSUME NEW m \in Mandates
             PROVE  /\ capital'[m].allocated <= Total(BookPrice', Books(m)')
                    /\ Total(BookPrice', Books(m)')
                           <= capital'[m].allocated + Total(PriceOf', Again(m)')
  BY DEF Balanced
<1>1. p \notin Books(m)
  BY DEF Books
<1>2. IsFiniteSet(Books(m))
  BY TradesFinite, FS_Subset DEF Books
<1>3. \A t \in Books(m) : /\ BookPrice[t] \in Int
                          /\ BookPrice'[t] = BookPrice[t]
  <2> SUFFICES ASSUME NEW t \in Books(m)
               PROVE  BookPrice[t] \in Int /\ BookPrice'[t] = BookPrice[t]
    OBVIOUS
  <2>1. t \in Trades \ {p} /\ Booked(t)
    BY <1>1 DEF Books
  <2>2. BookPrice[t] \in Nat
    BY <2>1, BookTermsTyped
  <2> QED
    BY <2>1, <2>2 DEF BookPrice
<1>4. PICK a \in Nat, b \in Nat, g \in Nat, h \in Nat :
          /\ a = capital[m].allocated /\ b = Total(BookPrice, Books(m))
          /\ g = Total(PriceOf, Again(m)) /\ h = Total(PriceOf', Again(m)') /\ g <= h
  BY BooksTotal, AgainGrows
<1>5. a <= b /\ b <= a + g
  BY <1>4 DEF Balanced
<1>6. PICK n \in Nat : n = BookPrice'[p] /\ n = BookTerms(p)'.price
  BY DEF BookPrice
<1>7. CASE m = BookTerms(p)'.mandate
  <2>1. Books(m)' = Books(m) \cup {p}
    BY <1>7 DEF Books
  <2>2. Total(BookPrice', Books(m) \cup {p}) = Total(BookPrice, Books(m)) + BookPrice'[p]
    <3>1. BookPrice'[p] \in Int
      BY <1>6
    <3> QED
      BY <1>1, <1>2, <1>3, <3>1, TotalEnter
  <2>3. Total(BookPrice', Books(m)') = b + n /\ capital'[m].allocated = a + n
    BY <1>4, <1>6, <1>7, <2>1, <2>2
  <2>4. a + n <= b + n /\ b + n <= a + n + h
    BY <1>4, <1>5
  <2> QED
    BY <1>4, <2>3, <2>4
<1>8. CASE m # BookTerms(p)'.mandate
  <2>1. Books(m)' = Books(m)
    BY <1>8 DEF Books
  <2>2. Total(BookPrice', Books(m)') = b /\ capital'[m].allocated = a
    BY <1>2, <1>3, <1>4, <1>8, <2>1, TotalSame
  <2>3. a <= b /\ b <= a + h
    BY <1>4, <1>5
  <2> QED
    BY <1>4, <2>2, <2>3
<1> QED
  BY <1>7, <1>8

(* A handler that moves on, or ends, queueing writes.                       *)
Fits(j, writes) ==
    /\ TodoFit(writes) /\ TodoHolds(writes)
    /\ JobFit(j, writes) /\ JobHolds(j, writes)
    /\ writes # <<>> => /\ writes[1].op \notin {"insert", "unwound"}
                        /\ writes[1].op = "failed" => Locked(writes[1].trade)

SerialInv == InStep /\ OneHolder /\ Balanced

LEMMA QueueInStep ==
    ASSUME InStep, OneAtATime, NEW r \in Requests, NEW j, NEW writes,
           job \in [Requests -> Job], GoOn(r, j, writes), UNCHANGED row,
           TodoFit(writes), JobFit(j, writes)
    PROVE  InStep'
<1>1. todo' = writes /\ job'[r] = j /\ row' = row
  BY DEF GoOn
<1>2. TodoFit(todo)'
  BY <1>1 DEF TodoFit, Ready, Preparing, Awaiting, Locked, Failing, Closing, InBooks,
              Exists, Armed, TermsOf
<1>3. ASSUME NEW s \in Requests PROVE JobFit(job[s], todo)'
  <2>1. job'[s] = j
    BY <1>1 DEF OneAtATime
  <2> QED
    BY <1>1, <2>1 DEF JobFit, Own, Preparing, Awaiting, Locked, Closing, InBooks,
                      Exists, Armed, TermsOf
<1>4. \A t \in Trades : RowFit(t)'
  BY <1>1 DEF InStep, RowFit, Preparing, Locked
<1> QED
  BY <1>2, <1>3, <1>4 DEF InStep

LEMMA QueueOneHolder ==
    ASSUME OneHolder, OneAtATime, NEW r \in Requests, NEW j, NEW writes, todo = <<>>,
           job \in [Requests -> Job], GoOn(r, j, writes), UNCHANGED <<row, owner, hold>>,
           TodoHolds(writes), JobHolds(j, writes)
    PROVE  OneHolder'
<1>1. todo' = writes /\ job'[r] = j /\ row' = row /\ owner' = owner /\ hold' = hold
  BY DEF GoOn
<1>2. \A i : Live(i)' = Live(i) /\ On(i)' = On(i)
             /\ DeliveredUnawares(i)' = DeliveredUnawares(i)
  BY <1>1 DEF Live, On, Exists, TermsOf, DeliveredUnawares
<1>3. \A t : ~Handing(t)
  BY DEF Handing, Among
<1>4. \A i \in Invoices : \A t, u \in Live(i) : t = u
  BY <1>3 DEF OneHolder
<1>5. \A i \in Invoices : \A t \in Live(i) :
          owner[i] = TermsOf(t).mandate \/ DeliveredUnawares(i)
  BY <1>3 DEF OneHolder
<1>6. TodoHolds(todo)'
  BY <1>1 DEF TodoHolds, Among, Live, On, Exists, TermsOf
<1>7. ASSUME NEW s \in Requests PROVE JobHolds(job[s], todo)'
  <2>1. job'[s] = j
    BY <1>1 DEF OneAtATime
  <2> QED
    BY <1>1, <2>1 DEF JobHolds, Among, Live, On, Exists, TermsOf
<1>8. (\A i \in Invoices : \A t, u \in Live(i) : t = u \/ Handing(t) \/ Handing(u))'
  BY <1>2, <1>4
<1>9. (\A i \in Invoices : \A t \in Live(i) :
          owner[i] = TermsOf(t).mandate \/ DeliveredUnawares(i))'
  BY <1>1, <1>2, <1>5 DEF TermsOf
<1> QED
  BY <1>6, <1>7, <1>8, <1>9 DEF OneHolder

LEMMA QueueBalanced ==
    ASSUME TypeInv, Balanced, todo = <<>>, NEW writes \in Seq(Write), todo' = writes,
           UNCHANGED <<row, capital>>, TodoFit(writes),
           writes # <<>> => /\ writes[1].op \notin {"insert", "unwound"}
                            /\ writes[1].op = "failed" => Locked(writes[1].trade)
    PROVE  Balanced'
<1>1. \A k \in 1..Len(writes) : writes[k].op # "insert"
  BY EmptySeq DEF TodoFit, Later
<1>2. ASSUME NEW t PROVE /\ ~Inserting(t) /\ ~Inserting(t)'
                         /\ ~Ending(t) /\ ~Ending(t)'
  BY <1>1 DEF Inserting, Ending, Locked
<1>3. \A t : Booked(t)' <=> Booked(t)
  BY <1>2 DEF Booked, InBooks, Armed
<1>4. \A t : Booked(t) => BookTerms(t)' = BookTerms(t)
  BY <1>2 DEF Booked, InBooks, Armed, BookTerms, Exists, TermsOf
<1>5. AgainKept
  <2>1. \A t : Repeated(t)' <=> Repeated(t)
    BY DEF Repeated, Undone, InBooks, Armed
  <2> QED
    BY <2>1 DEF AgainKept, Kept, Exists, TermsOf, Repeated, Undone
<1> QED
  BY <1>3, <1>4, <1>5, BooksSame

LEMMA QueueSerial ==
    ASSUME TypeInv, SerialInv, OneAtATime, NEW r \in Requests, NEW j,
           NEW writes \in Seq(Write), todo = <<>>, GoOn(r, j, writes),
           UNCHANGED <<row, capital, owner, hold>>, Fits(j, writes)
    PROVE  SerialInv'
<1>1. job \in [Requests -> Job] /\ todo' = writes
  BY DEF TypeInv, TypeOK, GoOn
<1>2. InStep' /\ OneHolder'
  BY <1>1, QueueInStep, QueueOneHolder DEF Fits, SerialInv
<1>3. Balanced'
  BY <1>1, QueueBalanced DEF Fits, SerialInv
<1> QED
  BY <1>2, <1>3 DEF SerialInv

(* A request that ends, or sweeps on, with nothing to write.                *)
LEMMA RestFits ==
    ASSUME NEW j, j.pc \in Handlers \cup {"reclaim"}, \A u \in j.batch : Armed(u)
    PROVE  Fits(j, <<>>)
BY DEF Fits, TodoFit, TodoHolds, JobFit, JobHolds, Handlers, Carrying, Reads, Calls

(* A request that ends, or sweeps on, and writes of a trade it does not     *)
(* sweep.                                                                   *)
LEMMA EndFits ==
    ASSUME NEW j, j.pc \in Handlers \cup {"reclaim"}, NEW t \in Trades,
           \A u \in j.batch : Armed(u) /\ u # t,
           NEW ops \in Seq(WriteOps), Len(ops) > 0, TermsOf(t) \in Terms,
           NEW writes, writes = Writes(ops, t, TermsOf(t)),
           Ready(writes, ops[1], t), ops[1] \notin {"insert", "unwound"},
           ops[1] = "failed" => Locked(t),
           \A k \in 2..Len(ops) : \/ ops[k] \in Later
                                  \/ /\ k = 2 /\ ops[1] = "release"
                                     /\ ops[k] \in {"failed", "unwound"},
           \A k \in 1..Len(ops) :
               /\ ops[k] \in {"settled", "paidSettled"} =>
                      owner[TermsOf(t).invoice] = TermsOf(t).mandate
               /\ ops[k] = "settled" => Live(TermsOf(t).invoice) = {}
               /\ ops[k] = "paidSettled" => \E n \in 1..Len(ops) : ops[n] = "handover"
    PROVE  Fits(j, writes) /\ writes \in Seq(Write)
<1>1. /\ writes \in Seq(Write) /\ Len(writes) = Len(ops)
      /\ \A k \in 1..Len(ops) : /\ writes[k].op = ops[k] /\ writes[k].trade = t
                               /\ writes[k].terms = TermsOf(t)
  BY WritesTyped
<1>2. writes # <<>> /\ 1 \in 1..Len(ops) /\ 2..Len(ops) \subseteq 1..Len(ops)
  <2>1. Len(ops) \in Nat
    BY LenProperties
  <2> QED
    BY <1>1, <2>1, EmptySeq
<1>3. TodoFit(writes)
  BY <1>1, <1>2 DEF TodoFit
<1>4. TodoHolds(writes)
  BY <1>1, <1>2 DEF TodoHolds, Among
<1>5. JobFit(j, writes) /\ JobHolds(j, writes)
  BY <1>1, <1>2 DEF JobFit, JobHolds, Handlers, Carrying, Reads, Calls
<1> QED
  BY <1>1, <1>2, <1>3, <1>4, <1>5 DEF Fits

LEMMA MoveSerial ==
    ASSUME TypeInv, SerialInv, OneAtATime, NEW r \in Requests, NEW j, todo = <<>>,
           GoOn(r, j, <<>>), UNCHANGED <<row, capital, owner, hold>>, Fits(j, <<>>)
    PROVE  SerialInv'
<1> DEFINE writes == <<>>
<1>1. writes \in Seq(Write) /\ GoOn(r, j, writes) /\ Fits(j, writes)
  OBVIOUS
<1> HIDE DEF writes
<1> QED
  BY <1>1, QueueSerial

LEMMA UnwindOps ==
    ASSUME TypeInv, NEW t \in Trades, Exists(t), Closing(t),
           NEW j, j.pc \in Handlers \cup {"reclaim"}, \A u \in j.batch : Armed(u) /\ u # t
    PROVE  Fits(j, UnwindWrites(t)) /\ UnwindWrites(t) \in Seq(Write)
<1> DEFINE ops == <<"release", "unwound", "expired">>
           writes == UnwindWrites(t)
<1>1. TermsOf(t) \in Terms
  BY DEF TypeInv, WellFormed, TermsOf
<1>2. /\ ops \in Seq(WriteOps) /\ Len(ops) = 3
      /\ ops[1] = "release" /\ ops[2] = "unwound" /\ ops[3] = "expired"
  BY DEF WriteOps
<1>3. writes = Writes(ops, t, TermsOf(t))
  BY DEF UnwindWrites
<1> HIDE DEF ops, writes
<1>4. Len(writes) = 3 /\ writes[2].op = "unwound"
  BY <1>1, <1>2, <1>3, WritesTyped
<1>5. Ready(writes, ops[1], t)
  BY <1>2, <1>4 DEF Ready
<1>6. \A k \in 1..3 : k = 1 \/ k = 2 \/ k = 3
  OBVIOUS
<1>7. Fits(j, writes) /\ writes \in Seq(Write)
  BY <1>1, <1>2, <1>3, <1>5, <1>6, EndFits DEF Later
<1> QED
  BY <1>7 DEF writes

LEMMA UnwindSerial ==
    ASSUME TypeInv, SerialInv, OneAtATime, NEW r \in Requests, todo = <<>>,
           NEW t \in Trades, Exists(t),
           NEW batch \in SUBSET Trades, NEW after \in Handlers,
           \A u \in batch : Armed(u) /\ u # t,
           Unwind(r, t, batch, after), UNCHANGED <<row, capital, owner, hold>>
    PROVE  SerialInv'
<1>1. /\ Swept(batch, after).pc \in Handlers \cup {"reclaim"}
      /\ Swept(batch, after).batch = batch
  BY SweptJob
<1>2. CASE GoOn(r, Swept(batch, after), <<>>)
  BY <1>1, <1>2, RestFits, MoveSerial
<1>3. ASSUME ~UnwindRefused(t) PROVE Closing(t)
  <2>1. row[t].status \in TradeStatus
    BY DEF TypeInv, TypeOK, Row
  <2> QED
    BY <1>3, <2>1 DEF UnwindRefused, Closing, Armed, Locked, Exists, TradeStatus
<1>4. CASE ~UnwindRefused(t) /\ GoOn(r, Swept(batch, after), UnwindWrites(t))
  BY <1>1, <1>3, <1>4, UnwindOps, QueueSerial
<1>5. CASE /\ ~UnwindRefused(t)
           /\ GoOn(r, [IdleJob EXCEPT !.pc = "releaseHold", !.trade = t,
                                      !.batch = batch, !.after = after], <<>>)
  <2> DEFINE j == [IdleJob EXCEPT !.pc = "releaseHold", !.trade = t,
                                  !.batch = batch, !.after = after]
  <2>1. j.pc = "releaseHold" /\ j.trade = t /\ j.batch = batch
    BY DEF IdleJob
  <2>2. GoOn(r, j, <<>>)
    BY <1>5
  <2> HIDE DEF j
  <2>3. Fits(j, <<>>)
    BY <1>3, <1>5, <2>1 DEF Fits, TodoFit, TodoHolds, JobFit, JobHolds, Carrying
  <2> QED
    BY <2>2, <2>3, MoveSerial
<1> QED
  BY <1>2, <1>4, <1>5 DEF Unwind

LEMMA ClientSerial ==
    ASSUME TypeInv, SerialInv, OneAtATime, NEW r \in Requests, Client(r)
    PROVE  SerialInv'
<1> DEFINE Quietly == todo = <<>> /\ UNCHANGED <<row, capital, owner, hold>>
<1>1. Quietly
  <2>1. \A handler \in Handlers : Sweep(r, handler) => Quietly
    BY DEF Sweep, Running, rows, chain
  <2>2. \A i \in Invoices : Delist(r, i) => Quietly
    BY DEF Delist, Starting, Running, chain
  <2>3. \A i \in Invoices, q \in Quotes, m \in Mandates, price \in Prices :
            ArmTrade(r, i, q, m, price) => Quietly
    <3> SUFFICES ASSUME NEW i \in Invoices, NEW q \in Quotes, NEW m \in Mandates,
                        NEW price \in Prices, ArmTrade(r, i, q, m, price)
                 PROVE  Quietly
      OBVIOUS
    <3>1. Starting(r) /\ UNCHANGED <<rows, chain, bounds>>
      BY DEF ArmTrade
    <3> QED
      BY <3>1 DEF Starting, Running, rows, chain
  <2>4. \A t \in Trades, p \in Payments : Pay(r, t, p) => Quietly
    BY DEF Pay, Starting, Running, rows, chain
  <2>5. \A t \in Trades : AskUnwind(r, t) => Quietly
    BY DEF AskUnwind, Running, rows, chain
  <2> HIDE DEF Quietly
  <2> QED
    BY <2>1, <2>2, <2>3, <2>4, <2>5 DEF Client
<1>2. \A t \in Trades : RowFit(t)
  BY DEF SerialInv, InStep
<1>3. ASSUME NEW handler \in Handlers, Sweep(r, handler) PROVE SerialInv'
  <2>1. Stale \in SUBSET Trades /\ \A u \in Stale : Armed(u)
    BY DEF Stale
  <2>2. /\ Swept(Stale, handler).pc \in Handlers \cup {"reclaim"}
        /\ Swept(Stale, handler).batch = Stale
    BY <2>1, SweptJob
  <2>3. GoOn(r, Swept(Stale, handler), <<>>)
    BY <1>3 DEF Sweep
  <2> QED
    BY <1>1, <2>1, <2>2, <2>3, RestFits, MoveSerial
<1>4. ASSUME NEW i \in Invoices, Delist(r, i) PROVE SerialInv'
  <2>1. GoOn(r, IdleJob, <<>>) /\ IdleJob.batch = {} /\ IdleJob.pc \in Handlers
    BY <1>4 DEF Delist, IdleJob, Handlers
  <2> QED
    BY <1>1, <2>1, RestFits, MoveSerial
<1>5. ASSUME NEW i \in Invoices, NEW q \in Quotes, NEW m \in Mandates, NEW price \in Prices,
             ArmTrade(r, i, q, m, price)
      PROVE  SerialInv'
  <2> DEFINE j == [IdleJob EXCEPT
                   !.pc = "gate",
                   !.terms = [invoice |-> i, quote |-> q, mandate |-> m,
                              seller |-> PartyHolding(i), price |-> price]]
  <2>1. GoOn(r, j, <<>>)
    BY <1>5 DEF ArmTrade
  <2>2. j.pc = "gate" /\ j.batch = {}
    BY DEF IdleJob
  <2> HIDE DEF j
  <2>3. Fits(j, <<>>)
    BY <2>2 DEF Fits, TodoFit, TodoHolds, JobFit, JobHolds
  <2> QED
    BY <1>1, <2>1, <2>3, MoveSerial
<1>6. ASSUME NEW t \in Trades, NEW p \in Payments, Pay(r, t, p) PROVE SerialInv'
  <2> DEFINE j == [IdleJob EXCEPT !.pc = "requirements", !.trade = t,
                                  !.terms = TermsOf(t), !.payment = p]
  <2>1. /\ GoOn(r, j, <<>>) /\ Exists(t)
        /\ row[t].rail # "arc-vault" /\ row[t].status = "awaiting_payment"
    BY <1>6 DEF Pay
  <2>2. j.pc = "requirements" /\ j.batch = {} /\ j.trade = t /\ j.terms = TermsOf(t)
    BY DEF IdleJob
  <2> HIDE DEF j
  <2>3. Awaiting(t, "none")
    BY <1>2, <2>1 DEF RowFit, Awaiting
  <2>4. Fits(j, <<>>)
    BY <2>1, <2>2, <2>3 DEF Fits, TodoFit, TodoHolds, JobFit, JobHolds, Own
  <2> QED
    BY <1>1, <2>1, <2>4, MoveSerial
<1>7. ASSUME NEW t \in Trades, AskUnwind(r, t) PROVE SerialInv'
  <2>1. Exists(t) /\ Unwind(r, t, {}, "idle")
    BY <1>7 DEF AskUnwind
  <2> QED
    BY <1>1, <2>1, UnwindSerial DEF Handlers
<1> QED
  BY <1>3, <1>4, <1>5, <1>6, <1>7 DEF Client

(* A handler's request moves to its next await with nothing to write.       *)
LEMMA AtSerial ==
    ASSUME TypeInv, SerialInv, OneAtATime, NEW r \in Requests, todo = <<>>,
           NEW j, GoOn(r, j, <<>>), UNCHANGED <<row, capital, owner, hold>>,
           j.trade = job[r].trade, j.terms = job[r].terms, j.batch = {},
           j.pc \in Reads \cup Calls, j.heard = "nothing", j.pc # "deliver",
           j.pc # "releaseHold",
           j.pc \in {"rail", "position", "createHold", "challenge"} =>
               Own(job[r]) /\ Preparing(job[r].trade),
           j.pc \in {"register", "payout"} =>
               Own(job[r]) /\ Awaiting(job[r].trade, "arc-vault") /\ ~Locked(job[r].trade),
           j.pc \in {"requirements", "verify", "settle", "deliverPaid"} =>
               Own(job[r]) /\ Awaiting(job[r].trade, "none")
    PROVE  SerialInv'
<1>1. Fits(j, <<>>)
  BY DEF Fits, TodoFit, TodoHolds, JobFit, JobHolds, Own
<1> QED
  BY <1>1, MoveSerial

(* A request that ends, writing of its own trade.                           *)
LEMMA EndSerial ==
    ASSUME TypeInv, SerialInv, OneAtATime, NEW r \in Requests, todo = <<>>,
           NEW t \in Trades, Exists(t), NEW ops \in Seq(WriteOps), Len(ops) > 0,
           GoOn(r, IdleJob, Writes(ops, t, TermsOf(t))),
           UNCHANGED <<row, capital, owner, hold>>,
           Ready(Writes(ops, t, TermsOf(t)), ops[1], t), ops[1] \notin {"insert", "unwound"},
           ops[1] = "failed" => Locked(t),
           \A k \in 2..Len(ops) : \/ ops[k] \in Later
                                  \/ /\ k = 2 /\ ops[1] = "release"
                                     /\ ops[k] \in {"failed", "unwound"},
           \A k \in 1..Len(ops) :
               /\ ops[k] \in {"settled", "paidSettled"} =>
                      owner[TermsOf(t).invoice] = TermsOf(t).mandate
               /\ ops[k] = "settled" => Live(TermsOf(t).invoice) = {}
               /\ ops[k] = "paidSettled" => \E n \in 1..Len(ops) : ops[n] = "handover"
    PROVE  SerialInv'
<1> DEFINE writes == Writes(ops, t, TermsOf(t))
<1>1. TermsOf(t) \in Terms
  BY DEF TypeInv, WellFormed, TermsOf
<1>2. IdleJob.pc \in Handlers \cup {"reclaim"} /\ IdleJob.batch = {}
  BY DEF IdleJob, Handlers
<1> HIDE DEF writes
<1>3. Fits(IdleJob, writes) /\ writes \in Seq(Write)
  BY <1>1, <1>2, EndFits DEF writes
<1> QED
  BY <1>3, QueueSerial DEF writes

(* What a handler finds when its request resumes.                           *)
LEMMA ResumedFit ==
    ASSUME TypeInv, SerialInv, NEW r \in Requests, todo = <<>>
    PROVE  /\ \A u \in job[r].batch : u \in Trades /\ Armed(u)
           /\ job[r].pc \in Carrying => job[r].batch = {}
           /\ job[r].pc \in {"rail", "position", "createHold", "challenge"} =>
                  Own(job[r]) /\ Preparing(job[r].trade)
           /\ job[r].pc \in {"register", "payout"} =>
                  Own(job[r]) /\ Awaiting(job[r].trade, "arc-vault") /\ ~Locked(job[r].trade)
           /\ job[r].pc = "deliver" =>
                  /\ Own(job[r]) /\ Awaiting(job[r].trade, "arc-vault")
                  /\ Locked(job[r].trade) /\ Live(job[r].terms.invoice) = {}
           /\ job[r].pc \in {"requirements", "verify", "settle", "deliverPaid"} =>
                  Own(job[r]) /\ Awaiting(job[r].trade, "none")
           /\ job[r].pc \in {"deliver", "deliverPaid"} /\ job[r].heard = "ok" =>
                  owner[job[r].terms.invoice] = job[r].terms.mandate
           /\ job[r].pc = "releaseHold" =>
                  Closing(job[r].trade) /\ job[r].trade \notin job[r].batch
<1>1. JobFit(job[r], todo) /\ JobHolds(job[r], todo)
  BY DEF SerialInv, InStep, OneHolder
<1>2. \A t : ~Among(todo, {"handover"}, t)
  BY DEF Among
<1>3. \A t \in job[r].batch : t \in Trades
  BY Formed
<1> QED
  BY <1>1, <1>2, <1>3 DEF JobFit, JobHolds

(* The handlers that write nothing at once and touch no row.                *)
LEMMA PlainHandlerSerial ==
    ASSUME TypeInv, SerialInv, OneAtATime, NEW r \in Requests, todo = <<>>,
           UNCHANGED <<row, capital, owner, hold>>,
           \/ Refuse(r) \/ GateRefuses(r) \/ RequirementsFail(r)
           \/ PositionRead(r) \/ MatchAnswered(r) \/ Verified(r) \/ SettleAnswered(r)
           \/ \E rail \in {"x402", "arc-vault"} : ChooseRail(r, rail)
    PROVE  SerialInv'
<1>1. job[r] \in Job
  BY Formed
<1>2. CASE Refuse(r) \/ GateRefuses(r) \/ RequirementsFail(r)
  <2>1. GoOn(r, IdleJob, <<>>) /\ IdleJob.batch = {} /\ IdleJob.pc \in Handlers
    BY <1>2 DEF Refuse, GateRefuses, RequirementsFail, IdleJob, Handlers
  <2> QED
    BY <2>1, RestFits, MoveSerial
<1>3. ASSUME NEW pc \in {"position", "createHold", "payout", "settle", "deliverPaid"},
             NEW j, GoOn(r, j, <<>>),
             \/ j = At(r, pc) \/ \E rail \in Rail : j = [At(r, pc) EXCEPT !.rail = rail],
             pc \in {"position", "createHold"} => job[r].pc \in {"rail", "position"},
             pc = "payout" => job[r].pc = "register",
             pc \in {"settle", "deliverPaid"} => job[r].pc \in {"verify", "settle"}
      PROVE  SerialInv'
  <2>1. pc \in Reads \cup Calls
    BY DEF Reads, Calls
  <2>2. /\ j.pc = pc /\ j.heard = "nothing" /\ j.trade = job[r].trade
        /\ j.terms = job[r].terms /\ j.batch = job[r].batch
    BY <1>1, <1>3, <2>1, AtJob DEF Job
  <2>3. j.batch = {}
    BY <1>3, <2>2, ResumedFit DEF Carrying, Reads, Calls
  <2> QED
    BY <1>3, <2>1, <2>2, <2>3, ResumedFit, AtSerial
<1>4. ASSUME NEW rail \in {"x402", "arc-vault"}, ChooseRail(r, rail) PROVE SerialInv'
  <2> DEFINE j == [At(r, "position") EXCEPT !.rail = rail]
  <2>1. GoOn(r, j, <<>>) /\ job[r].pc = "rail" /\ rail \in Rail
    BY <1>4 DEF ChooseRail, Running, Rail
  <2>2. \E rl \in Rail : j = [At(r, "position") EXCEPT !.rail = rl]
    BY <2>1
  <2> HIDE DEF j
  <2> QED
    BY <1>3, <2>1, <2>2
<1>5. CASE PositionRead(r)
  BY <1>3, <1>5 DEF PositionRead, Running
<1>6. CASE MatchAnswered(r)
  BY <1>3, <1>6 DEF MatchAnswered, Heard, Running
<1>7. CASE Verified(r)
  BY <1>3, <1>7 DEF Verified, Running
<1>8. CASE SettleAnswered(r)
  BY <1>3, <1>8 DEF SettleAnswered, Heard, Running
<1> QED
  BY <1>2, <1>4, <1>5, <1>6, <1>7, <1>8

(* The handlers that unwind, and those that abandon an arming.              *)
LEMMA UndoHandlerSerial ==
    ASSUME TypeInv, SerialInv, OneAtATime, NEW r \in Requests, todo = <<>>,
           UNCHANGED <<row, capital, owner, hold>>,
           \/ \E t \in Trades : Reclaim(r, t)
           \/ ReadFails(r) \/ CallFails(r) \/ RequirementsBuilt(r)
           \/ NotVerified(r) \/ SettleFails(r) \/ ReleaseAnswered(r)
    PROVE  SerialInv'
<1>1. /\ job[r] \in Job
      /\ job[r].pc \in Numbered => job[r].trade \in Trades /\ Exists(job[r].trade)
      /\ \A t \in job[r].batch : t \in Trades /\ Armed(t)
  BY Formed, ResumedFit
<1>2. ASSUME NEW t \in Trades, Reclaim(r, t) PROVE SerialInv'
  <2>1. job[r].batch \ {t} \in SUBSET Trades /\ job[r].after \in Handlers
    BY <1>1 DEF Job
  <2>2. Armed(t) /\ Exists(t) /\ Unwind(r, t, job[r].batch \ {t}, job[r].after)
    BY <1>1, <1>2 DEF Reclaim, Armed, Exists
  <2>3. \A u \in job[r].batch \ {t} : Armed(u) /\ u # t
    BY <1>1
  <2> QED
    BY <2>1, <2>2, <2>3, UnwindSerial
<1>3. ASSUME UnwindPaid(r), job[r].pc \in {"requirements", "verify", "settle"}
      PROVE  SerialInv'
  <2>1. /\ job[r].trade \in Trades /\ Exists(job[r].trade) /\ Armed(job[r].trade)
        /\ Unwind(r, job[r].trade, {}, "idle")
    BY <1>1, <1>3, ResumedFit DEF UnwindPaid, Numbered, Reads, Calls, Awaiting, Armed
  <2> QED
    BY <2>1, UnwindSerial DEF Handlers
<1>4. CASE NotVerified(r) \/ SettleFails(r)
  BY <1>3, <1>4 DEF NotVerified, SettleFails, Heard, Running
<1>5. CASE RequirementsBuilt(r)
  <2>1. job[r].pc = "requirements" /\ (GoOn(r, At(r, "verify"), <<>>) \/ UnwindPaid(r))
    BY <1>5 DEF RequirementsBuilt, Running
  <2>2. CASE GoOn(r, At(r, "verify"), <<>>)
    <3>1. job[r].batch = {}
      BY <2>1, ResumedFit DEF Carrying, Reads
    <3> QED
      BY <1>1, <2>1, <2>2, <3>1, AtJob, ResumedFit, AtSerial DEF Reads
  <2> QED
    BY <1>3, <2>1, <2>2
<1>6. CASE ReadFails(r) \/ CallFails(r)
  <2> DEFINE ops == <<"release", "failed">>
             t == job[r].trade
             writes == Writes(ops, t, TermsOf(t))
  <2>1. /\ job[r].pc \in {"position", "createHold", "challenge", "register", "payout"}
        /\ Abandon(r)
    BY <1>6 DEF ReadFails, CallFails, Heard, Running
  <2>2. t \in Trades /\ Exists(t) /\ job[r].terms = TermsOf(t)
    BY <1>1, <2>1, ResumedFit DEF Numbered, Reads, Calls, Own
  <2>3. GoOn(r, IdleJob, writes)
    BY <2>1, <2>2 DEF Abandon, Do
  <2>4. Failing(t)
    <3>1. RowFit(t) /\ (\/ Preparing(t)
                        \/ Awaiting(t, "arc-vault") /\ ~Locked(t))
      BY <2>1, <2>2, ResumedFit DEF SerialInv, InStep
    <3> QED
      BY <3>1 DEF Failing, RowFit, Preparing, Awaiting, Armed
  <2>5. ops \in Seq(WriteOps) /\ Len(ops) = 2 /\ ops[1] = "release" /\ ops[2] = "failed"
    BY DEF WriteOps
  <2>6. TermsOf(t) \in Terms
    BY <2>2 DEF TypeInv, WellFormed, TermsOf
  <2> HIDE DEF ops, t
  <2>7. Len(writes) = 2 /\ writes[2].op = "failed"
    BY <2>2, <2>5, <2>6, WritesTyped
  <2> HIDE DEF writes
  <2>8. Ready(writes, ops[1], t)
    BY <2>4, <2>5, <2>7 DEF Ready
  <2>9. \A k \in 1..2 : k = 1 \/ k = 2
    OBVIOUS
  <2> QED
    BY <2>2, <2>3, <2>5, <2>8, <2>9, EndSerial DEF writes
<1>7. CASE ReleaseAnswered(r)
  <2> DEFINE t == job[r].trade
             j == Swept(job[r].batch, job[r].after)
  <2>1. /\ t \in Trades /\ Exists(t) /\ Closing(t) /\ t \notin job[r].batch
    BY <1>1, <1>7, ResumedFit DEF ReleaseAnswered, Heard, Running, Numbered, Calls
  <2>2. GoOn(r, j, UnwindWrites(t)) \/ GoOn(r, j, <<>>)
    BY <1>7 DEF ReleaseAnswered
  <2>3. j.pc \in Handlers \cup {"reclaim"} /\ j.batch = job[r].batch
    BY <1>1, SweptJob DEF Job
  <2>4. \A u \in j.batch : Armed(u) /\ u # t
    BY <1>1, <2>1, <2>3
  <2> HIDE DEF j, t
  <2>5. CASE GoOn(r, j, <<>>)
    BY <2>3, <2>4, <2>5, RestFits, MoveSerial
  <2>6. CASE GoOn(r, j, UnwindWrites(t))
    BY <2>1, <2>3, <2>4, <2>6, UnwindOps, QueueSerial
  <2> QED
    BY <2>2, <2>5, <2>6
<1> QED
  BY <1>2, <1>4, <1>5, <1>6, <1>7

(* The handlers that write of a trade whose outside call was answered.      *)
LEMMA AnsweredSerial ==
    ASSUME TypeInv, SerialInv, OneAtATime, NEW r \in Requests, todo = <<>>,
           UNCHANGED <<row, capital, owner, hold>>,
           \/ ChallengeBuilt(r) \/ HoldAnswered(r) \/ PayoutAnswered(r)
           \/ DeliverAnswered(r) \/ PaidDeliveryAnswered(r)
    PROVE  SerialInv'
<1> DEFINE t == job[r].trade
<1>1. job[r].pc \in {"createHold", "challenge", "payout", "deliver", "deliverPaid"}
  BY DEF ChallengeBuilt, HoldAnswered, PayoutAnswered, DeliverAnswered,
         PaidDeliveryAnswered, Heard, Running
<1>2. /\ job[r] \in Job /\ t \in Trades /\ Exists(t)
      /\ job[r].terms = TermsOf(t) /\ TermsOf(t) \in Terms
  BY <1>1, Formed, ResumedFit
     DEF Numbered, Reads, Calls, Own, TypeInv, WellFormed, TermsOf
<1>3. \A ops : Do(r, ops) = Writes(ops, t, TermsOf(t))
  BY <1>2 DEF Do
<1>4. job[r].batch = {}
  BY <1>1, ResumedFit DEF Carrying, Reads, Calls
<1>5. CASE ChallengeBuilt(r)
  <2> DEFINE ops == <<"armed">>
  <2>1. job[r].pc = "challenge" /\ GoOn(r, IdleJob, Writes(ops, t, TermsOf(t)))
    BY <1>3, <1>5 DEF ChallengeBuilt, Running
  <2>2. ops \in Seq(WriteOps) /\ Len(ops) = 1 /\ ops[1] = "armed"
    BY DEF WriteOps
  <2> HIDE DEF ops
  <2>3. Ready(Writes(ops, t, TermsOf(t)), ops[1], t)
    BY <2>1, <2>2, ResumedFit DEF Ready
  <2> HIDE DEF t
  <2> QED
    BY <1>2, <2>1, <2>2, <2>3, EndSerial
<1>6. CASE DeliverAnswered(r)
  <2>1. /\ job[r].pc = "deliver" /\ Awaiting(t, "arc-vault") /\ Locked(t)
        /\ Live(TermsOf(t).invoice) = {}
        /\ job[r].heard = "ok" => owner[TermsOf(t).invoice] = TermsOf(t).mandate
    BY <1>2, <1>6, ResumedFit DEF DeliverAnswered, Heard, Running
  <2>2. \/ /\ GoOn(r, IdleJob, Writes(<<"settled">>, t, TermsOf(t)))
           /\ job[r].heard = "ok"
        \/ GoOn(r, IdleJob, Writes(<<"failed">>, t, TermsOf(t)))
    BY <1>3, <1>6 DEF DeliverAnswered, Heard
  <2>3. ASSUME NEW ops, ops \in Seq(WriteOps), Len(ops) = 1,
               \/ ops[1] = "settled" /\ job[r].heard = "ok"
               \/ ops[1] = "failed",
               GoOn(r, IdleJob, Writes(ops, t, TermsOf(t)))
        PROVE  SerialInv'
    <3>1. Ready(Writes(ops, t, TermsOf(t)), ops[1], t)
      BY <2>1, <2>3 DEF Ready
    <3>2. /\ Len(ops) > 0 /\ ops[1] \notin {"insert", "unwound"}
          /\ ops[1] = "failed" => Locked(t)
      BY <2>1, <2>3
    <3>3. \A k \in 2..Len(ops) : \/ ops[k] \in Later
                                 \/ /\ k = 2 /\ ops[1] = "release"
                                    /\ ops[k] \in {"failed", "unwound"}
      BY <2>3
    <3>4. \A k \in 1..Len(ops) :
              /\ ops[k] \in {"settled", "paidSettled"} =>
                     owner[TermsOf(t).invoice] = TermsOf(t).mandate
              /\ ops[k] = "settled" => Live(TermsOf(t).invoice) = {}
              /\ ops[k] = "paidSettled" => \E n \in 1..Len(ops) : ops[n] = "handover"
      <4>1. \A k \in 1..Len(ops) : k = 1
        BY <2>3
      <4> QED
        BY <2>1, <2>3, <4>1
    <3>5. ops \in Seq(WriteOps) /\ GoOn(r, IdleJob, Writes(ops, t, TermsOf(t)))
      BY <2>3
    <3> HIDE DEF t
    <3> QED
      BY <1>2, <3>1, <3>2, <3>3, <3>4, <3>5, EndSerial
  <2>4. /\ <<"settled">> \in Seq(WriteOps) /\ Len(<<"settled">>) = 1
        /\ <<"failed">> \in Seq(WriteOps) /\ Len(<<"failed">>) = 1
    BY DEF WriteOps
  <2>5. <<"settled">>[1] = "settled" /\ <<"failed">>[1] = "failed"
    OBVIOUS
  <2> HIDE DEF t
  <2> QED
    BY <2>2, <2>3, <2>4, <2>5
<1>7. CASE PaidDeliveryAnswered(r)
  <2>1. /\ job[r].pc = "deliverPaid" /\ Awaiting(t, "none")
        /\ job[r].heard = "ok" => owner[TermsOf(t).invoice] = TermsOf(t).mandate
    BY <1>2, <1>7, ResumedFit DEF PaidDeliveryAnswered, Heard, Running
  <2>2. CASE GoOn(r, IdleJob, Writes(<<"paidFailed">>, t, TermsOf(t)))
    <3> DEFINE ops == <<"paidFailed">>
    <3>1. ops \in Seq(WriteOps) /\ Len(ops) = 1 /\ ops[1] = "paidFailed"
      BY DEF WriteOps
    <3>2. GoOn(r, IdleJob, Writes(ops, t, TermsOf(t)))
      BY <2>2
    <3> HIDE DEF ops
    <3>3. Ready(Writes(ops, t, TermsOf(t)), ops[1], t)
      BY <2>1, <3>1 DEF Ready
    <3> HIDE DEF t
    <3> QED
      BY <1>2, <2>1, <3>1, <3>2, <3>3, EndSerial
  <2>3. CASE /\ job[r].heard = "ok"
             /\ GoOn(r, IdleJob, Writes(<<"paidSettled", "accepted", "sold", "handover">>,
                                        t, TermsOf(t)))
    <3> DEFINE ops == <<"paidSettled", "accepted", "sold", "handover">>
    <3>1. /\ ops \in Seq(WriteOps) /\ Len(ops) = 4 /\ ops[1] = "paidSettled"
          /\ ops[2] = "accepted" /\ ops[3] = "sold" /\ ops[4] = "handover"
      BY DEF WriteOps
    <3>2. GoOn(r, IdleJob, Writes(ops, t, TermsOf(t)))
      BY <2>3
    <3> HIDE DEF ops
    <3>3. Ready(Writes(ops, t, TermsOf(t)), ops[1], t)
      BY <2>1, <3>1 DEF Ready
    <3>4. \A k \in 1..4 : k = 1 \/ k = 2 \/ k = 3 \/ k = 4
      OBVIOUS
    <3>5. \E n \in 1..Len(ops) : ops[n] = "handover"
      BY <3>1
    <3>6. \A k \in 2..Len(ops) : ops[k] \in Later
      BY <3>1, <3>4 DEF Later
    <3>7. \A k \in 1..Len(ops) :
               /\ ops[k] \in {"settled", "paidSettled"} =>
                      owner[TermsOf(t).invoice] = TermsOf(t).mandate
               /\ ops[k] # "settled"
      BY <2>1, <2>3, <3>1, <3>4
    <3>8. ops[1] \notin {"insert", "unwound", "failed"}
      BY <3>1
    <3> HIDE DEF t
    <3> QED
      BY <1>2, <3>1, <3>2, <3>3, <3>5, <3>6, <3>7, <3>8, EndSerial
  <2> QED
    BY <1>3, <1>7, <2>2, <2>3 DEF PaidDeliveryAnswered, Heard
<1>8. CASE HoldAnswered(r)
  <2>1. /\ job[r].pc = "createHold" /\ Preparing(t) /\ Own(job[r])
    BY <1>8, ResumedFit DEF HoldAnswered, Heard, Running
  <2>2. CASE GoOn(r, At(r, "challenge"), <<>>)
    BY <1>2, <1>4, <2>1, <2>2, AtJob, AtSerial DEF Reads
  <2>3. CASE GoOn(r, At(r, "register"), Writes(<<"armedVault">>, t, TermsOf(t)))
    <3> DEFINE ops == <<"armedVault">>
               writes == Writes(ops, t, TermsOf(t))
               j == At(r, "register")
    <3>1. ops \in Seq(WriteOps) /\ Len(ops) = 1 /\ ops[1] = "armedVault"
      BY DEF WriteOps
    <3>2. GoOn(r, j, writes)
      BY <2>3
    <3>3. /\ j.pc = "register" /\ j.heard = "nothing" /\ j.trade = t
          /\ j.terms = TermsOf(t) /\ j.batch = job[r].batch
      BY <1>2, AtJob DEF Calls
    <3> HIDE DEF ops, j
    <3>4. /\ writes \in Seq(Write) /\ Len(writes) = 1
          /\ writes[1].op = "armedVault" /\ writes[1].trade = t
          /\ writes[1].terms = TermsOf(t)
      BY <1>2, <3>1, WritesTyped
    <3>5. writes # <<>>
      BY <3>4, EmptySeq
    <3> HIDE DEF writes
    <3>6. \A k \in 1..Len(writes) : k = 1
      BY <3>4
    <3>7. TodoFit(writes) /\ TodoHolds(writes)
      BY <2>1, <3>4, <3>6 DEF TodoFit, TodoHolds, Ready
    <3>8. j.batch = {}
      BY <1>4, <3>3
    <3>9. JobFit(j, writes) /\ JobHolds(j, writes)
      BY <1>2, <2>1, <3>3, <3>4, <3>5, <3>8 DEF JobFit, JobHolds, Own
    <3> QED
      BY <3>2, <3>4, <3>7, <3>9, QueueSerial DEF Fits
  <2> QED
    BY <1>3, <1>8, <2>2, <2>3 DEF HoldAnswered
<1>9. CASE PayoutAnswered(r)
  <2>1. /\ job[r].pc = "payout" /\ Own(job[r])
        /\ Awaiting(t, "arc-vault") /\ ~Locked(t)
        /\ GoOn(r, At(r, "deliver"),
                Writes(<<"locked", "sold", "accepted", "handover">>, t, TermsOf(t)))
    BY <1>3, <1>9, ResumedFit DEF PayoutAnswered, Heard, Running
  <2> DEFINE ops == <<"locked", "sold", "accepted", "handover">>
             writes == Writes(ops, t, TermsOf(t))
             j == At(r, "deliver")
  <2>2. /\ ops \in Seq(WriteOps) /\ Len(ops) = 4 /\ ops[1] = "locked"
        /\ ops[2] = "sold" /\ ops[3] = "accepted" /\ ops[4] = "handover"
    BY DEF WriteOps
  <2>3. GoOn(r, j, writes)
    BY <2>1
  <2>4. /\ j.pc = "deliver" /\ j.heard = "nothing" /\ j.trade = t
        /\ j.terms = TermsOf(t) /\ j.batch = job[r].batch
    BY <1>2, AtJob DEF Calls
  <2> HIDE DEF ops, j
  <2>5. /\ writes \in Seq(Write) /\ Len(writes) = 4
        /\ \A k \in 1..4 : /\ writes[k].op = ops[k] /\ writes[k].trade = t
                           /\ writes[k].terms = TermsOf(t)
    BY <1>2, <2>2, WritesTyped
  <2>6. writes # <<>>
    BY <2>5, EmptySeq
  <2> HIDE DEF writes
  <2>7. \A k \in 1..4 : k = 1 \/ k = 2 \/ k = 3 \/ k = 4
    OBVIOUS
  <2>8. TodoFit(writes)
    BY <2>1, <2>2, <2>5, <2>7 DEF TodoFit, Ready, Later
  <2>9. TodoHolds(writes)
    BY <2>2, <2>5, <2>7 DEF TodoHolds
  <2>10. Among(writes, {"handover"}, t)
    BY <2>2, <2>5 DEF Among
  <2>11. j.batch = {}
    BY <1>4, <2>4
  <2>12. JobFit(j, writes)
    BY <1>2, <2>1, <2>2, <2>4, <2>5, <2>6, <2>11 DEF JobFit, Own, Later
  <2>13. JobHolds(j, writes)
    BY <2>4, <2>10 DEF JobHolds
  <2>14. writes[1].op = "locked"
    BY <2>2, <2>5
  <2> QED
    BY <2>3, <2>5, <2>8, <2>9, <2>12, <2>13, <2>14, QueueSerial DEF Fits
<1> QED
  BY <1>5, <1>6, <1>7, <1>8, <1>9

(* The facilitator declined: the row is failed, and its hold to be          *)
(* released.                                                                *)
LEMMA SettleDeclinedSerial ==
    ASSUME TypeInv, SerialInv, OneAtATime, NEW r \in Requests, SettleDeclined(r)
    PROVE  SerialInv'
<1> DEFINE t == job[r].trade
           j == [IdleJob EXCEPT !.pc = "releaseHold", !.trade = t]
<1>1. todo = <<>> /\ job[r].pc = "settle"
  BY DEF SettleDeclined, Heard, Running
<1>2. /\ t \in Trades /\ Exists(t) /\ Awaiting(t, "none") /\ RowFit(t)
      /\ row \in [Trades -> Row] /\ row[t] \in Row
      /\ job \in [Requests -> Job]
  <2>1. t \in Trades /\ Exists(t) /\ Awaiting(t, "none")
    BY <1>1, Formed, ResumedFit DEF Numbered, Calls
  <2> QED
    BY <2>1 DEF TypeInv, TypeOK, SerialInv, InStep
<1>3. ~row[t].cashTransaction /\ ~row[t].arcLockId /\ row[t].holdId /\ ~row[t].superseded
  BY <1>2 DEF RowFit, Awaiting, Locked, Row
<1>4. /\ GoOn(r, j, <<>>) /\ row' = [row EXCEPT ![t].status = "failed"]
      /\ capital' = capital /\ owner' = owner /\ hold' = hold
  BY <1>3 DEF SettleDeclined, chain
<1>5. j.pc = "releaseHold" /\ j.trade = t /\ j.batch = {}
  BY DEF IdleJob
<1>6. todo' = <<>> /\ \A s \in Requests : job'[s] = j
  BY <1>2, <1>4 DEF GoOn, OneAtATime
<1> HIDE DEF t, j
<1>7. /\ \A u \in Trades \ {t} : row'[u] = row[u]
      /\ row'[t] = [row[t] EXCEPT !.status = "failed"]
  BY <1>2, <1>4
<1>8. /\ row'[t].status = "failed" /\ row'[t].terms = row[t].terms
      /\ row'[t].holdId /\ row'[t].rail = "none" /\ ~row'[t].cashTransaction
      /\ ~row'[t].superseded
  BY <1>2, <1>3, <1>7 DEF Row, Awaiting
<1>9. InStep'
  <2>1. \A u \in Trades : RowFit(u)'
    <3>1. \A u \in Trades \ {t} : RowFit(u)'
      BY <1>7 DEF SerialInv, InStep, RowFit, Preparing, Locked
    <3> QED
      BY <1>8, <3>1 DEF RowFit, Preparing
  <2>2. TodoFit(todo)'
    BY <1>6 DEF TodoFit
  <2>3. \A s \in Requests : JobFit(job[s], todo)'
    BY <1>5, <1>6, <1>8 DEF JobFit, Closing, Locked, Armed, Carrying
  <2> QED
    BY <2>1, <2>2, <2>3 DEF InStep
<1>10. \A i : Live(i)' = Live(i) /\ On(i)' = On(i)
  <2>1. \A u \in Trades : /\ Exists(u)' <=> Exists(u)
                          /\ TermsOf(u)' = TermsOf(u)
                          /\ (row[u].status = "settled" /\ ~row[u].superseded)'
                             <=> row[u].status = "settled" /\ ~row[u].superseded
    BY <1>2, <1>7, <1>8 DEF Exists, TermsOf, Awaiting
  <2> QED
    BY <2>1 DEF Live, On
<1>11. OneHolder'
  <2>1. \A u : ~Handing(u)
    BY <1>1 DEF Handing, Among
  <2>2. \A i \in Invoices : DeliveredUnawares(i) => DeliveredUnawares(i)'
    <3> SUFFICES ASSUME NEW i \in Invoices, DeliveredUnawares(i)
                 PROVE  DeliveredUnawares(i)'
      OBVIOUS
    <3>1. PICK u \in On(i) : hold[u] = "executed" /\ row[u].status # "settled"
      BY DEF DeliveredUnawares
    <3>2. u \in On(i)' /\ u \in Trades
      BY <1>10, <3>1 DEF On
    <3>3. row'[u].status # "settled" /\ hold'[u] = "executed"
      BY <1>4, <1>7, <1>8, <3>1, <3>2
    <3> QED
      BY <3>2, <3>3 DEF DeliveredUnawares
  <2>3. \A i \in Invoices : \A u, v \in Live(i) : u = v
    BY <2>1 DEF SerialInv, OneHolder
  <2>4. \A i \in Invoices : \A u \in Live(i) :
            owner[i] = TermsOf(u).mandate \/ DeliveredUnawares(i)
    BY <2>1 DEF SerialInv, OneHolder
  <2>5. (\A i \in Invoices : \A u, v \in Live(i) : u = v \/ Handing(u) \/ Handing(v))'
    BY <1>10, <2>3
  <2>6. (\A i \in Invoices : \A u \in Live(i) :
            owner[i] = TermsOf(u).mandate \/ DeliveredUnawares(i))'
    <3>1. \A u \in Trades : TermsOf(u)' = TermsOf(u)
      BY <1>7, <1>8 DEF TermsOf
    <3> QED
      BY <1>4, <1>10, <2>2, <2>4, <3>1 DEF Live, On
  <2>7. TodoHolds(todo)' /\ \A s \in Requests : JobHolds(job[s], todo)'
    BY <1>5, <1>6 DEF TodoHolds, JobHolds
  <2> QED
    BY <2>5, <2>6, <2>7 DEF OneHolder
<1>12. Balanced'
  <2>1. \A u : ~Inserting(u) /\ ~Inserting(u)' /\ ~Ending(u) /\ ~Ending(u)'
    BY <1>1, <1>6 DEF Inserting, Ending
  <2>2. \A u \in Trades : Booked(u)' <=> Booked(u)
    BY <1>2, <1>7, <1>8, <2>1 DEF Booked, InBooks, Armed, Awaiting
  <2>3. \A u \in Trades : Exists(u)' <=> Exists(u)
    BY <1>2, <1>7, <1>8 DEF Exists
  <2>4. \A u \in Trades : Booked(u) => BookTerms(u)' = BookTerms(u)
    BY <1>7, <1>8, <2>1, <2>3 DEF Booked, BookTerms, InBooks, Armed, Exists, TermsOf
  <2>5. AgainKept
    <3>1. \A u \in Trades : Repeated(u)' <=> Repeated(u)
      <4>1. \A u \in Trades : Undone(u)' <=> Undone(u)
        BY <1>2, <1>7, <1>8 DEF Undone, Awaiting
      <4>2. \A u : (Repeated(u) <=> Undone(u)) /\ (Repeated(u)' <=> Undone(u)')
        BY <1>1, <1>6 DEF Repeated
      <4> QED
        BY <4>1, <4>2
    <3>2. \A u \in Trades : TermsOf(u)' = TermsOf(u)
      BY <1>7, <1>8 DEF TermsOf
    <3> QED
      BY <1>1, <2>3, <3>1, <3>2 DEF AgainKept, Kept, Repeated, Undone, Exists
  <2> QED
    BY <1>4, <2>2, <2>4, <2>5, BooksSame DEF SerialInv
<1> QED
  BY <1>9, <1>11, <1>12 DEF SerialInv

(* The gate admits: the capital is taken now, the trade inserted next.      *)
LEMMA GateAdmitsSerial ==
    ASSUME TypeInv, SerialInv, OneAtATime, NEW r \in Requests, NEW t \in Trades,
           GateAdmits(r, t)
    PROVE  SerialInv'
<1> DEFINE terms == job[r].terms
           ops == <<"insert">>
           j == [job[r] EXCEPT !.pc = "rail", !.trade = t]
           writes == Writes(ops, t, terms)
<1>1. todo = <<>> /\ job[r].pc = "gate"
  BY DEF GateAdmits, Running
<1>2. /\ job[r] \in Job /\ terms \in Terms /\ job[r].batch = {}
      /\ terms.price \in Nat /\ terms.mandate \in Mandates
      /\ job \in [Requests -> Job] /\ capital \in [Mandates -> Capital]
  BY <1>1, Formed, ResumedFit, ConstantsAssumption
     DEF Carrying, Reads, Calls, Terms, TypeInv, TypeOK
<1>3. ops \in Seq(WriteOps) /\ Len(ops) = 1 /\ ops[1] = "insert"
  BY DEF WriteOps
<1>4. /\ GoOn(r, j, writes) /\ ~Exists(t)
      /\ row' = row /\ owner' = owner /\ hold' = hold
      /\ capital' = [capital EXCEPT ![terms.mandate] =
                         Allocate(capital[terms.mandate], terms.price)]
  BY DEF GateAdmits, IsNext, chain
<1>5. j.pc = "rail" /\ j.trade = t /\ j.terms = terms /\ j.batch = {}
  BY <1>2 DEF Job
<1> HIDE DEF j, ops, terms
<1>6. /\ writes \in Seq(Write) /\ Len(writes) = 1
      /\ writes[1].op = "insert" /\ writes[1].trade = t /\ writes[1].terms = terms
  BY <1>2, <1>3, WritesTyped
<1> HIDE DEF writes
<1>7. writes # <<>> /\ \A k \in 1..Len(writes) : k = 1
  <2>1. writes # <<>>
    <3>1. writes = <<>> => 0 = 1
      BY <1>6, EmptySeq, Zenon
    <3> QED
      BY <3>1
  <2>2. \A k \in 1..Len(writes) : k = 1
    BY <1>6
  <2> QED
    BY <2>1, <2>2
<1>8. todo' = writes /\ job'[r] = j
  BY <1>2, <1>4 DEF GoOn
<1>9. InStep'
  <2>1. TodoFit(writes)
    BY <1>4, <1>6, <1>7 DEF TodoFit, Ready
  <2>2. JobFit(j, writes)
    BY <1>5, <1>6, <1>7 DEF JobFit
  <2> QED
    BY <1>2, <1>4, <2>1, <2>2, QueueInStep DEF SerialInv
<1>10. OneHolder'
  <2>1. TodoHolds(writes) /\ JobHolds(j, writes)
    BY <1>5, <1>6, <1>7 DEF TodoHolds, JobHolds
  <2> QED
    BY <1>1, <1>2, <1>4, <2>1, QueueOneHolder DEF SerialInv
<1>11. Balanced'
  <2>1. \A u : ~Inserting(u) /\ ~Ending(u)
    BY <1>1 DEF Inserting, Ending
  <2>2. \A u : ~Ending(u)'
    BY <1>6, <1>8 DEF Ending
  <2>3. \A u : Inserting(u)' <=> u = t
    <3>1. todo' = writes /\ 1 \in 1..Len(writes)
      BY <1>6, <1>8
    <3> QED
      BY <1>6, <1>7, <3>1 DEF Inserting
  <2>4. \A u \in Trades : Exists(u)' = Exists(u) /\ TermsOf(u)' = TermsOf(u)
                          /\ InBooks(u)' = InBooks(u)
    BY <1>4 DEF Exists, TermsOf, InBooks, Armed
  <2>5. ~Booked(t) /\ Booked(t)'
    BY <1>4, <2>1, <2>3 DEF Booked, InBooks, Armed, Exists
  <2>6. \A u \in Trades \ {t} : Booked(u)' <=> Booked(u)
    BY <2>1, <2>2, <2>3, <2>4 DEF Booked
  <2>7. \A u \in Trades \ {t} : Booked(u) => BookTerms(u)' = BookTerms(u)
    BY <2>1, <2>4 DEF Booked, BookTerms, InBooks, Armed, Exists
  <2>8. BookTerms(t)' = terms
    BY <1>4, <1>6, <1>8, <2>4 DEF BookTerms
  <2>9. \A m \in Mandates : capital'[m].allocated =
               IF m = terms.mandate THEN capital[m].allocated + terms.price
               ELSE capital[m].allocated
    <3>1. Allocate(capital[terms.mandate], terms.price).allocated =
              capital[terms.mandate].allocated + terms.price
      BY <1>2 DEF Allocate, Capital
    <3> QED
      BY <1>2, <1>4, <3>1
  <2>10. AgainKept
    <3>1. \A u \in Trades : Repeated(u)' <=> Repeated(u)
      BY <1>1, <1>4, <1>6, <1>8, <2>4 DEF Repeated, Undone
    <3> QED
      BY <1>1, <2>4, <3>1 DEF AgainKept, Kept, Repeated, Undone, Exists
  <2> QED
    BY <1>2, <2>5, <2>6, <2>7, <2>8, <2>9, <2>10, BooksAdd DEF SerialInv
<1> QED
  BY <1>9, <1>10, <1>11 DEF SerialInv

LEMMA HandlerSerial ==
    ASSUME TypeInv, SerialInv, OneAtATime, NEW r \in Requests, Handler(r)
    PROVE  SerialInv'
<1>1. ASSUME UNCHANGED <<rows, chain, bounds>> PROVE UNCHANGED <<row, capital, owner, hold>>
  BY <1>1 DEF rows, chain
<1>2. \/ Refuse(r) \/ GateRefuses(r) \/ RequirementsFail(r)
      \/ PositionRead(r) \/ MatchAnswered(r) \/ Verified(r) \/ SettleAnswered(r)
      \/ \E rail \in {"x402", "arc-vault"} : ChooseRail(r, rail)
      => todo = <<>> /\ UNCHANGED <<rows, chain, bounds>>
  BY DEF Refuse, GateRefuses, RequirementsFail, PositionRead, MatchAnswered, Verified,
         SettleAnswered, ChooseRail, Heard, Running
<1>3. \/ \E t \in Trades : Reclaim(r, t)
      \/ ReadFails(r) \/ CallFails(r) \/ RequirementsBuilt(r)
      \/ NotVerified(r) \/ SettleFails(r) \/ ReleaseAnswered(r)
      => todo = <<>> /\ UNCHANGED <<rows, chain, bounds>>
  BY DEF Reclaim, ReadFails, CallFails, RequirementsBuilt, NotVerified, SettleFails,
         ReleaseAnswered, Heard, Running
<1>4. \/ ChallengeBuilt(r) \/ HoldAnswered(r) \/ PayoutAnswered(r)
      \/ DeliverAnswered(r) \/ PaidDeliveryAnswered(r)
      => todo = <<>> /\ UNCHANGED <<rows, chain, bounds>>
  BY DEF ChallengeBuilt, HoldAnswered, PayoutAnswered, DeliverAnswered,
         PaidDeliveryAnswered, Heard, Running
<1> QED
  BY <1>1, <1>2, <1>3, <1>4, PlainHandlerSerial, UndoHandlerSerial, AnsweredSerial,
     SettleDeclinedSerial, GateAdmitsSerial DEF Handler

-----------------------------------------------------------------------------

(* A step that changes no column the books read, and of the requests at     *)
(* most what they heard.                                                    *)
LEMMA FrameSerial ==
    ASSUME TypeInv, SerialInv, todo = <<>>, todo' = <<>>, capital' = capital,
           \A s \in Requests : /\ job'[s].pc = job[s].pc
                               /\ job'[s].trade = job[s].trade
                               /\ job'[s].terms = job[s].terms
                               /\ job'[s].batch = job[s].batch,
           \A t \in Trades : /\ row'[t].status = row[t].status
                             /\ row'[t].terms = row[t].terms
                             /\ row'[t].rail = row[t].rail
                             /\ row'[t].holdId = row[t].holdId
                             /\ row'[t].cashTransaction = row[t].cashTransaction
                             /\ row'[t].arcLockId = row[t].arcLockId
                             /\ row'[t].superseded = row[t].superseded,
           \A i \in Invoices :
               \/ DeliveredUnawares(i)'
               \/ owner'[i] = owner[i] /\ ~DeliveredUnawares(i),
           \A s \in Requests :
               job[s].pc \in {"deliver", "deliverPaid"} /\ job'[s].heard = "ok" =>
                   owner'[job[s].terms.invoice] = job[s].terms.mandate
    PROVE  SerialInv'
<1>1. ASSUME NEW s \in Requests PROVE JobFit(job[s], todo)'
  <2>1. JobFit(job[s], <<>>)
    BY DEF SerialInv, InStep
  <2>2. /\ \A u \in job[s].batch : u \in Trades
        /\ job[s].pc \in Numbered => job[s].trade \in Trades
    BY Formed
  <2>3. \A t \in Trades : /\ Preparing(t)' = Preparing(t) /\ Locked(t)' = Locked(t)
                          /\ \A rail : Awaiting(t, rail)' = Awaiting(t, rail)
                          /\ Closing(t)' = Closing(t) /\ Armed(t)' = Armed(t)
                          /\ Exists(t)' = Exists(t) /\ TermsOf(t)' = TermsOf(t)
    BY DEF Preparing, Locked, Awaiting, Closing, InBooks, Armed, Exists, TermsOf
  <2>4. \A u \in job'[s].batch : Armed(u)'
    BY <2>1, <2>2, <2>3 DEF JobFit
  <2>5. ASSUME NEW u, u = job[s].trade,
               job[s].pc \in Numbered => u \in Trades
        PROVE  JobFit(job[s], todo)'
    <3>1. /\ job'[s].pc = job[s].pc /\ job'[s].trade = u
          /\ job'[s].terms = job[s].terms /\ job'[s].batch = job[s].batch
      BY <2>5
    <3>2. job[s].pc \in Numbered =>
              /\ Preparing(u)' = Preparing(u) /\ Locked(u)' = Locked(u)
              /\ \A rail : Awaiting(u, rail)' = Awaiting(u, rail)
              /\ Closing(u)' = Closing(u)
              /\ Exists(u)' = Exists(u) /\ TermsOf(u)' = TermsOf(u)
      BY <2>3, <2>5
    <3>3. \A v \in job'[s].batch : Armed(v)' /\ (todo' # <<>> => todo'[1].trade # v)
      BY <2>4
    <3> QED
      BY <2>1, <2>5, <3>1, <3>2, <3>3, SMTT(40)
         DEF JobFit, Numbered, Reads, Calls, Own, Preparing, Locked, Awaiting, Closing,
             InBooks, Armed, Exists, TermsOf
  <2> QED
    BY <2>2, <2>5
<1>2. InStep'
  <2>1. \A t \in Trades : RowFit(t)'
    BY DEF SerialInv, InStep, RowFit, Preparing, Locked
  <2>2. TodoFit(todo)'
    BY DEF TodoFit
  <2> QED
    BY <1>1, <2>1, <2>2 DEF InStep
<1>3. \A i : Live(i)' = Live(i)
  <2>1. \A u \in Trades : /\ Exists(u)' <=> Exists(u)
                          /\ TermsOf(u)' = TermsOf(u)
                          /\ (row[u].status = "settled" /\ ~row[u].superseded)'
                             <=> row[u].status = "settled" /\ ~row[u].superseded
    BY DEF Exists, TermsOf
  <2> QED
    BY <2>1 DEF Live, On
<1>4. OneHolder'
  <2>1. \A u : ~Handing(u)
    BY DEF Handing, Among
  <2>2. \A i \in Invoices : \A u, v \in Live(i) : u = v
    BY <2>1 DEF SerialInv, OneHolder
  <2>3. \A i \in Invoices : \A u \in Live(i) :
            owner[i] = TermsOf(u).mandate \/ DeliveredUnawares(i)
    BY <2>1 DEF SerialInv, OneHolder
  <2>4. (\A i \in Invoices : \A u, v \in Live(i) : u = v \/ Handing(u) \/ Handing(v))'
    BY <1>3, <2>2
  <2>5. (\A i \in Invoices : \A u \in Live(i) :
            owner[i] = TermsOf(u).mandate \/ DeliveredUnawares(i))'
    <3>1. \A u \in Trades : TermsOf(u)' = TermsOf(u)
      BY DEF TermsOf
    <3> QED
      BY <1>3, <2>3, <3>1 DEF Live, On
  <2>6. TodoHolds(todo)'
    BY DEF TodoHolds
  <2>7. \A s \in Requests : JobHolds(job[s], todo)'
    <3>1. \A s \in Requests : job[s].pc = "deliver" => Live(job[s].terms.invoice) = {}
      BY ResumedFit
    <3>2. ASSUME NEW s \in Requests, NEW i, i = job'[s].terms.invoice,
                 job'[s].pc = "deliver"
          PROVE  Live(i)' = {}
      BY <1>3, <3>1, <3>2
    <3> QED
      BY <3>2 DEF JobHolds, Live, On, Exists, TermsOf
  <2> QED
    BY <2>4, <2>5, <2>6, <2>7 DEF OneHolder
<1>5. Balanced'
  <2>1. \A u : ~Inserting(u) /\ ~Inserting(u)' /\ ~Ending(u) /\ ~Ending(u)'
    BY DEF Inserting, Ending
  <2>2. \A u \in Trades : Booked(u)' <=> Booked(u)
    BY <2>1 DEF Booked, InBooks, Armed
  <2>3. \A u \in Trades : Booked(u) => BookTerms(u)' = BookTerms(u)
    BY <2>1 DEF Booked, BookTerms, InBooks, Armed, Exists, TermsOf
  <2>4. AgainKept
    <3>1. \A u \in Trades : Repeated(u)' <=> Repeated(u)
      BY DEF Repeated, Undone
    <3> QED
      BY <3>1 DEF AgainKept, Kept, Exists, TermsOf, Repeated, Undone
  <2> QED
    BY <2>2, <2>3, <2>4, BooksSame DEF SerialInv
<1> QED
  BY <1>2, <1>4, <1>5 DEF SerialInv

(* The outside world answers: an instrument that executed a hold has given  *)
(* the paper to the buyer the request will hear of.                         *)
LEMMA OutsideSerial ==
    ASSUME TypeInv, DvpInv, SerialInv, OneAtATime, NEW r \in Requests, Outside(r)
    PROVE  SerialInv'
<1> DEFINE t == job[r].trade
<1>1. /\ UNCHANGED <<row, capital, todo>> /\ todo = <<>>
      /\ job[r].pc \in Calls /\ job[r].heard = "nothing"
  BY DEF Outside, CallRefused, PaymentDeclined, HoldCreated, HoldExecuted,
         HoldReleased, MatchRegistered, PayoutExecuted, PaymentSettled, Landed,
         Answer, Waiting, Heard, Running, Calls, rows
<1>2. \E answer : job' = [job EXCEPT ![r].heard = answer]
  BY DEF Outside, CallRefused, PaymentDeclined, HoldCreated, HoldExecuted,
         HoldReleased, MatchRegistered, PayoutExecuted, PaymentSettled, Landed,
         Answer
<1>3. t \in Trades /\ Exists(t)
  BY <1>1, Formed DEF Numbered
<1>4. \A s \in Requests : /\ job'[s].pc = job[s].pc /\ job'[s].trade = job[s].trade
                          /\ job'[s].terms = job[s].terms /\ job'[s].batch = job[s].batch
  <2>1. job \in [Requests -> Job]
    BY DEF TypeInv, TypeOK
  <2> QED
    BY <1>2, <2>1 DEF Job
<1>5. \A s \in Requests : s = r
  BY DEF OneAtATime
<1>6. hold \in [Trades -> HoldState] /\ owner \in [Invoices -> Parties]
  BY DEF TypeInv, TypeOK
<1>7. \A i : On(i)' = On(i)
  BY <1>1 DEF On, Exists, TermsOf
<1>8. ASSUME owner' = owner,
             \A u \in Trades : hold[u] = "executed" <=> hold'[u] = "executed",
             job[r].pc \in {"deliver", "deliverPaid"} => job'[r].heard # "ok"
      PROVE  SerialInv'
  <2>1. \A i : DeliveredUnawares(i)' <=> DeliveredUnawares(i)
    BY <1>1, <1>7, <1>8 DEF DeliveredUnawares, On
  <2> QED
    BY <1>1, <1>4, <1>5, <1>8, <2>1, FrameSerial
<1>9. CASE CallRefused(r) \/ PaymentDeclined(r)
  <2>1. owner' = owner /\ hold' = hold /\ job'[r].heard # "ok"
    <3>1. job \in [Requests -> Job]
      BY DEF TypeInv, TypeOK
    <3> QED
      BY <1>9, <3>1 DEF CallRefused, PaymentDeclined, Answer, chain, Job
  <2> QED
    BY <1>8, <2>1
<1>10. CASE HoldCreated(r)
  <2>1. /\ job[r].pc = "createHold" /\ owner' = owner
        /\ hold' = [hold EXCEPT ![t] = "held"]
    BY <1>10 DEF HoldCreated, Waiting, Heard, Running
  <2>2. hold[t] = "none"
    BY <1>1, <2>1 DEF Fresh, JobHonest, DvpInv
  <2> HIDE DEF t
  <2> QED
    BY <1>3, <1>6, <1>8, <2>1, <2>2
<1>11. CASE HoldReleased(r)
  <2>1. /\ job[r].pc = "releaseHold" /\ owner' = owner
        /\ hold[t] \in {"held", "expired"} /\ hold' = [hold EXCEPT ![t] = "released"]
    BY <1>11 DEF HoldReleased, Waiting, Heard, Running
  <2> HIDE DEF t
  <2> QED
    BY <1>3, <1>6, <1>8, <2>1
<1>12. CASE MatchRegistered(r) \/ PayoutExecuted(r) \/ PaymentSettled(r)
  <2>1. /\ job[r].pc \in {"register", "payout", "settle"}
        /\ owner' = owner /\ hold' = hold
    BY <1>12 DEF MatchRegistered, PayoutExecuted, PaymentSettled, Waiting, Heard, Running
  <2> QED
    BY <1>8, <2>1
<1>13. CASE HoldExecuted(r)
  <2>1. /\ job[r].pc \in {"deliver", "deliverPaid"}
        /\ hold' = [hold EXCEPT ![t] = "executed"]
        /\ owner' = [owner EXCEPT ![job[r].terms.invoice] = job[r].terms.mandate]
    BY <1>13 DEF HoldExecuted, Waiting, Heard, Running
  <2>2. /\ Own(job[r]) /\ row[t].status = "awaiting_payment"
        /\ job[r].terms.invoice \in Invoices
    <3>1. job[r].terms \in Terms
      BY <1>1, <2>1, Formed DEF Carrying, Calls
    <3> QED
      BY <1>1, <2>1, <3>1, ResumedFit DEF Awaiting, Terms
  <2>3. hold'[t] = "executed" /\ \A u \in Trades : hold[u] = "executed" => hold'[u] = "executed"
    <3> HIDE DEF t
    <3> QED
      BY <1>3, <1>6, <2>1
  <2>4. ASSUME NEW i \in Invoices PROVE \/ DeliveredUnawares(i)'
                                        \/ owner'[i] = owner[i] /\ ~DeliveredUnawares(i)
    <3>1. CASE i = job[r].terms.invoice
      <4>1. t \in On(i)'
        BY <1>3, <1>7, <2>2, <3>1 DEF On, Own
      <4>2. row'[t].status # "settled"
        BY <1>1, <2>2
      <4> HIDE DEF t
      <4> QED
        BY <2>3, <4>1, <4>2 DEF DeliveredUnawares
    <3>2. CASE i # job[r].terms.invoice /\ DeliveredUnawares(i)
      BY <1>1, <1>7, <2>3, <3>2 DEF DeliveredUnawares, On
    <3>3. CASE i # job[r].terms.invoice /\ ~DeliveredUnawares(i)
      BY <1>6, <2>1, <3>3
    <3> QED
      BY <3>1, <3>2, <3>3
  <2>5. owner'[job[r].terms.invoice] = job[r].terms.mandate
    BY <1>6, <2>1, <2>2
  <2> QED
    BY <1>1, <1>4, <1>5, <2>4, <2>5, FrameSerial
<1> QED
  BY <1>9, <1>10, <1>11, <1>12, <1>13 DEF Outside

(* Quotes, listings, age and expiry touch nothing the books read.           *)
LEMMA TimeSerial ==
    ASSUME TypeInv, SerialInv, OneAtATime,
           \/ \E q \in Quotes, i \in Invoices : IssueQuote(q, i)
           \/ \E i \in Invoices : List(i)
           \/ \E t \in Trades : Age(t) \/ ExpireHold(t)
    PROVE  SerialInv'
<1>1. /\ todo = <<>> /\ UNCHANGED <<job, todo, capital, owner>>
  BY DEF IssueQuote, List, Age, ExpireHold, rows, chain
<1>2. row \in [Trades -> Row] /\ hold \in [Trades -> HoldState]
  BY DEF TypeInv, TypeOK
<1>3. \A t \in Trades : row'[t] = row[t] \/ \E b : row'[t] = [row[t] EXCEPT !.stale = b]
  BY <1>2 DEF IssueQuote, List, Age, ExpireHold, rows
<1>4. ASSUME NEW t \in Trades
      PROVE  /\ row'[t].status = row[t].status
             /\ row'[t].terms = row[t].terms
             /\ row'[t].rail = row[t].rail
             /\ row'[t].holdId = row[t].holdId
             /\ row'[t].cashTransaction = row[t].cashTransaction
             /\ row'[t].arcLockId = row[t].arcLockId
             /\ row'[t].superseded = row[t].superseded
  <2>1. row[t] \in Row
    BY <1>2
  <2>2. CASE row'[t] = row[t]
    BY <2>2
  <2>3. ASSUME NEW b, row'[t] = [row[t] EXCEPT !.stale = b]
        PROVE  row'[t].status = row[t].status /\ row'[t].terms = row[t].terms
               /\ row'[t].rail = row[t].rail /\ row'[t].holdId = row[t].holdId
               /\ row'[t].cashTransaction = row[t].cashTransaction
               /\ row'[t].arcLockId = row[t].arcLockId
               /\ row'[t].superseded = row[t].superseded
    BY <2>1, <2>3 DEF Row
  <2> QED
    BY <1>3, <2>2, <2>3
<1>5. \A t \in Trades : hold'[t] = "executed" <=> hold[t] = "executed"
  BY <1>2 DEF IssueQuote, List, Age, ExpireHold, chain
<1>6. \A i : On(i)' = On(i)
  BY <1>4 DEF On, Exists, TermsOf
<1>7. \A i : DeliveredUnawares(i)' <=> DeliveredUnawares(i)
  BY <1>4, <1>5, <1>6 DEF DeliveredUnawares, On
<1>8. \A s \in Requests :
          job[s].pc \in {"deliver", "deliverPaid"} /\ job[s].heard = "ok" =>
              owner[job[s].terms.invoice] = job[s].terms.mandate
  BY <1>1, ResumedFit
<1> QED
  BY <1>1, <1>4, <1>7, <1>8, FrameSerial

-----------------------------------------------------------------------------
(* The store writes.                                                        *)

(* The next write, and those after it.                                      *)
LEMMA WriteKnown ==
    ASSUME TypeInv, SerialInv, StoreWrite, NEW w, w = Head(todo)
    PROVE  /\ w \in Write /\ w.trade \in Trades /\ w.terms \in Terms
           /\ todo # <<>> /\ todo[1] = w /\ Ready(todo, w.op, w.trade)
           /\ w.op # "insert" => Exists(w.trade) /\ w.terms = TermsOf(w.trade)
           /\ w.op = "insert" => todo' = <<>>
           /\ \A k \in 1..Len(todo) : todo[k].trade = w.trade /\ todo[k].terms = w.terms
           /\ \A k \in 1..Len(todo') :
                  /\ k + 1 \in 1..Len(todo) /\ todo'[k] = todo[k + 1]
                  /\ todo'[k].trade = w.trade /\ todo'[k].terms = w.terms
                  /\ \/ todo'[k].op \in Later
                     \/ /\ k = 1 /\ w.op = "release"
                        /\ todo'[k].op \in {"failed", "unwound"}
           /\ w.op = "release" => todo' # <<>> /\ todo'[1] = todo[2]
           /\ todo' # <<>> => 1 \in 1..Len(todo')
           /\ todo' \in Seq(Write)
           /\ UNCHANGED <<job, owner, hold>>
<1>1. todo # <<>> /\ todo' = Tail(todo) /\ UNCHANGED <<job, owner, hold>>
  BY DEF StoreWrite, chain
<1>2. /\ w \in Write /\ w = todo[1] /\ todo' \in Seq(Write)
      /\ \A k \in 1..Len(todo') : k + 1 \in 1..Len(todo) /\ todo'[k] = todo[k + 1]
      /\ w.op # "insert" => Exists(w.trade)
      /\ w.op = "insert" => Len(todo') = 0
  BY <1>1, NextWrite
<1>3. TodoFit(todo)
  BY DEF SerialInv, InStep
<1>4. /\ \A k \in 1..Len(todo) : todo[k].trade = w.trade /\ todo[k].terms = w.terms
      /\ Ready(todo, w.op, w.trade)
      /\ w.op # "insert" => w.terms = TermsOf(w.trade)
  BY <1>1, <1>2, <1>3 DEF TodoFit
<1>5. \A k \in 2..Len(todo) :
          \/ todo[k].op \in Later
          \/ /\ k = 2 /\ w.op = "release" /\ todo[k].op \in {"failed", "unwound"}
  BY <1>1, <1>2, <1>3 DEF TodoFit
<1>6. Len(todo) \in Nat /\ Len(todo') = Len(todo) - 1
  <2>1. todo \in Seq(Write)
    BY DEF TypeInv, TypeOK
  <2> QED
    BY <1>1, <2>1, HeadTailProperties, LenProperties
<1>7. ASSUME NEW k \in 1..Len(todo')
      PROVE  /\ k + 1 \in 1..Len(todo) /\ todo'[k] = todo[k + 1]
             /\ todo'[k].trade = w.trade /\ todo'[k].terms = w.terms
             /\ \/ todo'[k].op \in Later
                \/ /\ k = 1 /\ w.op = "release"
                   /\ todo'[k].op \in {"failed", "unwound"}
  <2>1. k + 1 \in 1..Len(todo) /\ todo'[k] = todo[k + 1] /\ k + 1 \in 2..Len(todo)
    BY <1>2, <1>6
  <2>2. k + 1 = 2 => k = 1
    OBVIOUS
  <2> QED
    BY <1>4, <1>5, <2>1, <2>2
<1>8. w.op = "release" => Len(todo) > 1
  BY <1>4 DEF Ready
<1>9. w.op = "release" => 1 \in 1..Len(todo') /\ 1 + 1 = 2
  BY <1>6, <1>8
<1>10. todo' # <<>> => 1 \in 1..Len(todo')
  <2> SUFFICES ASSUME todo' # <<>> PROVE 1 \in 1..Len(todo')
    OBVIOUS
  <2>1. Len(todo') \in Nat \ {0}
    BY <1>2, EmptySeq
  <2> QED
    BY <2>1
<1>11. \A k : k \in 1..Len(todo') => todo' # <<>>
  <2>1. Len(<<>>) = 0
    BY EmptySeq
  <2>2. \A k : k \in 1..0 => FALSE
    OBVIOUS
  <2> QED
    BY <2>1, <2>2, Zenon
<1>12. w.op = "insert" => todo' = <<>>
  BY <1>2, EmptySeq
<1>13. w.trade \in Trades /\ w.terms \in Terms
  BY <1>2 DEF Write
<1>14. w.op = "release" => todo' # <<>> /\ todo'[1] = todo[2]
  BY <1>2, <1>9, <1>11
<1> HIDE DEF Ready
<1> QED
  BY <1>1, <1>2, <1>4, <1>7, <1>10, <1>12, <1>13, <1>14

(* What the store write w does to the rows and to the capital.              *)
Written(w) ==
    /\ row \in [Trades -> Row] /\ capital \in [Mandates -> Capital]
    /\ w.op # "handover" => \A u \in Trades \ {w.trade} : row'[u] = row[u]
    /\ w.op \in RowOps => row'[w.trade] = Patched(row[w.trade], w)
    /\ w.op \in {"settled", "paidSettled"} =>
           row'[w.trade] = Settled(row[w.trade], w)
    /\ w.op \in {"release", "sold", "accepted", "expired"} => row' = row
    /\ w.op \notin {"release", "handover"} => capital' = capital
    /\ w.op = "release" =>
           capital' = [capital EXCEPT ![w.terms.mandate] =
                           Release(capital[w.terms.mandate], w.terms.price)]
    /\ w.op = "handover" =>
           LET p == HolderAmong(w.terms.invoice, Trades \ {w.trade}) IN
           IF p = NoTrade THEN row' = row /\ capital' = capital
           ELSE /\ row' = [row EXCEPT ![p].superseded = TRUE]
                /\ capital' = [capital EXCEPT ![TermsOf(p).mandate] =
                       IF row[p].rail = "arc-vault"
                       THEN Retire(capital[TermsOf(p).mandate], TermsOf(p).price)
                       ELSE Release(capital[TermsOf(p).mandate], TermsOf(p).price)]

LEMMA RowsWritten ==
    ASSUME TypeInv, StoreWrite, NEW w, w = Head(todo)
    PROVE  Written(w)
<1>1. w \in Write /\ w.trade \in Trades /\ w.op \in WriteOps
  BY NextWrite DEF StoreWrite, Write
<1>2. row \in [Trades -> Row] /\ capital \in [Mandates -> Capital]
  BY DEF TypeInv, TypeOK
<1>3. \/ WriteTrade(w) \/ WriteSettled(w) \/ WriteRelease(w) \/ WriteSold(w)
      \/ WriteQuote(w) \/ WriteHandOver(w)
  BY DEF StoreWrite
<1>4. CASE WriteTrade(w)
  <2>1. /\ w.op \in RowOps /\ capital' = capital
        /\ row' = [row EXCEPT ![w.trade] = Patched(row[w.trade], w)]
    BY <1>4 DEF WriteTrade
  <2>2. w.op \notin {"settled", "paidSettled", "release", "sold", "accepted",
                        "expired", "handover"}
    BY <2>1 DEF RowOps
  <2> QED
    BY <1>1, <1>2, <2>1, <2>2 DEF Written
<1>5. CASE WriteSettled(w)
  <2>1. /\ w.op \in {"settled", "paidSettled"} /\ capital' = capital
        /\ row' = [row EXCEPT ![w.trade] = Settled(row[w.trade], w)]
    BY <1>5 DEF WriteSettled
  <2> QED
    BY <1>1, <1>2, <2>1 DEF RowOps, Written
<1>6. CASE WriteRelease(w)
  BY <1>2, <1>6 DEF WriteRelease, RowOps, Written
<1>7. CASE WriteSold(w) \/ WriteQuote(w)
  BY <1>2, <1>7 DEF WriteSold, WriteQuote, RowOps, Written
<1>8. CASE WriteHandOver(w)
  BY <1>2, <1>8 DEF WriteHandOver, RowOps, Written
<1> QED
  BY <1>3, <1>4, <1>5, <1>6, <1>7, <1>8

(* The holder a hand-over supersedes is another trade of the invoice.       *)
LEMMA Superseded ==
    ASSUME TypeInv, StoreWrite, NEW w, w = Head(todo), w.op = "handover",
           NEW p, p = HolderAmong(w.terms.invoice, Trades \ {w.trade})
    PROVE  \/ p = NoTrade /\ row' = row
           \/ /\ p # NoTrade /\ p \in Trades \ {w.trade} /\ p \in Live(w.terms.invoice)
              /\ \A u \in Trades \ {p} : row'[u] = row[u]
              /\ row'[p].superseded /\ row'[p].status = row[p].status
              /\ row'[p].terms = row[p].terms /\ row'[p].rail = row[p].rail
              /\ row'[p].holdId = row[p].holdId /\ row'[p].arcLockId = row[p].arcLockId
              /\ row'[p].cashTransaction = row[p].cashTransaction
<1>1. Written(w)
  BY RowsWritten
<1>2. CASE p = NoTrade
  BY <1>1, <1>2 DEF Written
<1>3. CASE p # NoTrade
  <2>1. p \in On(w.terms.invoice) \cap (Trades \ {w.trade}) /\ p \in Live(w.terms.invoice)
    BY <1>3, HolderIsLive DEF Live
  <2>2. row \in [Trades -> Row] /\ row' = [row EXCEPT ![p].superseded = TRUE]
    BY <1>1, <1>3 DEF Written
  <2>3. row[p] \in Row
    BY <2>1, <2>2
  <2>4. /\ row'[p] = [row[p] EXCEPT !.superseded = TRUE]
        /\ \A u \in Trades \ {p} : row'[u] = row[u]
    BY <2>1, <2>2
  <2>5. /\ row'[p].superseded /\ row'[p].status = row[p].status
        /\ row'[p].terms = row[p].terms /\ row'[p].rail = row[p].rail
        /\ row'[p].holdId = row[p].holdId /\ row'[p].arcLockId = row[p].arcLockId
        /\ row'[p].cashTransaction = row[p].cashTransaction
    BY <2>3, <2>4 DEF Row
  <2> QED
    BY <1>3, <2>1, <2>4, <2>5
<1> QED
  BY <1>2, <1>3

(* What a store write finds in the row of its trade, and what it leaves.    *)
Found(w, t) ==
    /\ w.op = "insert" => ~Exists(t)
    /\ w.op \in {"armed", "armedVault"} => Preparing(t)
    /\ w.op = "locked" => Awaiting(t, "arc-vault")
    /\ w.op = "settled" => Awaiting(t, "arc-vault")
    /\ w.op \in {"paidSettled", "paidFailed"} => Awaiting(t, "none")
    /\ w.op = "failed" => Failing(t) \/ (Awaiting(t, "arc-vault") /\ Locked(t))
    /\ w.op = "unwound" => Closing(t)
    /\ w.op # "insert" => Exists(t)
Left(w, t) ==
    /\ w.op = "insert" =>
           /\ row'[t].status = "preparing" /\ row'[t].terms = w.terms
           /\ row'[t].rail = "none" /\ ~row'[t].holdId /\ ~row'[t].arcLockId
           /\ ~row'[t].cashTransaction
    /\ w.op \in {"armed", "armedVault"} =>
           /\ row'[t].status = "awaiting_payment" /\ row'[t].holdId
           /\ ~row'[t].cashTransaction /\ ~row'[t].arcLockId
           /\ w.op = "armed" => row'[t].rail = "none"
           /\ w.op = "armedVault" => row'[t].rail = "arc-vault"
    /\ w.op = "locked" =>
           /\ row'[t].status = "awaiting_payment" /\ row'[t].holdId
           /\ row'[t].rail = "arc-vault"
           /\ row'[t].cashTransaction /\ row'[t].arcLockId
    /\ w.op = "paidFailed" => row'[t].status = "failed" /\ row'[t].cashTransaction
    /\ w.op \in {"failed", "unwound"} =>
           /\ row'[t].status = w.op
           /\ row'[t].cashTransaction = row[t].cashTransaction
           /\ row'[t].holdId = row[t].holdId /\ row'[t].rail = row[t].rail
           /\ row'[t].arcLockId = row[t].arcLockId
    /\ w.op \in {"settled", "paidSettled"} =>
           /\ row'[t].status = "settled" /\ row'[t].arcLockId = row[t].arcLockId
           /\ row[t].cashTransaction => row'[t].cashTransaction
    /\ w.op \in RowOps \cup {"settled", "paidSettled"} => ~row'[t].superseded
    /\ w.op # "insert" => row'[t].terms = row[t].terms
    /\ w.op \notin RowOps \cup {"settled", "paidSettled"} => row'[t] = row[t]

LEMMA FoundAndLeft ==
    ASSUME TypeInv, SerialInv, StoreWrite, NEW w, w = Head(todo), NEW t, t = w.trade
    PROVE  Found(w, t) /\ Left(w, t)
<1>1. /\ w \in Write /\ t \in Trades /\ w.op \in WriteOps /\ w.terms \in Terms
      /\ Ready(todo, w.op, t)
      /\ w.op # "insert" => Exists(t)
  BY WriteKnown DEF Write
<1>2. Found(w, t)
  BY <1>1 DEF Ready, Found
<1>3. Written(w)
  BY RowsWritten
<1>4. row[t] \in Row /\ RowFit(t)
  BY <1>1, <1>3 DEF Written, SerialInv, InStep
<1>5. /\ w.op \in RowOps => row'[t] = Patched(row[t], w)
      /\ w.op \in {"settled", "paidSettled"} => row'[t] = Settled(row[t], w)
  BY <1>3 DEF Written
<1>6. w.op \in (RowOps \ {"insert"}) \cup {"settled", "paidSettled"} => ~row[t].superseded
  BY <1>2, <1>4 DEF Found, RowFit, RowOps, Preparing, Awaiting, Failing, Closing, InBooks,
                    Armed
<1>7. /\ Preparing(t) => /\ row[t].rail = "none" /\ ~row[t].arcLockId
                         /\ ~row[t].cashTransaction
      /\ row[t].status = "awaiting_payment" => row[t].holdId
  BY <1>4 DEF RowFit, Locked
<1>8. CASE w.op = "insert"
  <2>1. row'[t] = [NoRow EXCEPT !.status = "preparing", !.terms = w.terms]
    BY <1>5, <1>8 DEF Patched, RowOps
  <2> QED
    BY <1>2, <1>8, <2>1 DEF NoRow, Left, RowOps
<1>9. CASE w.op = "armed"
  <2>1. row'[t] = [row[t] EXCEPT !.status = "awaiting_payment", !.holdId = TRUE]
    BY <1>5, <1>9 DEF Patched, RowOps
  <2>2. Preparing(t)
    BY <1>2, <1>9 DEF Found
  <2> QED
    BY <1>2, <1>4, <1>6, <1>7, <1>9, <2>1, <2>2 DEF Row, Left, RowOps
<1>10. CASE w.op = "armedVault"
  <2>1. row'[t] = [row[t] EXCEPT !.status = "awaiting_payment", !.holdId = TRUE,
                                 !.rail = "arc-vault"]
    BY <1>5, <1>10 DEF Patched, RowOps
  <2>2. Preparing(t)
    BY <1>2, <1>10 DEF Found
  <2> QED
    BY <1>2, <1>4, <1>6, <1>7, <1>10, <2>1, <2>2 DEF Row, Left, RowOps
<1>11. CASE w.op = "locked"
  <2>1. row'[t] = [row[t] EXCEPT !.arcLockId = TRUE, !.cashTransaction = TRUE]
    BY <1>5, <1>11 DEF Patched, RowOps
  <2>2. row[t].status = "awaiting_payment" /\ row[t].rail = "arc-vault"
    BY <1>2, <1>11 DEF Found, Awaiting
  <2> QED
    BY <1>2, <1>4, <1>6, <1>7, <1>11, <2>1, <2>2 DEF Row, Left, RowOps
<1>12. CASE w.op = "paidFailed"
  <2>1. row'[t] = [row[t] EXCEPT !.status = "failed", !.rail = "x402",
                                 !.cashTransaction = TRUE]
    BY <1>5, <1>12 DEF Patched, RowOps
  <2> QED
    BY <1>2, <1>4, <1>6, <1>12, <2>1 DEF Row, Left, RowOps
<1>13. CASE w.op \in {"failed", "unwound"}
  <2>1. row'[t] = [row[t] EXCEPT !.status = w.op]
    BY <1>5, <1>13 DEF Patched, RowOps
  <2> QED
    BY <1>2, <1>4, <1>6, <1>13, <2>1 DEF Row, Left, RowOps
<1>14. CASE w.op \in {"settled", "paidSettled"}
  <2> DEFINE rail == IF w.op = "paidSettled" THEN "x402" ELSE row[t].rail
             cash == row[t].cashTransaction \/ w.op = "paidSettled"
  <2>1. row'[t] = [row[t] EXCEPT !.status = "settled", !.settledAt = clock + 1,
                                 !.rail = rail, !.cashTransaction = cash]
    BY <1>5, <1>14 DEF Settled
  <2> HIDE DEF rail, cash
  <2>2. /\ row'[t].status = "settled" /\ row'[t].superseded = row[t].superseded
        /\ row'[t].terms = row[t].terms /\ row'[t].arcLockId = row[t].arcLockId
        /\ row'[t].cashTransaction = cash
    BY <1>4, <2>1 DEF Row
  <2>3. row[t].cashTransaction => cash
    BY DEF cash
  <2> QED
    BY <1>2, <1>6, <1>14, <2>2, <2>3 DEF Left, RowOps
<1>15. CASE w.op \in {"release", "sold", "accepted", "expired"}
  BY <1>2, <1>3, <1>15 DEF Written, Left, RowOps
<1>16. CASE w.op = "handover"
  <2>1. PICK p : p = HolderAmong(w.terms.invoice, Trades \ {w.trade})
    OBVIOUS
  <2>2. row' = row \/ (p # t /\ \A u \in Trades \ {p} : row'[u] = row[u])
    BY <1>16, <2>1, Superseded
  <2>3. row'[t] = row[t]
    BY <1>1, <2>2
  <2> QED
    BY <1>2, <1>16, <2>3 DEF Left, RowOps
<1> QED
  BY <1>1, <1>2, <1>8, <1>9, <1>10, <1>11, <1>12, <1>13, <1>14, <1>15, <1>16 DEF WriteOps

(* The rows of other trades, which only a hand-over writes.                 *)
LEMMA OtherRows ==
    ASSUME TypeInv, SerialInv, StoreWrite, NEW w, w = Head(todo),
           NEW u \in Trades, u # w.trade
    PROVE  /\ row'[u].status = row[u].status /\ row'[u].terms = row[u].terms
           /\ row'[u].rail = row[u].rail /\ row'[u].holdId = row[u].holdId
           /\ row'[u].arcLockId = row[u].arcLockId
           /\ row'[u].cashTransaction = row[u].cashTransaction
           /\ \/ row'[u].superseded = row[u].superseded
              \/ /\ w.op = "handover" /\ row'[u].superseded
                 /\ u \in Live(w.terms.invoice)
                 /\ u = HolderAmong(w.terms.invoice, Trades \ {w.trade})
<1>1. CASE w.op # "handover"
  <2>1. row'[u] = row[u]
    BY <1>1, RowsWritten DEF Written
  <2> QED
    BY <2>1
<1>2. CASE w.op = "handover"
  <2>1. PICK p : p = HolderAmong(w.terms.invoice, Trades \ {w.trade})
    OBVIOUS
  <2> QED
    BY <1>2, <2>1, Superseded
<1> QED
  BY <1>1, <1>2

LEMMA StoreWriteInStep ==
    ASSUME TypeInv, SerialInv, OneAtATime, StoreWrite
    PROVE  InStep'
<1>1. PICK w : w = Head(todo)
  OBVIOUS
<1>2. PICK t : t = w.trade
  OBVIOUS
<1>3. /\ w \in Write /\ t \in Trades /\ w.op \in WriteOps
      /\ todo # <<>> /\ todo[1] = w /\ Ready(todo, w.op, t)
      /\ w.op # "insert" => Exists(t) /\ w.terms = TermsOf(t)
      /\ w.op = "insert" => todo' = <<>>
      /\ \A k \in 1..Len(todo') :
             /\ todo'[k].trade = t /\ todo'[k].terms = w.terms
             /\ \/ todo'[k].op \in Later
                \/ k = 1 /\ w.op = "release" /\ todo'[k].op \in {"failed", "unwound"}
      /\ w.op = "release" => todo' # <<>> /\ todo'[1] = todo[2]
      /\ todo' # <<>> => 1 \in 1..Len(todo')
      /\ job' = job
  BY <1>1, <1>2, WriteKnown DEF Write
<1>4. Found(w, t) /\ Left(w, t)
  BY <1>1, <1>2, FoundAndLeft
<1>5. \A u \in Trades : RowFit(u)
  BY DEF SerialInv, InStep
<1>6. ASSUME NEW u \in Trades, u # t
      PROVE  /\ row'[u].status = row[u].status /\ row'[u].terms = row[u].terms
             /\ row'[u].rail = row[u].rail /\ row'[u].holdId = row[u].holdId
             /\ row'[u].arcLockId = row[u].arcLockId
             /\ row'[u].cashTransaction = row[u].cashTransaction
             /\ row'[u].superseded => row[u].superseded \/ row[u].status = "settled"
  <2>1. /\ row'[u].status = row[u].status /\ row'[u].terms = row[u].terms
        /\ row'[u].rail = row[u].rail /\ row'[u].holdId = row[u].holdId
        /\ row'[u].arcLockId = row[u].arcLockId
        /\ row'[u].cashTransaction = row[u].cashTransaction
        /\ row'[u].superseded = row[u].superseded \/ u \in Live(w.terms.invoice)
    BY <1>1, <1>2, <1>6, OtherRows
  <2> QED
    BY <2>1 DEF Live
<1>7. ASSUME NEW u \in Trades PROVE RowFit(u)'
  <2>1. CASE u # t
    BY <1>5, <1>6, <2>1 DEF RowFit, Preparing, Locked
  <2>2. CASE u = t
    <3>1. CASE w.op \in RowOps \cup {"settled", "paidSettled"}
      BY <1>4, <2>2, <3>1 DEF Left, RowFit, Preparing, Locked, RowOps
    <3>2. CASE w.op \notin RowOps \cup {"settled", "paidSettled"}
      <4>1. row'[t] = row[t]
        BY <1>4, <3>2 DEF Left
      <4> QED
        BY <1>5, <2>2, <4>1 DEF RowFit, Preparing, Locked
    <3> QED
      BY <3>1, <3>2
  <2> QED
    BY <2>1, <2>2
<1>8. w.op = "release" => /\ row' = row
                          /\ \/ todo[2].op = "failed" /\ Failing(t)
                             \/ todo[2].op = "unwound" /\ Closing(t)
  BY <1>1, <1>3, RowsWritten DEF Written, Ready
<1>9. TodoFit(todo)'
  <2> SUFFICES ASSUME todo' # <<>>
               PROVE  TodoFit(todo)'
    BY DEF TodoFit
  <2>1. /\ 1 \in 1..Len(todo') /\ todo'[1].trade = t /\ w.op # "insert"
        /\ todo'[1].terms = TermsOf(t)
        /\ \/ todo'[1].op \in Later
           \/ w.op = "release" /\ todo'[1].op \in {"failed", "unwound"}
    BY <1>3
  <2>2. TermsOf(t)' = TermsOf(t)
    BY <1>4, <2>1 DEF Left, TermsOf
  <2>3. Ready(todo, todo[1].op, t)'
    <3>1. CASE todo'[1].op \in Later
      BY <3>1 DEF Ready, Later
    <3>2. CASE w.op = "release"
      <4>1. /\ row' = row
            /\ \/ todo'[1].op = "failed" /\ Failing(t)
               \/ todo'[1].op = "unwound" /\ Closing(t)
        BY <1>3, <1>8, <3>2
      <4> QED
        BY <4>1 DEF Ready, Failing, Closing, InBooks, Armed, Locked
    <3> QED
      BY <2>1, <3>1, <3>2
  <2>4. \A k \in 2..Len(todo') : todo'[k].op \in Later
    <3>1. \A k \in 2..Len(todo') : k \in 1..Len(todo') /\ k # 1
      OBVIOUS
    <3> QED
      BY <1>3, <3>1
  <2> QED
    BY <1>3, <2>1, <2>2, <2>3, <2>4 DEF TodoFit
<1>10. ASSUME NEW s \in Requests PROVE JobFit(job[s], todo)'
  <2>1. JobFit(job[s], todo) /\ job'[s] = job[s]
    BY <1>3 DEF SerialInv, InStep
  <2>2. ASSUME NEW u \in job[s].batch
        PROVE  Armed(u)' /\ (todo' # <<>> => todo'[1].trade # u)
    <3>1. u \in Trades /\ Armed(u) /\ u # t
      BY <1>2, <1>3, <2>1 DEF JobFit, TypeInv, TypeOK, Job
    <3> QED
      BY <1>3, <1>6, <3>1 DEF Armed
  <2>3. job[s].pc \notin {"position", "createHold", "challenge", "payout", "requirements",
                          "verify", "settle", "deliverPaid", "releaseHold"}
    BY <1>3, <2>1 DEF JobFit
  <2>4. PICK j : j = job[s]
    OBVIOUS
  <2> SUFFICES JobFit(j, todo)'
    BY <2>1, <2>4
  <2>5. CASE j.pc = "rail"
    <3>1. w.op = "insert" /\ t = j.trade /\ w.terms = j.terms /\ todo' = <<>>
      BY <1>2, <1>3, <2>1, <2>4, <2>5 DEF JobFit
    <3>2. Own(j)' /\ Preparing(j.trade)'
      BY <1>4, <3>1 DEF Left, Own, Preparing, Exists, TermsOf
    <3> QED
      BY <2>1, <2>2, <2>4, <2>5, <3>1, <3>2 DEF JobFit, Carrying
  <2>6. CASE j.pc = "register"
    <3>1. w.op = "armedVault" /\ t = j.trade /\ Own(j) /\ Len(todo) = 1
      BY <1>2, <1>3, <2>1, <2>4, <2>6 DEF JobFit
    <3>2. Own(j)' /\ Awaiting(j.trade, "arc-vault")' /\ ~Locked(j.trade)'
      BY <1>4, <3>1 DEF Left, Own, Awaiting, Locked, Exists, TermsOf
    <3>3. todo' = <<>>
      <4>1. todo \in Seq(Write) /\ todo' = Tail(todo)
        BY DEF TypeInv, TypeOK, StoreWrite
      <4>2. Len(todo') = 0 /\ todo' \in Seq(Write)
        BY <1>3, <3>1, <4>1, HeadTailProperties
      <4> QED
        BY <4>2, EmptySeq
    <3> QED
      BY <2>1, <2>2, <2>4, <2>6, <3>2, <3>3 DEF JobFit, Carrying
  <2>7. CASE j.pc = "deliver"
    <3>1. /\ w.op \in {"locked"} \cup Later /\ t = j.trade
          /\ Own(j) /\ Awaiting(t, "arc-vault")
          /\ Locked(t) \/ w.op = "locked"
      BY <1>2, <1>3, <2>1, <2>4, <2>7 DEF JobFit
    <3>2. Own(j)' /\ Awaiting(j.trade, "arc-vault")' /\ Locked(j.trade)'
      BY <1>4, <3>1 DEF Left, Own, Awaiting, Locked, Exists, TermsOf, Later, RowOps
    <3>3. todo' # <<>> => todo'[1].trade = t /\ todo'[1].op \in Later
      BY <1>3, <3>1 DEF Later
    <3> QED
      BY <2>1, <2>2, <2>4, <2>7, <3>1, <3>2, <3>3 DEF JobFit, Carrying
  <2>8. CASE j.pc \notin {"rail", "register", "deliver"}
    BY <2>1, <2>2, <2>3, <2>4, <2>8 DEF JobFit, Carrying
  <2> QED
    BY <2>5, <2>6, <2>7, <2>8
<1> QED
  BY <1>7, <1>9, <1>10 DEF InStep

(* When a hand-over is written, the trade it supersedes is the only other   *)
(* one that holds the paper.                                                *)
LEMMA OnlyOneLeft ==
    ASSUME TypeInv, SerialInv, StoreWrite, NEW w, w = Head(todo), w.op = "handover",
           NEW u \in Live(w.terms.invoice), u # w.trade
    PROVE  row'[u].superseded
<1>1. PICK i : i = w.terms.invoice
  OBVIOUS
<1>2. \A v : Handing(v) => v = w.trade
  BY WriteKnown DEF Handing, Among
<1>3. i \in Invoices
  BY <1>1, WriteKnown DEF Terms
<1>4. \A v \in Live(i) \ {w.trade} : v = u
  BY <1>1, <1>2, <1>3 DEF SerialInv, OneHolder
<1>5. PICK p : p = HolderAmong(i, Trades \ {w.trade})
  OBVIOUS
<1>6. u \in Trades /\ row[u].settledAt \in Nat
  BY DEF Live, On, TypeInv, TypeOK, Row
<1>7. {v \in On(i) \cap (Trades \ {w.trade}) :
           row[v].status = "settled" /\ ~row[v].superseded} = {u}
  BY <1>1, <1>4 DEF Live, On
<1>8. p = CHOOSE v \in {u} : \A x \in {u} : row[x].settledAt <= row[v].settledAt
  BY <1>5, <1>7 DEF HolderAmong
<1>9. p = u
  BY <1>6, <1>8
<1>10. u # NoTrade
  BY <1>6, ConstantsAssumption DEF Trades, NoTrade
<1> QED
  BY <1>1, <1>5, <1>9, <1>10, Superseded

LEMMA StoreWriteOneHolder ==
    ASSUME TypeInv, SerialInv, OneAtATime, StoreWrite
    PROVE  OneHolder'
<1>1. PICK w : w = Head(todo)
  OBVIOUS
<1>2. PICK t : t = w.trade
  OBVIOUS
<1>3. PICK here : here = w.terms.invoice
  OBVIOUS
<1> DEFINE Settles == w.op \in {"settled", "paidSettled"}
<1>4. /\ w \in Write /\ t \in Trades /\ w.op \in WriteOps /\ here \in Invoices
      /\ todo # <<>> /\ todo[1] = w /\ 1 \in 1..Len(todo)
      /\ w.op # "insert" => Exists(t) /\ w.terms = TermsOf(t)
      /\ \A k \in 1..Len(todo) : todo[k].trade = t /\ todo[k].terms = w.terms
      /\ \A k \in 1..Len(todo') : todo'[k].op \notin {"settled", "paidSettled"}
      /\ job' = job /\ owner' = owner /\ hold' = hold
  <2>1. 1 \in 1..Len(todo)
    BY RowAfterWrite, ConstantsAssumption, <1>1, <1>2, WriteKnown
  <2> QED
    BY <1>1, <1>2, <1>3, <2>1, WriteKnown, SMTT(40) DEF Write, Terms, Later
<1>5. Found(w, t) /\ Left(w, t)
  BY <1>1, <1>2, FoundAndLeft
<1>6. Settles \/ w.op \in RowOps => row[t].status # "settled"
  BY <1>5 DEF Found, RowOps, Exists, Preparing, Awaiting, Failing, Closing, InBooks, Armed
<1>7. w.op \in RowOps => row'[t].status # "settled"
  BY <1>5 DEF Left, RowOps
<1>8. ASSUME NEW u \in Trades, Exists(u)
      PROVE  /\ Exists(u)' /\ TermsOf(u)' = TermsOf(u)
             /\ row'[u].status = "settled" => row[u].status = "settled" \/ u = t
             /\ u # t => row'[u].status = row[u].status
             /\ ~Settles => (row'[u].status = "settled" <=> row[u].status = "settled")
             /\ row[u].superseded /\ row[u].status = "settled" => row'[u].superseded
  <2>1. CASE u # t
    BY <1>1, <1>2, <1>8, <2>1, OtherRows DEF Exists, TermsOf
  <2>2. CASE u = t
    <3>1. CASE Settles \/ w.op \in RowOps
      BY <1>5, <1>6, <1>7, <1>8, <2>2, <3>1 DEF Found, Left, Exists, TermsOf, RowOps
    <3>2. CASE ~(Settles \/ w.op \in RowOps)
      <4>1. row'[t] = row[t]
        BY <1>5, <3>2 DEF Left, RowOps
      <4> QED
        BY <1>8, <2>2, <4>1 DEF Exists, TermsOf
    <3> QED
      BY <3>1, <3>2
  <2> QED
    BY <2>1, <2>2
<1>9. \A u \in Trades : ~Exists(u) /\ Exists(u)' => row'[u].status # "settled"
  <2> SUFFICES ASSUME NEW u \in Trades, ~Exists(u), Exists(u)'
               PROVE  row'[u].status # "settled"
    OBVIOUS
  <2>1. u = t
    BY <1>1, <1>2, OtherRows DEF Exists
  <2>2. w.op = "insert"
    BY <1>4, <2>1
  <2> QED
    BY <1>5, <2>1, <2>2 DEF Left
<1>10. ASSUME NEW i, NEW u, u \in Live(i)'
       PROVE  u \in Live(i) \/ (u = t /\ i = here /\ Settles)
  <2>1. u \in Trades /\ Exists(u)' /\ TermsOf(u)'.invoice = i
        /\ row'[u].status = "settled" /\ ~row'[u].superseded
    BY <1>10 DEF Live, On
  <2>2. Exists(u) /\ TermsOf(u).invoice = i
    BY <1>8, <1>9, <2>1
  <2>3. CASE row[u].status = "settled"
    BY <1>8, <2>1, <2>2, <2>3 DEF Live, On
  <2>4. CASE row[u].status # "settled"
    <3>1. u = t /\ Settles
      BY <1>8, <2>1, <2>2, <2>4
    <3> QED
      BY <1>3, <1>4, <2>2, <3>1
  <2> QED
    BY <2>3, <2>4
<1>11. \A u : Handing(u) => u = t
  BY <1>4 DEF Handing, Among
<1>12. w.op # "handover" => \A u \in Trades : Handing(u) => Handing(u)'
  BY <1>1, AmongAfterWrite DEF Handing
<1>13. \A i : \A u \in On(i) : u \in Trades /\ u \in On(i)' /\ TermsOf(u)' = TermsOf(u)
                               /\ TermsOf(u).invoice = i
  BY <1>8 DEF On
<1>14. ASSUME NEW i, DeliveredUnawares(i), Settles => i # here PROVE DeliveredUnawares(i)'
  <2>1. PICK u \in On(i) : hold[u] = "executed" /\ row[u].status # "settled"
    BY <1>14 DEF DeliveredUnawares
  <2>2. u \in On(i)' /\ u \in Trades /\ Exists(u)
    BY <1>13, <2>1 DEF On
  <2>3. row'[u].status # "settled"
    <3>1. u = t => i = here \/ ~Settles
      BY <1>3, <1>4, <1>13, <2>1
    <3> QED
      BY <1>8, <1>14, <2>1, <2>2, <3>1
  <2> QED
    BY <1>4, <2>1, <2>2, <2>3 DEF DeliveredUnawares
<1>15. /\ Settles => owner[here] = TermsOf(t).mandate
       /\ w.op = "settled" => Live(here) = {}
       /\ w.op = "paidSettled" => Handing(t)
  <2>1. TodoHolds(todo)
    BY DEF SerialInv, OneHolder
  <2> QED
    BY <1>2, <1>3, <1>4, <2>1 DEF TodoHolds, Handing
<1>16. Exists(t) /\ w.op # "insert" => t \in On(here) /\ TermsOf(t).invoice = here
  BY <1>3, <1>4 DEF On
<1>17. ASSUME w.op = "handover", NEW u, u \in Live(here)' PROVE u = t
  <2> SUFFICES ASSUME u # t PROVE FALSE
    OBVIOUS
  <2>1. u \in Live(here)
    BY <1>10, <1>17
  <2>2. row'[u].superseded
    BY <1>1, <1>2, <1>3, <1>17, <2>1, OnlyOneLeft
  <2> QED
    BY <1>17, <2>2 DEF Live
<1>18. ASSUME NEW i \in Invoices, NEW u, NEW v, u \in Live(i), v \in Live(i), u # v
       PROVE  i = here /\ Handing(t) /\ (u = t \/ v = t)
  <2>1. (u = t \/ v = t) /\ Handing(t)
    BY <1>11, <1>18 DEF SerialInv, OneHolder
  <2>2. TermsOf(t).invoice = i /\ row[t].status = "settled"
    BY <1>18, <2>1 DEF Live, On
  <2>3. w.op # "insert"
    BY <1>6, <2>2 DEF RowOps
  <2> QED
    BY <1>3, <1>4, <2>1, <2>2, <2>3
<1> HIDE DEF Settles
<1>19. ASSUME NEW i \in Invoices, NEW u, NEW v, u \in Live(i)', v \in Live(i)', u # v
       PROVE  Handing(u)' \/ Handing(v)'
  <2>1. w.op # "handover" \/ i # here
    BY <1>17, <1>19
  <2>2. CASE u \in Live(i) /\ v \in Live(i)
    <3>1. i = here /\ Handing(t) /\ (u = t \/ v = t)
      BY <1>18, <1>19, <2>2
    <3> QED
      BY <1>4, <1>12, <2>1, <3>1
  <2>3. CASE ~(u \in Live(i) /\ v \in Live(i))
    <3>1. (u = t \/ v = t) /\ i = here /\ Settles
      BY <1>10, <1>19, <2>3
    <3>2. CASE w.op = "paidSettled"
      BY <1>4, <1>12, <1>15, <3>1, <3>2
    <3>3. CASE w.op = "settled"
      BY <1>10, <1>15, <1>19, <3>1, <3>3
    <3> QED
      BY <3>1, <3>2, <3>3 DEF Settles
  <2> QED
    BY <2>2, <2>3
<1>20. ASSUME NEW i \in Invoices, NEW u, u \in Live(i)'
       PROVE  \/ owner[i] = TermsOf(u)'.mandate
              \/ DeliveredUnawares(i)'
              \/ \E v : v \in On(i)' /\ v # u /\ Handing(v)'
  <2>1. CASE u \notin Live(i)
    <3>1. u = t /\ i = here /\ Settles
      BY <1>10, <1>20, <2>1
    <3>2. TermsOf(t)' = TermsOf(t)
      BY <1>4, <1>8, <3>1 DEF Settles
    <3> QED
      BY <1>15, <3>1, <3>2
  <2>2. CASE u \in Live(i)
    <3>1. u \in On(i) /\ TermsOf(u)' = TermsOf(u)
      BY <1>13, <2>2 DEF Live
    <3>2. \/ owner[i] = TermsOf(u).mandate
          \/ DeliveredUnawares(i)
          \/ \E v \in On(i) : v # u /\ Handing(v)
      BY <2>2 DEF SerialInv, OneHolder
    <3>3. CASE DeliveredUnawares(i)
      <4>1. CASE Settles /\ i = here
        <5>1. w.op = "paidSettled" /\ Handing(t)'
          BY <1>4, <1>12, <1>15, <2>2, <4>1 DEF Settles
        <5>2. u # t
          BY <1>6, <2>2, <4>1 DEF Live
        <5>3. t \in On(i)'
          BY <1>4, <1>13, <1>16, <4>1, <5>1
        <5> QED
          BY <5>1, <5>2, <5>3
      <4>2. CASE ~(Settles /\ i = here)
        BY <1>14, <3>3, <4>2
      <4> QED
        BY <4>1, <4>2
    <3>4. ASSUME NEW v \in On(i), v # u, Handing(v)
          PROVE  \E x : x \in On(i)' /\ x # u /\ Handing(x)'
      <4>1. v = t /\ v \in On(i)' /\ TermsOf(t).invoice = i /\ Exists(t)
        BY <1>11, <1>13, <3>4 DEF On
      <4>2. w.op # "handover"
        <5>1. w.op = "handover" => i = here
          BY <1>16, <4>1
        <5> QED
          BY <1>17, <1>20, <3>4, <4>1, <5>1
      <4> QED
        BY <1>4, <1>12, <3>4, <4>1, <4>2
    <3> QED
      BY <3>1, <3>2, <3>3, <3>4
  <2> QED
    BY <2>1, <2>2
<1>21. TodoHolds(todo)'
  BY <1>4 DEF TodoHolds
<1>22. ASSUME NEW s \in Requests, job[s].pc = "deliver",
              NEW i, i = job[s].terms.invoice
       PROVE  Live(i)' = {} \/ Among(todo, {"handover"}, job[s].trade)'
  <2>1. JobHolds(job[s], todo) /\ JobFit(job[s], todo)
    BY DEF SerialInv, InStep, OneHolder
  <2>2. /\ w.op \in {"locked"} \cup Later /\ t = job[s].trade
        /\ Awaiting(t, "arc-vault") /\ i = here
    BY <1>2, <1>3, <1>4, <1>22, <2>1 DEF JobFit, Own, Later
  <2>3. ~Settles
    BY <2>2 DEF Later, Settles
  <2>4. CASE w.op = "handover"
    <3>1. \A u : u \in Live(i)' => u = t /\ u \in Live(i)
      BY <1>10, <1>17, <2>2, <2>3, <2>4
    <3>2. t \notin Live(i)
      BY <2>2 DEF Live, Awaiting
    <3> QED
      BY <3>1, <3>2
  <2>5. CASE w.op # "handover" /\ Handing(t)
    <3>1. Handing(t)' /\ job' = job
      BY <1>4, <1>12, <2>5
    <3> QED
      BY <2>2, <3>1 DEF Handing, Among
  <2>6. CASE Live(i) = {}
    BY <1>10, <2>3, <2>6
  <2> QED
    BY <1>22, <2>1, <2>2, <2>4, <2>5, <2>6 DEF JobHolds, Handing
<1>23. ASSUME NEW s \in Requests PROVE JobHolds(job[s], todo)'
  <2>1. JobHolds(job[s], todo) /\ job'[s] = job[s]
    BY <1>4 DEF SerialInv, OneHolder
  <2>2. job'[s].pc \in {"deliver", "deliverPaid"} /\ job'[s].heard = "ok" =>
           owner'[job'[s].terms.invoice] = job'[s].terms.mandate
    BY <1>4, <2>1 DEF JobHolds
  <2>3. job'[s].pc = "deliver" =>
            Live(job[s].terms.invoice)' = {} \/ Among(todo, {"handover"}, job[s].trade)'
    BY <1>22, <2>1 DEF Live, On, Exists, TermsOf
  <2> QED
    BY <2>2, <2>3 DEF JobHolds
<1>24. (\A i \in Invoices : \A u, v \in Live(i) : u = v \/ Handing(u) \/ Handing(v))'
  BY <1>19
<1>25. (\A i \in Invoices : \A u \in Live(i) :
          \/ owner[i] = TermsOf(u).mandate
          \/ DeliveredUnawares(i)
          \/ \E v \in On(i) : v # u /\ Handing(v))'
  BY <1>4, <1>20
<1> QED
  BY <1>21, <1>23, <1>24, <1>25 DEF OneHolder

(* Capital that is given back, and capital that is retired, leave the same  *)
(* allocation; only what is retired was committed no longer.                *)
LEMMA GivesBack ==
    ASSUME NEW c \in Capital, NEW n \in Nat
    PROVE  /\ Release(c, n).allocated = AtLeast0(c.allocated - n)
           /\ Release(c, n).funded = c.funded
           /\ Retire(c, n).allocated = AtLeast0(c.allocated - n)
           /\ Retire(c, n).funded = AtLeast0(c.funded - n)
<1>1. ASSUME NEW d \in Capital
      PROVE  Reopened(d).allocated = d.allocated /\ Reopened(d).funded = d.funded
  BY DEF Reopened, Capital
<1>2. AtLeast0(c.allocated - n) \in Nat /\ AtLeast0(c.funded - n) \in Nat
  BY DEF Capital, AtLeast0
<1>3. /\ Release(c, n).allocated = AtLeast0(c.allocated - n)
      /\ Release(c, n).funded = c.funded
  <2> DEFINE d == [c EXCEPT !.allocated = AtLeast0(c.allocated - n)]
  <2>1. Release(c, n) = Reopened(d)
    BY DEF Release
  <2>2. /\ d \in Capital /\ d.allocated = AtLeast0(c.allocated - n)
        /\ d.funded = c.funded
    BY <1>2 DEF Capital
  <2> HIDE DEF d
  <2> QED
    BY <1>1, <2>1, <2>2
<1>4. /\ Retire(c, n).allocated = AtLeast0(c.allocated - n)
      /\ Retire(c, n).funded = AtLeast0(c.funded - n)
  <2> DEFINE d == [c EXCEPT !.allocated = AtLeast0(c.allocated - n),
                            !.funded = AtLeast0(c.funded - n)]
  <2>1. Retire(c, n) = Reopened(d)
    BY DEF Retire
  <2>2. /\ d \in Capital /\ d.allocated = AtLeast0(c.allocated - n)
        /\ d.funded = AtLeast0(c.funded - n)
    BY <1>2 DEF Capital
  <2> HIDE DEF d
  <2> QED
    BY <1>1, <2>1, <2>2
<1> QED
  BY <1>3, <1>4

LEMMA StoreWriteBalanced ==
    ASSUME TypeInv, SerialInv, OneAtATime, StoreWrite
    PROVE  Balanced'
<1>1. PICK w : w = Head(todo)
  OBVIOUS
<1>2. PICK t : t = w.trade
  OBVIOUS
<1>3. /\ w \in Write /\ t \in Trades /\ w.op \in WriteOps /\ w.terms \in Terms
      /\ todo # <<>> /\ todo[1] = w /\ Ready(todo, w.op, t)
      /\ w.op # "insert" => Exists(t) /\ w.terms = TermsOf(t)
      /\ w.op = "insert" => todo' = <<>>
      /\ \A k \in 1..Len(todo') :
             /\ todo'[k].trade = t
             /\ \/ todo'[k].op \in Later
                \/ k = 1 /\ w.op = "release" /\ todo'[k].op \in {"failed", "unwound"}
      /\ w.op = "release" => todo' # <<>> /\ todo'[1] = todo[2]
      /\ todo' # <<>> => 1 \in 1..Len(todo')
  BY <1>1, <1>2, WriteKnown DEF Write
<1>4. Found(w, t) /\ Left(w, t) /\ Written(w) /\ Balanced
  BY <1>1, <1>2, FoundAndLeft, RowsWritten DEF SerialInv
<1>5. w.op = "release" => /\ row' = row
                          /\ \/ todo'[1].op = "failed" /\ Failing(t)
                             \/ todo'[1].op = "unwound" /\ Closing(t)
  BY <1>1, <1>3, <1>4 DEF Written, Ready
<1>6. \A u : Inserting(u) <=> w.op = "insert" /\ u = t
  <2>1. 1 \in 1..Len(todo)
    BY RowAfterWrite, ConstantsAssumption, <1>1, <1>2, WriteKnown
  <2>2. \A k \in 1..Len(todo) : todo[k].trade = t
    BY <1>1, <1>2, WriteKnown
  <2>3. \A k \in 1..Len(todo) : todo[k].op = "insert" => k = 1
    BY DEF TypeInv, WellFormed
  <2> QED
    BY <1>2, <1>3, <2>1, <2>2, <2>3 DEF Inserting
<1>7. \A u : ~Inserting(u)'
  BY <1>3 DEF Inserting, Later
<1>8. \A u : Ending(u) <=> u = t /\ w.op \in {"failed", "unwound"} /\ ~Locked(t)
  BY <1>2, <1>3 DEF Ending
<1>9. \A u : Ending(u)' <=> u = t /\ w.op = "release"
  <2>1. w.op = "release" => ~Locked(t)'
    BY <1>5 DEF Failing, Closing, Locked
  <2>2. todo' # <<>> => todo'[1].trade = t
    BY <1>3
  <2>3. todo' # <<>> /\ todo'[1].op \in {"failed", "unwound"} => w.op = "release"
    BY <1>3 DEF Later
  <2>4. w.op = "release" => todo' # <<>> /\ todo'[1].op \in {"failed", "unwound"}
    BY <1>3, <1>5
  <2> QED
    BY <2>1, <2>2, <2>3, <2>4 DEF Ending, Locked
<1>10. ASSUME NEW u \in Trades, Exists(u)
       PROVE  row'[u].terms = row[u].terms /\ row'[u].status # "none"
  <2>1. CASE u # t
    BY <1>1, <1>2, <1>10, <2>1, OtherRows DEF Exists
  <2>2. CASE u = t
    <3>1. w.op # "insert"
      BY <1>4, <1>10, <2>2 DEF Found
    <3>2. row'[t].terms = row[t].terms
      BY <1>4, <3>1 DEF Left
    <3>3. CASE w.op \in RowOps \cup {"settled", "paidSettled"}
      <4>1. row'[t].status # "none"
        BY <1>4, <3>1, <3>3 DEF Left, RowOps
      <4> QED
        BY <2>2, <3>2, <4>1
    <3>4. CASE w.op \notin RowOps \cup {"settled", "paidSettled"}
      <4>1. row'[t] = row[t]
        BY <1>4, <3>4 DEF Left
      <4> QED
        BY <1>10, <2>2, <4>1 DEF Exists
    <3> QED
      BY <3>3, <3>4
  <2> QED
    BY <2>1, <2>2
<1>11. ASSUME NEW u \in Trades, Booked(u) PROVE BookTerms(u)' = BookTerms(u)
  <2>1. CASE w.op = "insert" /\ u = t
    <3>1. ~Exists(t) /\ row'[t].terms = w.terms /\ row'[t].status = "preparing"
      BY <1>4, <2>1 DEF Found, Left
    <3> QED
      BY <1>3, <2>1, <3>1 DEF BookTerms, Exists, TermsOf
  <2>2. CASE ~(w.op = "insert" /\ u = t)
    <3>1. Exists(u)
      BY <1>6, <1>11, <2>2 DEF Booked, InBooks, Armed, Exists
    <3>2. row'[u].terms = row[u].terms /\ row'[u].status # "none"
      BY <1>10, <3>1
    <3> QED
      BY <3>1, <3>2 DEF BookTerms, Exists, TermsOf
  <2> QED
    BY <2>1, <2>2
<1>12. ASSUME NEW u \in Trades, u # t, w.op # "handover" PROVE Booked(u)' <=> Booked(u)
  <2>1. InBooks(u)' <=> InBooks(u)
    <3>1. /\ row'[u].status = row[u].status /\ row'[u].rail = row[u].rail
          /\ row'[u].holdId = row[u].holdId
          /\ row'[u].cashTransaction = row[u].cashTransaction
          /\ row'[u].superseded = row[u].superseded
      BY <1>1, <1>2, <1>12, OtherRows
    <3> QED
      BY <3>1 DEF InBooks, Armed
  <2> QED
    BY <1>6, <1>7, <1>8, <1>9, <1>12, <2>1 DEF Booked
<1>13. \A c \in Capital, n \in Nat :
          /\ Release(c, n).allocated = AtLeast0(c.allocated - n)
          /\ Retire(c, n).allocated = AtLeast0(c.allocated - n)
  BY GivesBack
<1>14. AgainKept
  <2>1. ASSUME NEW u \in Trades, Repeated(u), u # t PROVE Repeated(u)'
    <3>1. Undone(u)
      BY <1>2, <1>3, <2>1 DEF Repeated
    <3>2. /\ row'[u].status = row[u].status /\ row'[u].rail = row[u].rail
          /\ row'[u].holdId = row[u].holdId
      BY <1>1, <1>2, <2>1, OtherRows
    <3> QED
      BY <3>1, <3>2 DEF Repeated, Undone
  <2>2. ASSUME Repeated(t) PROVE Repeated(t)'
    <3>1. CASE w.op = "unwound"
      <4>1. /\ row'[t].status = "unwound" /\ row'[t].rail = row[t].rail
            /\ row'[t].holdId = row[t].holdId
        BY <1>4, <3>1 DEF Left
      <4>2. ~(row[t].holdId /\ row[t].rail = "none")
        BY <2>2 DEF Repeated, Undone, InBooks
      <4> QED
        BY <4>1, <4>2 DEF Repeated, Undone
    <3>2. CASE w.op # "unwound"
      <4>1. Undone(t)
        BY <1>3, <2>2, <3>2 DEF Repeated
      <4>2. w.op \notin RowOps \cup {"settled", "paidSettled"}
        BY <1>4, <3>2, <4>1
           DEF Found, Undone, RowOps, Exists, Preparing, Awaiting, Failing, Armed
      <4>3. row'[t] = row[t]
        BY <1>4, <4>2 DEF Left
      <4> QED
        BY <4>1, <4>3 DEF Repeated, Undone
    <3> QED
      BY <3>1, <3>2
  <2>3. ASSUME NEW u \in Trades, Repeated(u)' PROVE Exists(u)
    <3>1. row'[u].status \in {"unwound", "failed"}
      BY <2>3 DEF Repeated, Undone
    <3>2. CASE u # t
      BY <1>1, <1>2, <3>1, <3>2, OtherRows DEF Exists
    <3>3. CASE u = t
      BY <1>3, <1>4, <3>1, <3>3 DEF Left
    <3> QED
      BY <3>2, <3>3
  <2>4. \A u \in Trades : Exists(u) => Kept(u)
    BY <1>10 DEF Kept, Exists, TermsOf
  <2> QED
    BY <2>1, <2>2, <2>3, <2>4 DEF AgainKept
<1>15. CASE w.op \notin {"release", "handover"}
  <2>1. capital' = capital
    BY <1>4, <1>15 DEF Written
  <2>2. Booked(t)' <=> InBooks(t)'
    BY <1>7, <1>9, <1>15 DEF Booked
  <2>3. Booked(t) <=> w.op = "insert" \/ (InBooks(t) /\ ~Ending(t))
    BY <1>6 DEF Booked
  <2>4. InBooks(t)' <=> w.op = "insert" \/ (InBooks(t) /\ ~Ending(t))
    <3>1. CASE w.op \in {"insert", "armed", "armedVault", "locked", "settled",
                         "paidSettled", "paidFailed"}
      <4>1. InBooks(t)'
        BY <1>4, <3>1 DEF Left, InBooks, Armed, RowOps
      <4>2. w.op = "insert" \/ Armed(t)
        BY <1>4, <3>1 DEF Found, Preparing, Awaiting, Armed
      <4> QED
        BY <1>8, <3>1, <4>1, <4>2 DEF InBooks
    <3>2. CASE w.op \in {"failed", "unwound"} /\ Locked(t)
      <4>1. w.op = "failed" /\ Awaiting(t, "arc-vault")
        BY <1>4, <3>2 DEF Found, Failing, Closing
      <4>2. InBooks(t) /\ InBooks(t)'
        BY <1>4, <3>2, <4>1 DEF Left, Awaiting, InBooks, Armed, Locked
      <4> QED
        BY <1>8, <3>2, <4>2
    <3>3. CASE w.op \in {"failed", "unwound"} /\ ~Locked(t)
      <4>1. w.op = "failed" => (row[t].holdId => row[t].rail # "none")
        BY <1>4, <3>3 DEF Found, Failing
      <4>2. ~InBooks(t)'
        BY <1>4, <3>3, <4>1 DEF Left, InBooks, Armed, Locked
      <4> QED
        BY <1>8, <3>3, <4>2
    <3>4. CASE w.op \in {"sold", "accepted", "expired"}
      <4>1. row' = row
        BY <1>4, <3>4 DEF Written
      <4> QED
        BY <1>8, <3>4, <4>1 DEF InBooks, Armed
    <3> QED
      BY <1>3, <1>15, <3>1, <3>2, <3>3, <3>4 DEF WriteOps
  <2>5. \A u \in Trades : Booked(u)' <=> Booked(u)
    BY <1>12, <1>15, <2>2, <2>3, <2>4
  <2> QED
    BY <1>4, <1>11, <1>14, <2>1, <2>5, BooksSame
<1>16. CASE w.op = "release"
  <2>1. ~Ending(t) /\ Ending(t)'
    BY <1>8, <1>9, <1>16
  <2>2. ~Booked(t)' /\ (Booked(t) <=> InBooks(t))
    BY <1>6, <1>7, <1>16, <2>1 DEF Booked
  <2>3. /\ \A u \in Trades : u # t => (Booked(u)' <=> Booked(u))
        /\ Exists(t)
    BY <1>3, <1>12, <1>16
  <2>4. BookTerms(t) = w.terms /\ TermsOf(t) = w.terms
    BY <1>3, <1>16 DEF BookTerms
  <2>5. capital' = [capital EXCEPT ![w.terms.mandate] =
                        Release(capital[w.terms.mandate], w.terms.price)]
        /\ capital \in [Mandates -> Capital]
    BY <1>4, <1>16 DEF Written
  <2>6. w.terms.price \in Nat /\ w.terms.mandate \in Mandates
    BY <1>3, ConstantsAssumption DEF Terms
  <2>7. \A m \in Mandates : capital'[m].allocated =
            IF m = BookTerms(t).mandate
            THEN AtLeast0(capital[m].allocated - BookTerms(t).price)
            ELSE capital[m].allocated
    BY <1>13, <2>4, <2>5, <2>6
  <2>8. CASE InBooks(t)
    BY <1>3, <1>4, <1>11, <1>14, <2>2, <2>3, <2>7, <2>8, BooksDrop
  <2>9. CASE ~InBooks(t)
    <3>1. /\ todo' # <<>> /\ todo'[1].op = "unwound" /\ row[t].status = "failed"
          /\ row' = row /\ todo'[1].trade = t
      BY <1>3, <1>5, <1>16, <2>9 DEF Failing, Closing, InBooks
    <3>2. ~Repeated(t) /\ Repeated(t)'
      BY <1>3, <1>16, <2>9, <3>1 DEF Repeated, Undone, InBooks, Armed
    <3>3. \A u \in Trades : Booked(u)' <=> Booked(u)
      BY <2>2, <2>3, <2>9
    <3> QED
      BY <1>3, <1>4, <1>11, <1>14, <2>4, <2>7, <3>2, <3>3, BooksAgain
  <2> QED
    BY <2>8, <2>9
<1>17. CASE w.op = "handover"
  <2>1. PICK p : p = HolderAmong(w.terms.invoice, Trades \ {t})
    OBVIOUS
  <2>2. row'[t] = row[t] /\ (InBooks(t)' <=> InBooks(t))
    <3>1. row'[t] = row[t]
      BY <1>4, <1>17 DEF Left, RowOps
    <3> QED
      BY <3>1 DEF InBooks, Armed
  <2>3. Booked(t)' <=> Booked(t)
    BY <1>6, <1>7, <1>8, <1>9, <1>17, <2>2 DEF Booked
  <2>4. CASE p = NoTrade
    <3>1. row' = row /\ capital' = capital
      BY <1>2, <1>4, <1>17, <2>1, <2>4 DEF Written
    <3>2. \A u \in Trades : Booked(u)' <=> Booked(u)
      BY <1>6, <1>7, <1>8, <1>9, <1>17, <3>1 DEF Booked, InBooks, Armed
    <3> QED
      BY <1>4, <1>11, <1>14, <3>1, <3>2, BooksSame
  <2>5. CASE p # NoTrade
    <3>1. /\ p \in Trades \ {t} /\ p \in Live(w.terms.invoice)
          /\ row'[p].superseded /\ row'[p].status = row[p].status
          /\ \A u \in Trades \ {p} : row'[u] = row[u]
      BY <1>1, <1>2, <1>17, <2>1, <2>5, Superseded
    <3>2. /\ row[p].status = "settled" /\ ~row[p].superseded /\ Exists(p)
      BY <3>1 DEF Live, Exists
    <3>3. InBooks(p) /\ ~InBooks(p)'
      BY <3>1, <3>2 DEF InBooks, Armed
    <3>4. Booked(p) /\ ~Booked(p)'
      BY <1>7, <1>8, <1>17, <3>1, <3>3 DEF Booked
    <3>5. \A u \in Trades : Booked(u)' <=> Booked(u) /\ u # p
      <4>1. ASSUME NEW u \in Trades \ {p} PROVE Booked(u)' <=> Booked(u)
        BY <1>6, <1>7, <1>8, <1>9, <1>17, <3>1 DEF Booked, InBooks, Armed
      <4> QED
        BY <3>4, <4>1
    <3>6. BookTerms(p) = TermsOf(p) /\ TermsOf(p) \in Terms
      BY <3>1, <3>2 DEF BookTerms, TermsOf, TypeInv, WellFormed
    <3>7. /\ capital \in [Mandates -> Capital]
          /\ capital' = [capital EXCEPT ![TermsOf(p).mandate] =
                 IF row[p].rail = "arc-vault"
                 THEN Retire(capital[TermsOf(p).mandate], TermsOf(p).price)
                 ELSE Release(capital[TermsOf(p).mandate], TermsOf(p).price)]
      BY <1>2, <1>4, <1>17, <2>1, <2>5 DEF Written
    <3>8. TermsOf(p).price \in Nat /\ TermsOf(p).mandate \in Mandates
      BY <3>6, ConstantsAssumption DEF Terms
    <3>9. \A m \in Mandates : capital'[m].allocated =
              IF m = BookTerms(p).mandate
              THEN AtLeast0(capital[m].allocated - BookTerms(p).price)
              ELSE capital[m].allocated
      BY <1>13, <3>6, <3>7, <3>8
    <3> QED
      BY <1>4, <1>11, <1>14, <3>1, <3>4, <3>5, <3>9, BooksDrop
  <2> QED
    BY <2>4, <2>5
<1> QED
  BY <1>15, <1>16, <1>17

LEMMA InitSerial == ASSUME Init PROVE SerialInv
<1>1. /\ todo = <<>> /\ job = [r \in Requests |-> IdleJob]
      /\ row = [t \in Trades |-> NoRow]
      /\ \A m \in Mandates : capital[m].allocated = 0
  BY DEF Init
<1>2. \A r \in Requests : job[r].pc = "idle" /\ job[r].batch = {}
  BY <1>1 DEF IdleJob
<1>3. \A t \in Trades : row[t].status = "none" /\ ~row[t].superseded
  BY <1>1 DEF NoRow
<1>4. InStep
  <2>1. \A t \in Trades : RowFit(t)
    BY <1>3 DEF RowFit, Preparing
  <2>2. \A r \in Requests : JobFit(job[r], todo)
    BY <1>2 DEF JobFit, Carrying, Reads, Calls
  <2> QED
    BY <1>1, <2>1, <2>2 DEF InStep, TodoFit
<1>5. OneHolder
  <2>1. \A i : Live(i) = {}
    BY <1>3 DEF Live, On
  <2>2. \A r \in Requests : JobHolds(job[r], todo)
    BY <1>2 DEF JobHolds
  <2> QED
    BY <1>1, <2>1, <2>2 DEF OneHolder, TodoHolds
<1>6. Balanced
  <2>1. \A t \in Trades : ~Booked(t)
    BY <1>1, <1>3 DEF Booked, Inserting, InBooks, Armed
  <2>2. \A m \in Mandates : Books(m) = {} /\ Again(m) = {}
    BY <1>1, <1>3, <2>1 DEF Books, Again, Repeated, Undone
  <2>3. \A m \in Mandates : /\ Total(BookPrice, Books(m)) = 0
                            /\ Total(PriceOf, Again(m)) = 0
    <3>1. Total(BookPrice, {}) = 0 /\ Total(PriceOf, {}) = 0
      BY TotalEmpty
    <3> QED
      BY <2>2, <3>1, Zenon
  <2> QED
    BY <1>1, <2>3 DEF Balanced
<1> QED
  BY <1>4, <1>5, <1>6 DEF SerialInv

LEMMA NextSerial ==
    ASSUME OneAtATime, TypeInv, DvpInv, SerialInv, [Next]_vars
    PROVE  SerialInv'
<1>1. CASE StoreWrite
  BY <1>1, StoreWriteInStep, StoreWriteOneHolder, StoreWriteBalanced DEF SerialInv
<1>2. ASSUME NEW r \in Requests, Client(r) \/ Handler(r) \/ Outside(r)
      PROVE  SerialInv'
  BY <1>2, ClientSerial, HandlerSerial, OutsideSerial
<1>3. CASE \/ \E q \in Quotes, i \in Invoices : IssueQuote(q, i)
           \/ \E i \in Invoices : List(i)
           \/ \E t \in Trades : Age(t) \/ ExpireHold(t)
  BY <1>3, TimeSerial
<1>4. CASE Crash
  BY <1>4 DEF Crash, OneAtATime, TypeInv, TypeOK
<1>5. CASE UNCHANGED vars
  <2>1. UNCHANGED <<row, capital, job, todo, owner, hold>>
    BY <1>5 DEF vars
  <2>2. InStep'
    <3>1. (\A t \in Trades : RowFit(t))'
      BY <2>1 DEF SerialInv, InStep, RowFit, Preparing, Locked
    <3>2. TodoFit(todo)'
      BY <2>1 DEF SerialInv, InStep, TodoFit, Ready, Preparing, Awaiting, Locked, Failing,
                  Closing, InBooks, Exists, Armed, TermsOf
    <3>3. (\A r \in Requests : JobFit(job[r], todo))'
      BY <2>1 DEF SerialInv, InStep, JobFit, Preparing, Awaiting, Locked, Closing,
                  InBooks, Own, Exists, Armed, TermsOf
    <3> QED
      BY <3>1, <3>2, <3>3 DEF InStep
  <2>3. OneHolder'
    BY <2>1 DEF SerialInv, OneHolder, Live, On, Exists, TermsOf, Handing, Among,
                DeliveredUnawares, TodoHolds, JobHolds
  <2>4. Balanced'
    <3>1. BookPrice' = BookPrice /\ PriceOf' = PriceOf
      BY <2>1 DEF BookPrice, BookTerms, PriceOf, Exists, TermsOf
    <3>2. \A m : Books(m)' = Books(m)
      BY <2>1 DEF Books, Booked, BookTerms, Inserting, InBooks, Ending, Exists, Armed,
                  TermsOf, Locked
    <3>3. \A m : Again(m)' = Again(m)
      BY <2>1 DEF Again, Repeated, Undone, InBooks, Armed, TermsOf
    <3> QED
      BY <2>1, <3>1, <3>2, <3>3 DEF SerialInv, Balanced
  <2> QED
    BY <2>2, <2>3, <2>4 DEF SerialInv
<1> QED
  BY <1>1, <1>2, <1>3, <1>4, <1>5 DEF Next

LEMMA AlwaysSerial ==
    ASSUME OneAtATime
    PROVE  Spec => [](TypeInv /\ DvpInv /\ SerialInv)
<1>1. TypeInv /\ DvpInv /\ SerialInv /\ [Next]_vars => SerialInv'
  BY NextSerial
<1>2. Init => SerialInv
  BY InitSerial
<1> QED
  BY <1>1, <1>2, InitTypeInv, NextTypeInv, InitDvpInv, NextDvpInv, PTL DEF Spec

(* At rest, the allocation of a mandate is what its live trades cost, less  *)
(* what the trades that gave back twice cost, at most.                      *)
LEMMA AllocationAtRest ==
    ASSUME TypeInv, SerialInv, Quiet, NEW m \in Mandates
    PROVE  /\ capital[m].allocated <= Total(PriceOf, Committed(m))
           /\ Total(PriceOf, Committed(m))
                  <= capital[m].allocated + Total(PriceOf, FreedAgain(m))
<1>1. \A t : ~Inserting(t) /\ ~Ending(t)
  BY DEF Quiet, Inserting, Ending
<1>2. \A t \in Trades : InBooks(t) => Exists(t)
  BY DEF InBooks, Armed, Exists
<1>3. Books(m) = Committed(m)
  BY <1>1, <1>2 DEF Books, Booked, BookTerms, InBooks, Committed
<1>4. \A t \in Books(m) : BookPrice[t] = PriceOf[t]
  BY <1>1, <1>2 DEF Books, Booked, BookPrice, BookTerms, PriceOf
<1>5. IsFiniteSet(Books(m))
  BY TradesFinite, FS_Subset DEF Books
<1>6. Total(BookPrice, Books(m)) = Total(PriceOf, Books(m))
  BY <1>4, <1>5, TotalSame
<1>7. Again(m) = FreedAgain(m)
  BY DEF Quiet, Again, Repeated, Undone, FreedAgain
<1> QED
  BY <1>3, <1>6, <1>7 DEF SerialInv, Balanced

(* Served one request at a time, by a process that does not die, no path    *)
(* through arming, paying, sweeping or reselling leaks a mandate's capital  *)
(* or frees it twice, except that unwinding a trade whose arming had failed *)
(* frees its price once more: the allocation is the sum of what the live    *)
(* trades cost, less at most the prices of those trades.                    *)
THEOREM CapitalAccounted ==
    ASSUME OneAtATime
    PROVE  Spec => []AllocationExact
<1>1. TypeInv /\ SerialInv => AllocationExact
  BY AllocationAtRest DEF AllocationExact
<1> QED
  BY <1>1, AlwaysSerial, PTL

(* In the same regime a position has one holder: at most one settled trade  *)
(* of an invoice answers for it, and the paper is with that trade's buyer   *)
(* unless a delivery went unheard of.                                       *)
THEOREM PaperHasOneHolder ==
    ASSUME OneAtATime
    PROVE  Spec => []HolderOwnsPaper
<1>1. TypeInv /\ SerialInv => HolderOwnsPaper
  <2> SUFFICES ASSUME TypeInv, SerialInv, Quiet, NEW i \in Invoices,
                      NEW holder, holder = CurrentHolder(i), holder # NoTrade
               PROVE  /\ DeliveredUnawares(i) \/ owner[i] = TermsOf(holder).mandate
                      /\ \A t \in On(i) :
                             row[t].status = "settled" /\ ~row[t].superseded => t = holder
    BY DEF HolderOwnsPaper
  <2>1. \A t : ~Handing(t)
    BY DEF Quiet, Handing, Among
  <2>2. holder \in Live(i)
    BY HolderIsLive DEF CurrentHolder, Live
  <2>3. \A t \in Live(i) : t = holder
    BY <2>1, <2>2 DEF SerialInv, OneHolder
  <2>4. DeliveredUnawares(i) \/ owner[i] = TermsOf(holder).mandate
    BY <2>1, <2>2 DEF SerialInv, OneHolder
  <2> QED
    BY <2>3, <2>4 DEF Live
<1> QED
  BY <1>1, AlwaysSerial, PTL

-----------------------------------------------------------------------------
(* What a mandate committed is in the vault, or was drawn by a trade that   *)
(* still holds its paper, or never got it: proved of Settlement for every   *)
(* order of requests, crash and lost answer.                                *)

(* The trades of mandate m that drew on the vault and were not sold on.     *)
Drawn(m) == {t \in Trades : /\ payout[t] = "executed" /\ Exists(t)
                            /\ TermsOf(t).mandate = m /\ ~row[t].superseded}
FundedExact ==
    \A m \in Escrowed : capital[m].funded = vault[m] + Total(PriceOf, Drawn(m))

(* The awaits at which a request sells trade j.trade on the terms j.terms.  *)
Selling == Carrying \ {"gate"}
TermsKept(j, writes) ==
    j.pc \in Selling =>
        /\ Exists(j.trade) => j.terms = TermsOf(j.trade)
        /\ \A k \in 1..Len(writes) :
               writes[k].op = "insert" /\ writes[k].trade = j.trade =>
                   writes[k].terms = j.terms

FundedInv ==
    /\ \A r \in Requests : TermsKept(job[r], todo)
    /\ \A t \in Trades : row[t].superseded => CashMoved(t)
    /\ FundedExact

(* Nothing that paid out of the vault is touched.                           *)
LEMMA FundedSame ==
    ASSUME RailInv, FundedExact, vault' = vault,
           \A t \in Trades : payout'[t] = "executed" <=> payout[t] = "executed",
           \A m \in Mandates : capital'[m].funded = capital[m].funded,
           \A t \in Trades : payout[t] = "executed" /\ Exists(t) =>
               Kept(t) /\ row'[t].superseded = row[t].superseded
    PROVE  FundedExact'
<1>1. \A t \in Trades : payout[t] = "executed" => Exists(t)
  BY DEF RailInv, OnePath
<1> SUFFICES ASSUME NEW m \in Escrowed
             PROVE  capital'[m].funded = vault'[m] + Total(PriceOf', Drawn(m)')
  BY DEF FundedExact
<1>2. \A t \in Trades : payout'[t] = "executed" =>
          Kept(t) /\ Exists(t) /\ row'[t].superseded = row[t].superseded
  BY <1>1
<1>3. Drawn(m)' = Drawn(m)
  BY <1>2 DEF Drawn, Kept
<1>4. \A t \in Drawn(m) : PriceOf'[t] = PriceOf[t]
  BY <1>2, <1>3 DEF Drawn, PriceOf, Kept
<1>5. IsFiniteSet(Drawn(m))
  BY TradesFinite, FS_Subset DEF Drawn
<1>6. Total(PriceOf', Drawn(m)) = Total(PriceOf, Drawn(m))
  BY <1>4, <1>5, TotalSame
<1>7. m \in Mandates
  BY ConstantsAssumption
<1> QED
  BY <1>3, <1>6, <1>7 DEF FundedExact

(* A step of one request that keeps what the others sell.                   *)
LEMMA StepFunded ==
    ASSUME TypeInv, RailInv, FundedInv, NEW r \in Requests, NEW j, NEW writes,
           todo = <<>>, GoOn(r, j, writes), UNCHANGED chain,
           \A m \in Mandates : capital'[m].funded = capital[m].funded,
           \A t \in Trades : /\ Exists(t)' <=> Exists(t)
                             /\ row'[t].terms = row[t].terms
                             /\ row'[t].superseded = row[t].superseded,
           j.pc \in Selling => j.trade \in Trades,
           TermsKept(j, writes),
           \A k \in 1..Len(writes) : writes[k].op = "insert" => ~Exists(writes[k].trade)
    PROVE  FundedInv'
<1>1. /\ job' = [job EXCEPT ![r] = j] /\ todo' = writes
      /\ UNCHANGED <<vault, payout, paid>> /\ job \in [Requests -> Job]
  BY DEF GoOn, chain, TypeInv, TypeOK
<1>2. FundedExact'
  BY <1>1, FundedSame DEF FundedInv, Kept, TermsOf
<1>3. \A t \in Trades : (row[t].superseded => CashMoved(t))'
  BY <1>1 DEF FundedInv, CashMoved
<1>4. ASSUME NEW s \in Requests PROVE TermsKept(job[s], todo)'
  <2>1. CASE s = r
    <3>1. job'[s] = j
      BY <1>1, <2>1
    <3> QED
      BY <1>1, <3>1 DEF TermsKept, TermsOf
  <2>2. CASE s # r
    <3>1. job'[s] = job[s] /\ TermsKept(job[s], todo)
      BY <1>1, <2>2 DEF FundedInv
    <3>2. job[s].pc \in Selling => job[s].trade \in Trades /\ Exists(job[s].trade)
      BY Formed DEF Selling, Carrying, Numbered
    <3> QED
      BY <1>1, <3>1, <3>2 DEF TermsKept, TermsOf
  <2> QED
    BY <2>1, <2>2
<1> QED
  BY <1>2, <1>3, <1>4 DEF FundedInv

(* Every step of a client or handler but the one that inserts a trade: the  *)
(* request goes on selling what it sold, or starts on a trade's own terms,  *)
(* and writes of rows that exist.                                           *)
SellsOn(r, j, writes) ==
    /\ GoOn(r, j, writes)
    /\ j.pc \in Selling =>
           \/ /\ job[r].pc \in Selling
              /\ j.trade = job[r].trade /\ j.terms = job[r].terms
           \/ j.trade \in Trades /\ j.terms = TermsOf(j.trade)
    /\ \A k \in 1..Len(writes) : writes[k].op # "insert"
Sells(r) == \E j, writes : SellsOn(r, j, writes)

(* A request that ends, sweeps on, or releases a hold.                      *)
LEMMA RestSells ==
    ASSUME NEW r \in Requests, NEW j, GoOn(r, j, <<>>),
           j.pc \in Handlers \cup {"reclaim", "releaseHold", "gate"}
    PROVE  Sells(r)
<1> DEFINE writes == <<>>
<1>1. \A k \in 1..Len(writes) : FALSE
  BY EmptySeq
<1>2. GoOn(r, j, writes)
  OBVIOUS
<1> HIDE DEF writes
<1>3. j.pc \notin Selling
  BY DEF Selling, Carrying, Reads, Calls, Handlers
<1>4. SellsOn(r, j, writes)
  BY <1>1, <1>2, <1>3 DEF SellsOn
<1> QED
  BY <1>4 DEF Sells

(* A request that goes on with the sale it carries.                         *)
LEMMA AtSells ==
    ASSUME TypeInv, NEW r \in Requests, NEW j, todo = <<>>, job[r].pc \in Selling,
           j.pc = "idle" \/ (j.trade = job[r].trade /\ j.terms = job[r].terms),
           NEW ops \in Seq(WriteOps), \A k \in 1..Len(ops) : ops[k] # "insert",
           GoOn(r, j, Do(r, ops))
    PROVE  Sells(r)
<1>1. job[r].trade \in Trades /\ job[r].terms \in Terms
  BY Formed DEF Selling, Carrying, Numbered
<1>2. PICK writes : writes = Do(r, ops)
  OBVIOUS
<1>3. \A k \in 1..Len(writes) : writes[k].op # "insert"
  BY <1>1, <1>2, WritesTyped DEF Do
<1>4. j.pc = "idle" => j.pc \notin Selling
  BY DEF Selling, Carrying, Reads, Calls
<1>5. SellsOn(r, j, writes)
  BY <1>2, <1>3, <1>4 DEF SellsOn
<1> QED
  BY <1>5 DEF Sells

LEMMA MoveSells ==
    ASSUME TypeInv, NEW r \in Requests, NEW j, todo = <<>>, job[r].pc \in Selling,
           j.trade = job[r].trade /\ j.terms = job[r].terms, GoOn(r, j, <<>>)
    PROVE  Sells(r)
<1>1. PICK writes : writes = <<>>
  OBVIOUS
<1>2. \A k \in 1..Len(writes) : FALSE
  BY <1>1, EmptySeq
<1>3. SellsOn(r, j, writes)
  BY <1>1, <1>2 DEF SellsOn
<1> QED
  BY <1>3 DEF Sells

LEMMA UnwindSells ==
    ASSUME TypeInv, NEW r \in Requests, NEW t \in Trades, Exists(t),
           NEW batch \in SUBSET Trades, NEW after \in Handlers,
           Unwind(r, t, batch, after)
    PROVE  Sells(r)
<1>1. Swept(batch, after).pc \in Handlers \cup {"reclaim"}
  BY SweptJob
<1>2. CASE GoOn(r, Swept(batch, after), <<>>)
  BY <1>1, <1>2, RestSells
<1>3. CASE GoOn(r, Swept(batch, after), UnwindWrites(t))
  <2>1. \A k \in 1..Len(UnwindWrites(t)) : UnwindWrites(t)[k].op # "insert"
    BY UnwindWritesTyped
  <2>2. Swept(batch, after).pc \notin Selling
    BY <1>1 DEF Selling, Carrying, Reads, Calls, Handlers
  <2>3. SellsOn(r, Swept(batch, after), UnwindWrites(t))
    BY <1>3, <2>1, <2>2 DEF SellsOn
  <2> QED
    BY <2>3 DEF Sells
<1>4. CASE GoOn(r, [IdleJob EXCEPT !.pc = "releaseHold", !.trade = t,
                                   !.batch = batch, !.after = after], <<>>)
  <2> DEFINE j == [IdleJob EXCEPT !.pc = "releaseHold", !.trade = t,
                                  !.batch = batch, !.after = after]
  <2>1. GoOn(r, j, <<>>) /\ j.pc = "releaseHold"
    BY <1>4 DEF IdleJob
  <2> HIDE DEF j
  <2> QED
    BY <2>1, RestSells
<1> QED
  BY <1>2, <1>3, <1>4 DEF Unwind

LEMMA ClientSells ==
    ASSUME TypeInv, NEW r \in Requests, Client(r)
    PROVE  Sells(r) /\ todo = <<>> /\ UNCHANGED <<row, capital, chain>>
<1>1. /\ job[r] \in Job
      /\ IdleJob.pc = "idle"
  BY IdleJobTyped DEF TypeInv, TypeOK
<1>2. ASSUME NEW handler \in Handlers, Sweep(r, handler)
      PROVE  Sells(r) /\ todo = <<>> /\ UNCHANGED <<row, capital, chain>>
  <2>1. Swept(Stale, handler).pc \in Handlers \cup {"reclaim"}
    BY SweptJob DEF Stale
  <2>2. GoOn(r, Swept(Stale, handler), <<>>) /\ todo = <<>>
        /\ UNCHANGED <<row, capital, chain>>
    BY <1>2 DEF Sweep, Running, rows
  <2> QED
    BY <2>1, <2>2, RestSells
<1>3. ASSUME NEW i \in Invoices, Delist(r, i)
      PROVE  Sells(r) /\ todo = <<>> /\ UNCHANGED <<row, capital, chain>>
  <2>1. GoOn(r, IdleJob, <<>>) /\ todo = <<>> /\ UNCHANGED <<row, capital, chain>>
    BY <1>3 DEF Delist, Starting, Running
  <2> QED
    BY <1>1, <2>1, RestSells DEF Handlers
<1>4. ASSUME NEW i \in Invoices, NEW q \in Quotes, NEW m \in Mandates,
             NEW price \in Prices, ArmTrade(r, i, q, m, price)
      PROVE  Sells(r) /\ todo = <<>> /\ UNCHANGED <<row, capital, chain>>
  <2> DEFINE j == [IdleJob EXCEPT
                   !.pc = "gate",
                   !.terms = [invoice |-> i, quote |-> q, mandate |-> m,
                              seller |-> PartyHolding(i), price |-> price]]
  <2>1. GoOn(r, j, <<>>) /\ Starting(r) /\ UNCHANGED <<row, capital, chain>>
    BY <1>4 DEF ArmTrade, rows
  <2>2. j.pc = "gate"
    BY DEF IdleJob
  <2> HIDE DEF j
  <2> QED
    BY <2>1, <2>2, RestSells DEF Starting, Running
<1>5. ASSUME NEW t \in Trades, NEW p \in Payments, Pay(r, t, p)
      PROVE  Sells(r) /\ todo = <<>> /\ UNCHANGED <<row, capital, chain>>
  <2> DEFINE j == [IdleJob EXCEPT !.pc = "requirements", !.trade = t,
                                  !.terms = TermsOf(t), !.payment = p]
             writes == <<>>
  <2>1. GoOn(r, j, writes) /\ todo = <<>> /\ UNCHANGED <<row, capital, chain>>
    BY <1>5 DEF Pay, Starting, Running, rows
  <2>2. j.trade = t /\ j.terms = TermsOf(t)
    BY DEF IdleJob
  <2>3. \A k \in 1..Len(writes) : FALSE
    BY EmptySeq
  <2> HIDE DEF j, writes
  <2>4. SellsOn(r, j, writes)
    BY <2>1, <2>2, <2>3 DEF SellsOn
  <2> QED
    BY <2>1, <2>4 DEF Sells
<1>6. ASSUME NEW t \in Trades, AskUnwind(r, t)
      PROVE  Sells(r) /\ todo = <<>> /\ UNCHANGED <<row, capital, chain>>
  <2>1. /\ Unwind(r, t, {}, "idle") /\ Exists(t) /\ todo = <<>>
        /\ UNCHANGED <<row, capital, chain>>
    BY <1>6 DEF AskUnwind, Running, rows
  <2>2. Sells(r)
    BY <2>1, UnwindSells DEF Handlers
  <2> QED
    BY <2>1, <2>2
<1> QED
  BY <1>2, <1>3, <1>4, <1>5, <1>6 DEF Client

(* The handlers; one of them writes that a payment was declined.            *)
LEMMA HandlerSells ==
    ASSUME TypeInv, NEW r \in Requests, Handler(r),
           \A t \in Trades : ~GateAdmits(r, t)
    PROVE  /\ Sells(r) /\ todo = <<>> /\ UNCHANGED <<capital, chain>>
           /\ row' = row \/ SettleDeclined(r)
<1> DEFINE Still == todo = <<>> /\ UNCHANGED <<row, capital, chain>>
           Plain(ops) == /\ ops \in Seq(WriteOps)
                         /\ \A k \in 1..Len(ops) : ops[k] # "insert"
<1>1. todo = <<>>
  BY DEF Handler, Reclaim, GateAdmits, Refuse, GateRefuses, ReadFails, CallFails,
         ChooseRail, PositionRead, HoldAnswered, ChallengeBuilt, MatchAnswered,
         PayoutAnswered, DeliverAnswered, RequirementsBuilt, RequirementsFail,
         Verified, NotVerified, SettleAnswered, SettleDeclined, SettleFails,
         PaidDeliveryAnswered, ReleaseAnswered, Heard, Running
<1>2. Still \/ SettleDeclined(r)
  <2>1. \/ Refuse(r) \/ GateRefuses(r) \/ RequirementsFail(r)
        \/ PositionRead(r) \/ MatchAnswered(r) \/ Verified(r) \/ SettleAnswered(r)
        \/ \E rail \in {"x402", "arc-vault"} : ChooseRail(r, rail)
        => UNCHANGED <<rows, chain>>
    BY DEF Refuse, GateRefuses, RequirementsFail, PositionRead, MatchAnswered, Verified,
           SettleAnswered, ChooseRail
  <2>2. \/ \E t \in Trades : Reclaim(r, t)
        \/ ReadFails(r) \/ CallFails(r) \/ RequirementsBuilt(r)
        \/ NotVerified(r) \/ SettleFails(r) \/ ReleaseAnswered(r)
        => UNCHANGED <<rows, chain>>
    BY DEF Reclaim, ReadFails, CallFails, RequirementsBuilt, NotVerified, SettleFails,
           ReleaseAnswered
  <2>3. \/ ChallengeBuilt(r) \/ HoldAnswered(r) \/ PayoutAnswered(r)
        \/ DeliverAnswered(r) \/ PaidDeliveryAnswered(r)
        => UNCHANGED <<rows, chain>>
    BY DEF ChallengeBuilt, HoldAnswered, PayoutAnswered, DeliverAnswered,
           PaidDeliveryAnswered
  <2>4. UNCHANGED <<rows, chain>> => Still
    BY <1>1 DEF rows
  <2> HIDE DEF Still
  <2> QED
    BY <2>1, <2>2, <2>3, <2>4 DEF Handler
<1>3. SettleDeclined(r) => UNCHANGED <<capital, chain>>
  BY DEF SettleDeclined
<1>4. /\ job[r] \in Job
      /\ job[r].pc \in Numbered => job[r].trade \in Trades /\ Exists(job[r].trade)
      /\ \A u \in job[r].batch : u \in Trades /\ Exists(u)
  BY <1>1, Formed
<1>5. \A pc \in Reads \cup Calls :
          At(r, pc).trade = job[r].trade /\ At(r, pc).terms = job[r].terms
  BY <1>4, AtJob
<1>6. IdleJob.pc = "idle"
  BY IdleJobTyped
<1> SUFFICES Sells(r)
  BY <1>1, <1>2, <1>3
<1> HIDE DEF Still
<1>7. ASSUME NEW pc \in (Reads \cup Calls) \ {"gate", "releaseHold"}, job[r].pc = pc
      PROVE  pc \in Selling
  BY DEF Selling, Carrying
<1>8. ASSUME UnwindPaid(r), job[r].pc \in Selling PROVE Sells(r)
  <2>1. job[r].trade \in Trades /\ Exists(job[r].trade)
    BY <1>4, <1>8 DEF Selling, Carrying, Numbered
  <2> QED
    BY <1>8, <2>1, UnwindSells DEF UnwindPaid, Handlers
<1>9. ASSUME NEW t \in Trades, Reclaim(r, t) PROVE Sells(r)
  <2>1. job[r].batch \ {t} \in SUBSET Trades /\ job[r].after \in Handlers
    BY <1>4 DEF Job
  <2>2. Exists(t) /\ Unwind(r, t, job[r].batch \ {t}, job[r].after)
    BY <1>4, <1>9 DEF Reclaim
  <2> QED
    BY <2>1, <2>2, UnwindSells
<1>10. CASE Refuse(r) \/ GateRefuses(r) \/ RequirementsFail(r)
  BY <1>6, <1>10, RestSells DEF Refuse, GateRefuses, RequirementsFail, Handlers
<1>11. ASSUME NEW pc \in Reads \cup Calls, GoOn(r, At(r, pc), <<>>), job[r].pc \in Selling
       PROVE  Sells(r)
  BY <1>1, <1>5, <1>11, MoveSells
<1>12. ASSUME NEW ops, Plain(ops), NEW j, GoOn(r, j, Do(r, ops)), job[r].pc \in Selling,
              j = IdleJob \/ \E pc \in Reads \cup Calls : j = At(r, pc)
       PROVE  Sells(r)
  <2>1. j.pc = "idle" \/ (j.trade = job[r].trade /\ j.terms = job[r].terms)
    BY <1>5, <1>6, <1>12
  <2> QED
    BY <1>1, <1>12, <2>1, AtSells
<1>13. CASE ReadFails(r) \/ CallFails(r)
  <2>1. Plain(<<"release", "failed">>)
    BY DEF WriteOps
  <2>2. GoOn(r, IdleJob, Do(r, <<"release", "failed">>)) /\ job[r].pc \in Selling
    BY <1>13 DEF ReadFails, CallFails, Abandon, Heard, Running, Selling, Carrying, Reads,
                 Calls
  <2> QED
    BY <1>12, <2>1, <2>2
<1>14. ASSUME NEW rail, ChooseRail(r, rail) PROVE Sells(r)
  <2> DEFINE j == [At(r, "position") EXCEPT !.rail = rail]
  <2>1. GoOn(r, j, <<>>) /\ job[r].pc \in Selling
    BY <1>14 DEF ChooseRail, Running, Selling, Carrying, Reads, Calls
  <2>2. j.trade = job[r].trade /\ j.terms = job[r].terms
    BY <1>4 DEF At, Job
  <2> HIDE DEF j
  <2> QED
    BY <1>1, <2>1, <2>2, MoveSells
<1>15. CASE PositionRead(r) \/ MatchAnswered(r) \/ Verified(r) \/ SettleAnswered(r)
  <2>1. PICK pc \in {"createHold", "payout", "settle", "deliverPaid"} :
            GoOn(r, At(r, pc), <<>>)
    BY <1>15 DEF PositionRead, MatchAnswered, Verified, SettleAnswered
  <2>2. pc \in Reads \cup Calls
    BY DEF Reads, Calls
  <2>3. job[r].pc \in Selling
    BY <1>15 DEF PositionRead, MatchAnswered, Verified, SettleAnswered, Heard, Running,
                 Selling, Carrying, Reads, Calls
  <2> QED
    BY <1>11, <2>1, <2>2, <2>3
<1>16. CASE HoldAnswered(r)
  <2>1. job[r].pc \in Selling
    BY <1>16 DEF HoldAnswered, Heard, Running, Selling, Carrying, Reads, Calls
  <2>2. CASE GoOn(r, At(r, "challenge"), <<>>)
    BY <1>11, <2>1, <2>2 DEF Reads
  <2>3. CASE GoOn(r, At(r, "register"), Do(r, <<"armedVault">>))
    <3>1. Plain(<<"armedVault">>)
      BY DEF WriteOps
    <3>2. "register" \in Reads \cup Calls
      BY DEF Calls
    <3>3. PICK j : j = At(r, "register")
      OBVIOUS
    <3>4. GoOn(r, j, Do(r, <<"armedVault">>))
      BY <2>3, <3>3
    <3> QED
      BY <1>12, <2>1, <3>1, <3>2, <3>3, <3>4
  <2> QED
    BY <1>16, <2>2, <2>3 DEF HoldAnswered
<1>17. CASE ChallengeBuilt(r)
  <2>1. Plain(<<"armed">>)
    BY DEF WriteOps
  <2>2. GoOn(r, IdleJob, Do(r, <<"armed">>)) /\ job[r].pc \in Selling
    BY <1>17 DEF ChallengeBuilt, Running, Selling, Carrying, Reads, Calls
  <2> QED
    BY <1>12, <2>1, <2>2
<1>18. CASE PayoutAnswered(r)
  <2> DEFINE ops == <<"locked", "sold", "accepted", "handover">>
  <2>1. Plain(ops)
    BY DEF WriteOps
  <2>2. GoOn(r, At(r, "deliver"), Do(r, ops)) /\ job[r].pc \in Selling
    BY <1>18 DEF PayoutAnswered, Heard, Running, Selling, Carrying, Reads, Calls
  <2>3. "deliver" \in Reads \cup Calls
    BY DEF Calls
  <2> HIDE DEF ops
  <2>4. PICK j : j = At(r, "deliver")
    OBVIOUS
  <2>5. GoOn(r, j, Do(r, ops))
    BY <2>2, <2>4
  <2> QED
    BY <1>12, <2>1, <2>2, <2>3, <2>4, <2>5
<1>19. CASE DeliverAnswered(r)
  <2>1. Plain(<<"settled">>) /\ Plain(<<"failed">>)
    BY DEF WriteOps
  <2>2. /\ GoOn(r, IdleJob, Do(r, <<"settled">>)) \/ GoOn(r, IdleJob, Do(r, <<"failed">>))
        /\ job[r].pc \in Selling
    BY <1>19 DEF DeliverAnswered, Heard, Running, Selling, Carrying, Reads, Calls
  <2> QED
    BY <1>12, <2>1, <2>2
<1>20. CASE PaidDeliveryAnswered(r)
  <2>1. /\ Plain(<<"paidSettled", "accepted", "sold", "handover">>)
        /\ Plain(<<"paidFailed">>)
    BY DEF WriteOps
  <2>2. /\ \/ GoOn(r, IdleJob, Do(r, <<"paidSettled", "accepted", "sold", "handover">>))
           \/ GoOn(r, IdleJob, Do(r, <<"paidFailed">>))
        /\ job[r].pc \in Selling
    BY <1>20 DEF PaidDeliveryAnswered, Heard, Running, Selling, Carrying, Reads, Calls
  <2> QED
    BY <1>12, <2>1, <2>2
<1>21. CASE RequirementsBuilt(r)
  <2>1. job[r].pc \in Selling /\ (GoOn(r, At(r, "verify"), <<>>) \/ UnwindPaid(r))
    BY <1>21 DEF RequirementsBuilt, Running, Selling, Carrying, Reads, Calls
  <2> QED
    BY <1>8, <1>11, <2>1 DEF Reads
<1>22. CASE NotVerified(r) \/ SettleFails(r)
  BY <1>8, <1>22 DEF NotVerified, SettleFails, Heard, Running, Selling, Carrying, Reads,
                     Calls
<1>23. CASE SettleDeclined(r)
  <2> DEFINE j == [IdleJob EXCEPT !.pc = "releaseHold", !.trade = job[r].trade]
  <2>1. GoOn(r, IdleJob, <<>>) \/ GoOn(r, j, <<>>)
    BY <1>23 DEF SettleDeclined
  <2>2. j.pc = "releaseHold"
    BY DEF IdleJob
  <2> HIDE DEF j
  <2> QED
    BY <1>6, <2>1, <2>2, RestSells DEF Handlers
<1>24. CASE ReleaseAnswered(r)
  <2>1. job[r].trade \in Trades /\ Exists(job[r].trade)
    BY <1>4, <1>24 DEF ReleaseAnswered, Heard, Running, Numbered, Calls
  <2>2. PICK j : j = Swept(job[r].batch, job[r].after)
    OBVIOUS
  <2>3. j.pc \in Handlers \cup {"reclaim"}
    BY <1>4, <2>2, SweptJob DEF Job
  <2>4. GoOn(r, j, <<>>) \/ GoOn(r, j, UnwindWrites(job[r].trade))
    BY <1>24, <2>2 DEF ReleaseAnswered
  <2>5. CASE GoOn(r, j, UnwindWrites(job[r].trade))
    <3>1. PICK writes : writes = UnwindWrites(job[r].trade)
      OBVIOUS
    <3>2. \A k \in 1..Len(writes) : writes[k].op # "insert"
      BY <2>1, <3>1, UnwindWritesTyped
    <3>3. j.pc \notin Selling
      BY <2>3 DEF Selling, Carrying, Reads, Calls, Handlers
    <3>4. SellsOn(r, j, writes)
      BY <2>5, <3>1, <3>2, <3>3 DEF SellsOn
    <3> QED
      BY <3>4 DEF Sells
  <2> QED
    BY <2>3, <2>4, <2>5, RestSells
<1> QED
  BY <1>9, <1>10, <1>13, <1>14, <1>15, <1>16, <1>17, <1>18, <1>19, <1>20, <1>21, <1>22,
     <1>23, <1>24 DEF Handler

LEMMA RequestFunded ==
    ASSUME TypeInv, RailInv, FundedInv, NEW r \in Requests, Client(r) \/ Handler(r)
    PROVE  FundedInv'
<1>1. ASSUME NEW t \in Trades, GateAdmits(r, t) PROVE FundedInv'
  <2> DEFINE terms == job[r].terms
             j == [job[r] EXCEPT !.pc = "rail", !.trade = t]
             ops == <<"insert">>
             writes == Writes(ops, t, terms)
  <2>1. /\ todo = <<>> /\ job[r].pc = "gate" /\ ~Exists(t)
        /\ capital' = [capital EXCEPT ![terms.mandate] =
                           Allocate(capital[terms.mandate], terms.price)]
        /\ GoOn(r, j, writes) /\ UNCHANGED <<row, chain>>
    BY <1>1 DEF GateAdmits, Running, IsNext
  <2>2. terms \in Terms /\ job[r] \in Job
    BY <2>1, Formed DEF Carrying, Reads, Calls
  <2>3. j.trade = t /\ j.terms = terms
    BY <2>2 DEF Job
  <2>4. ops \in Seq(WriteOps)
    BY DEF WriteOps
  <2>5. capital \in [Mandates -> Capital] /\ terms.mandate \in Mandates
    BY <2>2 DEF TypeInv, TypeOK, Terms
  <2>6. \A n : \A c \in Capital : Allocate(c, n).funded = c.funded
    BY DEF Allocate, Capital
  <2> HIDE DEF terms, j, ops
  <2>7. \A m \in Mandates : capital'[m].funded = capital[m].funded
    BY <2>1, <2>5, <2>6
  <2>8. \A k \in 1..Len(writes) : writes[k].trade = t /\ writes[k].terms = terms
    BY <2>2, <2>4, WritesTyped
  <2> HIDE DEF writes
  <2>9. TermsKept(j, writes)
    BY <2>1, <2>3, <2>8 DEF TermsKept
  <2>10. \A u \in Trades : /\ Exists(u)' <=> Exists(u)
                           /\ row'[u].terms = row[u].terms
                           /\ row'[u].superseded = row[u].superseded
    BY <2>1 DEF Exists
  <2> QED
    BY <2>1, <2>3, <2>7, <2>8, <2>9, <2>10, StepFunded
<1>2. CASE \A t \in Trades : ~GateAdmits(r, t)
  <2>1. /\ Sells(r) /\ todo = <<>> /\ UNCHANGED <<capital, chain>>
        /\ row' = row \/ SettleDeclined(r)
    BY <1>2, ClientSells, HandlerSells
  <2>2. PICK j, writes : SellsOn(r, j, writes)
    BY <2>1 DEF Sells
  <2>3. job[r].pc \in Selling => job[r].trade \in Trades /\ Exists(job[r].trade)
    BY <2>1, Formed DEF Selling, Carrying, Numbered
  <2>4. TermsKept(job[r], todo)
    BY DEF FundedInv
  <2>5. TermsKept(j, writes) /\ (j.pc \in Selling => j.trade \in Trades)
    BY <2>2, <2>3, <2>4 DEF SellsOn, TermsKept
  <2>6. ASSUME NEW u \in Trades
        PROVE  /\ Exists(u)' <=> Exists(u)
               /\ row'[u].terms = row[u].terms
               /\ row'[u].superseded = row[u].superseded
    <3>1. CASE row' = row
      BY <3>1 DEF Exists
    <3>2. CASE SettleDeclined(r)
      <4>1. PICK t : t = job[r].trade
        OBVIOUS
      <4>2. row' = [row EXCEPT ![t].status = "failed"] /\ job[r].pc = "settle"
        BY <3>2, <4>1 DEF SettleDeclined, Heard, Running
      <4>3. t \in Trades /\ Exists(t)
        BY <2>3, <4>1, <4>2 DEF Selling, Carrying, Calls
      <4>4. row \in [Trades -> Row] /\ row[u] \in Row
        BY DEF TypeInv, TypeOK
      <4> QED
        BY <4>2, <4>3, <4>4 DEF Exists, Row
    <3> QED
      BY <2>1, <3>1, <3>2
  <2>7. /\ \A m \in Mandates : capital'[m].funded = capital[m].funded
        /\ GoOn(r, j, writes) /\ \A k \in 1..Len(writes) : writes[k].op # "insert"
    BY <2>1, <2>2 DEF SellsOn
  <2> QED
    BY <2>1, <2>5, <2>6, <2>7, StepFunded
<1> QED
  BY <1>1, <1>2

(* A step that moves no terms, no row and no request.                       *)
LEMMA FrameFunded ==
    ASSUME TypeInv, FundedInv, FundedExact', todo' = todo,
           \A s \in Requests : /\ job'[s].pc = job[s].pc
                               /\ job'[s].trade = job[s].trade
                               /\ job'[s].terms = job[s].terms,
           \A t \in Trades : /\ Exists(t)' <=> Exists(t)
                             /\ row'[t].terms = row[t].terms
                             /\ row'[t].superseded = row[t].superseded
                             /\ CashMoved(t) => CashMoved(t)'
    PROVE  FundedInv'
<1>1. \A t \in Trades : (row[t].superseded => CashMoved(t))'
  BY DEF FundedInv
<1>2. ASSUME NEW s \in Requests PROVE TermsKept(job[s], todo)'
  <2>1. PICK j : j = job[s]
    OBVIOUS
  <2>2. PICK i : i = job'[s]
    OBVIOUS
  <2>3. i.pc = j.pc /\ i.trade = j.trade /\ i.terms = j.terms /\ TermsKept(j, todo)
    BY <2>1, <2>2 DEF FundedInv
  <2>4. j.pc \in Selling => j.trade \in Trades
    BY <2>1 DEF TypeInv, WellFormed, JobFormed, Selling, Carrying, Numbered
  <2>5. TermsKept(i, todo)'
    BY <2>3, <2>4 DEF TermsKept, TermsOf
  <2> QED
    BY <2>2, <2>5
<1> QED
  BY <1>1, <1>2 DEF FundedInv

(* The outside world; a payout draws what its trade costs.                  *)
LEMMA OutsideFunded ==
    ASSUME TypeInv, RailInv, FundedInv, NEW r \in Requests, Outside(r)
    PROVE  FundedInv'
<1>1. /\ todo = <<>> /\ UNCHANGED <<rows, todo>>
      /\ \E answer : job' = [job EXCEPT ![r].heard = answer]
  BY DEF Outside, CallRefused, PaymentDeclined, HoldCreated, HoldExecuted, HoldReleased,
         MatchRegistered, PayoutExecuted, PaymentSettled, Landed, Answer, Waiting, Heard,
         Running
<1>2. job \in [Requests -> Job] /\ UNCHANGED <<row, capital>>
  BY <1>1 DEF TypeInv, TypeOK, rows
<1>3. \A s \in Requests : /\ job'[s].pc = job[s].pc
                          /\ job'[s].trade = job[s].trade
                          /\ job'[s].terms = job[s].terms
  BY <1>1, <1>2 DEF Job
<1>4. /\ payout \in [Trades -> PayoutState] /\ paid \in [Trades -> SUBSET Payments]
      /\ vault \in [Mandates -> Nat]
  BY DEF TypeInv, TypeOK
<1>5. \A t \in Trades : /\ Exists(t)' <=> Exists(t)
                        /\ row'[t].terms = row[t].terms
                        /\ row'[t].superseded = row[t].superseded
  BY <1>2 DEF Exists
<1>6. CASE ~PayoutExecuted(r)
  <2>1. /\ vault' = vault
        /\ \/ payout' = payout
           \/ MatchRegistered(r)
    BY <1>6 DEF Outside, CallRefused, PaymentDeclined, HoldCreated, HoldExecuted,
                HoldReleased, MatchRegistered, PaymentSettled, chain
  <2>2. \A t \in Trades : payout'[t] = "executed" <=> payout[t] = "executed"
    BY <1>4, <2>1 DEF MatchRegistered
  <2>3. \A t \in Trades : paid[t] # {} => paid'[t] # {}
    <3>1. paid' = paid \/ PaymentSettled(r)
      BY <1>6 DEF Outside, CallRefused, PaymentDeclined, HoldCreated, HoldExecuted,
                  HoldReleased, MatchRegistered, chain
    <3>2. CASE PaymentSettled(r)
      <4>1. paid' = [paid EXCEPT ![job[r].trade] =
                         paid[job[r].trade] \cup {job[r].payment}]
        BY <3>2 DEF PaymentSettled
      <4> QED
        BY <1>4, <4>1
    <3> QED
      BY <3>1, <3>2
  <2>4. FundedExact'
    BY <1>2, <1>5, <2>1, <2>2, FundedSame DEF FundedInv, Kept, TermsOf
  <2> QED
    BY <1>1, <1>3, <1>5, <2>2, <2>3, <2>4, FrameFunded DEF CashMoved
<1>7. CASE PayoutExecuted(r)
  <2>1. PICK t : t = job[r].trade
    OBVIOUS
  <2>2. PICK terms : terms = job[r].terms
    OBVIOUS
  <2>3. /\ job[r].pc = "payout" /\ payout[t] = "registered"
        /\ terms.price <= vault[terms.mandate]
        /\ payout' = [payout EXCEPT ![t] = "executed"]
        /\ vault' = [vault EXCEPT ![terms.mandate] = vault[terms.mandate] - terms.price]
        /\ paid' = paid
    BY <1>7, <2>1, <2>2 DEF PayoutExecuted, Waiting, Heard, Running
  <2>4. /\ t \in Trades /\ Exists(t) /\ terms \in Terms /\ terms = TermsOf(t)
    <3>1. job[r].pc \in Selling /\ job[r].pc \in Carrying \cap Numbered
      BY <2>3 DEF Selling, Carrying, Numbered, Calls
    <3>2. t \in Trades /\ Exists(t) /\ terms \in Terms
      BY <1>1, <2>1, <2>2, <3>1, Formed
    <3> QED
      BY <2>1, <2>2, <3>1, <3>2 DEF FundedInv, TermsKept
  <2>5. ~row[t].superseded
    BY <2>3, <2>4 DEF RailInv, OnePath, VaultSide, Signed, FundedInv, CashMoved
  <2>6. terms.price \in Nat /\ terms.mandate \in Mandates
    BY <2>4, ConstantsAssumption DEF Terms
  <2>7. ASSUME NEW m \in Escrowed
        PROVE  capital'[m].funded = vault'[m] + Total(PriceOf', Drawn(m)')
    <3>1. m \in Mandates /\ capital[m].funded = vault[m] + Total(PriceOf, Drawn(m))
      BY ConstantsAssumption DEF FundedInv, FundedExact
    <3>2. PriceOf' = PriceOf
      BY <1>2 DEF PriceOf, Exists, TermsOf
    <3>3. t \notin Drawn(m) /\ IsFiniteSet(Drawn(m))
      BY <2>3, TradesFinite, FS_Subset DEF Drawn
    <3>4. CASE m = terms.mandate
      <4>1. Drawn(m)' = Drawn(m) \cup {t}
        BY <1>2, <1>4, <2>3, <2>4, <2>5, <3>4 DEF Drawn, Exists, TermsOf
      <4>2. PriceOf[t] = terms.price
        BY <2>4 DEF PriceOf
      <4>3. \A x \in Drawn(m) \cup {t} : PriceOf[x] \in Int
        BY <2>4, PriceTyped DEF Drawn
      <4>4. Total(PriceOf, Drawn(m) \cup {t}) = Total(PriceOf, Drawn(m)) + terms.price
        BY <3>3, <4>2, <4>3, TotalAdd
      <4>5. Total(PriceOf, Drawn(m)) \in Int
        BY <3>3, <4>3, TotalInt
      <4>6. vault'[m] = vault[m] - terms.price /\ vault[m] \in Nat
        BY <1>4, <2>3, <3>1, <3>4
      <4> QED
        BY <1>2, <2>6, <3>1, <3>2, <4>1, <4>4, <4>5, <4>6
    <3>5. CASE m # terms.mandate
      <4>1. Drawn(m)' = Drawn(m)
        BY <1>2, <1>4, <2>3, <2>4, <3>5 DEF Drawn, Exists, TermsOf
      <4>2. vault'[m] = vault[m]
        BY <1>4, <2>3, <3>1, <3>5
      <4> QED
        BY <1>2, <3>1, <3>2, <4>1, <4>2
    <3> QED
      BY <3>4, <3>5
  <2>8. \A u \in Trades : CashMoved(u) => CashMoved(u)'
    BY <1>4, <2>3 DEF CashMoved
  <2>9. FundedExact'
    BY <2>7 DEF FundedExact
  <2> QED
    BY <1>1, <1>3, <1>5, <2>8, <2>9, FrameFunded
<1> QED
  BY <1>6, <1>7

(* What a store write does to the terms of a row.                           *)
LEMMA TermsWritten ==
    ASSUME TypeInv, StoreWrite, NEW w, w = Head(todo), NEW u \in Trades
    PROVE  \/ /\ w.op = "insert" /\ u = w.trade
              /\ row'[u].terms = w.terms /\ ~row'[u].superseded
           \/ /\ Exists(u)' <=> Exists(u)
              /\ row'[u].terms = row[u].terms
              /\ w.op # "handover" => row'[u].superseded = row[u].superseded
<1>1. Written(w) /\ w \in Write /\ w.op \in WriteOps /\ w.trade \in Trades
  BY RowsWritten, NextWrite DEF StoreWrite, Write
<1>2. row[u] \in Row
  BY DEF TypeInv, TypeOK
<1>3. CASE w.op = "handover"
  <2>1. PICK p : p = HolderAmong(w.terms.invoice, Trades \ {w.trade})
    OBVIOUS
  <2>2. row'[u].status = row[u].status /\ row'[u].terms = row[u].terms
    BY <1>3, <2>1, Superseded
  <2> QED
    BY <1>3, <2>2 DEF Exists
<1>4. CASE w.op # "handover" /\ u # w.trade
  <2>1. row'[u] = row[u]
    BY <1>1, <1>4 DEF Written
  <2> QED
    BY <2>1 DEF Exists
<1>5. CASE u = w.trade /\ w.op \in RowOps
  <2>1. row'[u] = Patched(row[u], w)
    BY <1>1, <1>5 DEF Written
  <2>2. CASE w.op = "insert"
    <3>1. row'[u] = [NoRow EXCEPT !.status = "preparing", !.terms = w.terms]
      BY <2>1, <2>2 DEF Patched
    <3> QED
      BY <1>5, <2>2, <3>1 DEF NoRow
  <2>3. CASE w.op # "insert"
    <3>1. Exists(u)
      BY <1>5, <2>3, NextWrite DEF StoreWrite
    <3>2. row'[u].terms = row[u].terms /\ row'[u].superseded = row[u].superseded
          /\ row'[u].status # "none"
      <4>1. CASE w.op = "armed"
        <5>1. row'[u] = [row[u] EXCEPT !.status = "awaiting_payment", !.holdId = TRUE]
          BY <2>1, <4>1 DEF Patched
        <5> QED
          BY <1>2, <5>1 DEF Row
      <4>2. CASE w.op = "armedVault"
        <5>1. row'[u] = [row[u] EXCEPT !.status = "awaiting_payment", !.holdId = TRUE,
                                       !.rail = "arc-vault"]
          BY <2>1, <4>2 DEF Patched
        <5> QED
          BY <1>2, <5>1 DEF Row
      <4>3. CASE w.op = "locked"
        <5>1. row'[u] = [row[u] EXCEPT !.arcLockId = TRUE, !.cashTransaction = TRUE]
          BY <2>1, <4>3 DEF Patched
        <5> QED
          BY <1>2, <3>1, <5>1 DEF Row, Exists
      <4>4. CASE w.op = "paidFailed"
        <5>1. row'[u] = [row[u] EXCEPT !.status = "failed", !.rail = "x402",
                                       !.cashTransaction = TRUE]
          BY <2>1, <4>4 DEF Patched
        <5> QED
          BY <1>2, <5>1 DEF Row
      <4>5. CASE w.op \in {"failed", "unwound"}
        <5>1. row'[u] = [row[u] EXCEPT !.status = w.op]
          BY <2>1, <4>5 DEF Patched
        <5> QED
          BY <1>2, <4>5, <5>1 DEF Row
      <4> QED
        BY <1>5, <2>3, <4>1, <4>2, <4>3, <4>4, <4>5 DEF RowOps
    <3> QED
      BY <3>1, <3>2 DEF Exists
  <2> QED
    BY <2>2, <2>3
<1>6. CASE u = w.trade /\ w.op \in {"settled", "paidSettled"}
  <2> DEFINE rail == IF w.op = "paidSettled" THEN "x402" ELSE row[u].rail
             cash == row[u].cashTransaction \/ w.op = "paidSettled"
  <2>1. row'[u] = [row[u] EXCEPT !.status = "settled", !.settledAt = clock + 1,
                                 !.rail = rail, !.cashTransaction = cash]
    BY <1>1, <1>6 DEF Written, Settled
  <2> HIDE DEF rail, cash
  <2>2. /\ row'[u].status = "settled" /\ row'[u].superseded = row[u].superseded
        /\ row'[u].terms = row[u].terms
    BY <1>2, <2>1 DEF Row
  <2>3. Exists(u)
    BY <1>6, NextWrite DEF StoreWrite
  <2> QED
    BY <2>2, <2>3 DEF Exists
<1>7. CASE u = w.trade /\ w.op \in {"release", "sold", "accepted", "expired"}
  <2>1. row' = row
    BY <1>1, <1>7 DEF Written
  <2> QED
    BY <2>1 DEF Exists
<1> QED
  BY <1>1, <1>3, <1>4, <1>5, <1>6, <1>7 DEF WriteOps, RowOps

(* The store writes; a hand-over retires what was drawn for the paper that  *)
(* is sold on.                                                              *)
LEMMA StoreWriteFunded ==
    ASSUME TypeInv, DvpInv, RailInv, FundedInv, StoreWrite
    PROVE  FundedInv'
<1>1. PICK w : w = Head(todo)
  OBVIOUS
<1>2. PICK p : p = HolderAmong(w.terms.invoice, Trades \ {w.trade})
  OBVIOUS
<1>3. /\ todo # <<>> /\ UNCHANGED <<job, vault, payout, paid>>
  BY DEF StoreWrite, chain
<1>4. /\ w \in Write /\ w.trade \in Trades /\ w.op \in WriteOps /\ w.terms \in Terms
      /\ todo[1] = w /\ 1 \in 1..Len(todo)
      /\ \A k \in 1..Len(todo') : k + 1 \in 1..Len(todo) /\ todo'[k] = todo[k + 1]
  <2>1. 1 \in 1..Len(todo)
    BY <1>1, RowAfterWrite, NextWrite DEF StoreWrite, Write
  <2> QED
    BY <1>1, <2>1, NextWrite DEF StoreWrite, Write
<1>5. w.op = "insert" => ~Exists(w.trade)
  BY <1>1, <1>4, AmongAfterWrite DEF RailInv, OnePath
<1>6. \A u \in Trades :
          \/ /\ w.op = "insert" /\ u = w.trade
             /\ row'[u].terms = w.terms /\ ~row'[u].superseded
          \/ /\ Exists(u)' <=> Exists(u)
             /\ row'[u].terms = row[u].terms
             /\ w.op # "handover" => row'[u].superseded = row[u].superseded
  BY <1>1, TermsWritten
<1>7. Written(w) /\ capital \in [Mandates -> Capital]
  BY <1>1, RowsWritten DEF Written
<1>8. \A c \in Capital, n \in Nat :
          /\ Release(c, n).funded = c.funded
          /\ Retire(c, n).funded = AtLeast0(c.funded - n)
  BY GivesBack
<1>9. \A u \in Trades : Exists(u) => Kept(u)
  BY <1>5, <1>6 DEF Kept, TermsOf
<1>10. ASSUME NEW s \in Requests PROVE TermsKept(job[s], todo)'
  <2>1. PICK j : j = job[s]
    OBVIOUS
  <2>2. job'[s] = j /\ TermsKept(j, todo)
    BY <1>3, <2>1 DEF FundedInv
  <2> SUFFICES ASSUME j.pc \in Selling, NEW t, t = j.trade
               PROVE  /\ Exists(t)' => j.terms = TermsOf(t)'
                      /\ \A k \in 1..Len(todo') :
                             todo'[k].op = "insert" /\ todo'[k].trade = t =>
                                 todo'[k].terms = j.terms
    BY <2>2 DEF TermsKept, TermsOf, Exists
  <2>3. t \in Trades
    BY <2>1 DEF TypeInv, WellFormed, JobFormed, Selling, Carrying, Numbered
  <2>4. /\ Exists(t) => j.terms = TermsOf(t)
        /\ \A k \in 1..Len(todo) : todo[k].op = "insert" /\ todo[k].trade = t =>
               todo[k].terms = j.terms
    BY <2>2 DEF TermsKept
  <2>5. w.op = "insert" /\ t = w.trade => w.terms = j.terms
    BY <1>4, <2>4
  <2> QED
    BY <1>4, <1>5, <1>6, <2>3, <2>4, <2>5, SMTT(40) DEF TermsOf
<1>11. CASE w.op # "handover"
  <2>1. \A t \in Trades : (row[t].superseded => CashMoved(t))'
    BY <1>3, <1>6, <1>11 DEF FundedInv, CashMoved
  <2>2. ASSUME NEW m \in Mandates PROVE capital'[m].funded = capital[m].funded
    <3>1. CASE w.op = "release"
      <4>1. capital' = [capital EXCEPT ![w.terms.mandate] =
                            Release(capital[w.terms.mandate], w.terms.price)]
        BY <1>7, <3>1 DEF Written
      <4>2. w.terms.price \in Nat /\ w.terms.mandate \in Mandates
        BY <1>4, ConstantsAssumption DEF Terms
      <4> QED
        BY <1>7, <1>8, <4>1, <4>2
    <3>2. CASE w.op # "release"
      BY <1>7, <1>11, <3>2 DEF Written
    <3> QED
      BY <3>1, <3>2
  <2>3. \A u \in Trades : payout[u] = "executed" /\ Exists(u) =>
            Kept(u) /\ row'[u].superseded = row[u].superseded
    BY <1>5, <1>6, <1>9, <1>11
  <2>4. FundedExact'
    BY <1>3, <2>2, <2>3, FundedSame DEF FundedInv
  <2> QED
    BY <1>10, <2>1, <2>4 DEF FundedInv
<1>12. CASE w.op = "handover" /\ p = NoTrade
  <2>1. row' = row /\ capital' = capital
    BY <1>2, <1>7, <1>12 DEF Written
  <2>2. FundedExact'
    BY <1>3, <1>9, <2>1, FundedSame DEF FundedInv
  <2>3. \A t \in Trades : (row[t].superseded => CashMoved(t))'
    BY <1>3, <2>1 DEF FundedInv, CashMoved
  <2> QED
    BY <1>10, <2>2, <2>3 DEF FundedInv
<1>13. CASE w.op = "handover" /\ p # NoTrade
  <2>1. /\ p \in Trades /\ p \in Live(w.terms.invoice)
        /\ \A u \in Trades \ {p} : row'[u] = row[u]
        /\ row'[p].superseded /\ row'[p].terms = row[p].terms
    BY <1>1, <1>2, <1>13, Superseded
  <2>2. row[p].status = "settled" /\ ~row[p].superseded /\ Exists(p)
    BY <2>1 DEF Live, Exists
  <2>3. CashMoved(p)
    BY <2>1, <2>2 DEF DvpInv, SettledMeansBothLegs
  <2>4. payout[p] = "executed" <=> row[p].rail = "arc-vault"
    BY <2>1, <2>3 DEF RailInv, OnePath, VaultSide, Signed, CashMoved
  <2>5. \A t \in Trades : (row[t].superseded => CashMoved(t))'
    BY <1>3, <2>1, <2>3 DEF FundedInv, CashMoved
  <2>6. PICK terms : terms = TermsOf(p)
    OBVIOUS
  <2>7. /\ terms.price \in Nat /\ terms.mandate \in Mandates /\ PriceOf[p] = terms.price
    <3>1. terms \in Terms
      BY <2>1, <2>2, <2>6 DEF TermsOf, TypeInv, WellFormed
    <3> QED
      BY <2>1, <2>2, <2>6, <3>1, PriceTyped, ConstantsAssumption DEF Terms
  <2>8. capital' = [capital EXCEPT ![terms.mandate] =
                        IF row[p].rail = "arc-vault"
                        THEN Retire(capital[terms.mandate], terms.price)
                        ELSE Release(capital[terms.mandate], terms.price)]
    BY <1>2, <1>7, <1>13, <2>6 DEF Written
  <2>9. CASE row[p].rail # "arc-vault"
    <3>1. \A m \in Mandates : capital'[m].funded = capital[m].funded
      BY <1>7, <1>8, <2>7, <2>8, <2>9
    <3>2. \A u \in Trades : payout[u] = "executed" /\ Exists(u) =>
              Kept(u) /\ row'[u].superseded = row[u].superseded
      BY <1>9, <2>1, <2>4, <2>9
    <3>3. FundedExact'
      BY <1>3, <3>1, <3>2, FundedSame DEF FundedInv
    <3> QED
      BY <1>10, <2>5, <3>3 DEF FundedInv
  <2>10. CASE row[p].rail = "arc-vault"
    <3>1. ASSUME NEW m \in Escrowed
          PROVE  capital'[m].funded = vault'[m] + Total(PriceOf', Drawn(m)')
      <4>1. m \in Mandates /\ capital[m].funded = vault[m] + Total(PriceOf, Drawn(m))
        BY ConstantsAssumption DEF FundedInv, FundedExact
      <4>2. IsFiniteSet(Drawn(m)) /\ IsFiniteSet(Drawn(m) \ {p})
        BY TradesFinite, FS_Subset DEF Drawn
      <4>3. \A x \in Drawn(m) : PriceOf[x] \in Nat /\ PriceOf[x] \in Int
        BY PriceTyped DEF Drawn
      <4>4. \A u \in Trades : payout[u] = "executed" => Exists(u) /\ Kept(u)
        BY <1>9 DEF RailInv, OnePath
      <4>5. Drawn(m)' = Drawn(m) \ {p}
        BY <1>3, <2>1, <4>4 DEF Drawn, Kept
      <4>6. \A x \in Drawn(m) \ {p} : PriceOf'[x] = PriceOf[x]
        BY <4>4 DEF Drawn, PriceOf, Kept
      <4>7. Total(PriceOf', Drawn(m) \ {p}) = Total(PriceOf, Drawn(m) \ {p})
        BY <4>2, <4>6, TotalSame
      <4>8. vault[m] \in Nat /\ vault'[m] = vault[m] /\ capital[m] \in Capital
        BY <1>3, <1>7, <4>1 DEF TypeInv, TypeOK
      <4>9. CASE m = terms.mandate
        <5>1. p \in Drawn(m)
          BY <2>1, <2>2, <2>4, <2>6, <2>10, <4>9 DEF Drawn
        <5>2. Total(PriceOf, Drawn(m)) = PriceOf[p] + Total(PriceOf, Drawn(m) \ {p})
          BY <4>2, <4>3, <5>1, TotalRemove
        <5>3. Total(PriceOf, Drawn(m) \ {p}) \in Nat
          BY <4>2, <4>3, TotalNat
        <5>4. capital'[m] = Retire(capital[m], terms.price)
          BY <1>7, <2>8, <2>10, <4>1, <4>9
        <5>5. capital'[m].funded = AtLeast0(capital[m].funded - terms.price)
          BY <1>8, <2>7, <4>8, <5>4
        <5> QED
          BY <2>7, <4>1, <4>5, <4>7, <4>8, <5>2, <5>3, <5>5 DEF AtLeast0
      <4>10. CASE m # terms.mandate
        <5>1. p \notin Drawn(m)
          BY <2>6, <4>10 DEF Drawn
        <5>2. Drawn(m) \ {p} = Drawn(m)
          BY <5>1
        <5>3. capital'[m] = capital[m]
          BY <1>7, <2>8, <4>1, <4>10
        <5> QED
          BY <4>1, <4>5, <4>7, <4>8, <5>2, <5>3
      <4> QED
        BY <4>9, <4>10
    <3>2. FundedExact'
      BY <3>1 DEF FundedExact
    <3> QED
      BY <1>10, <2>5, <3>2 DEF FundedInv
  <2> QED
    BY <2>9, <2>10
<1> QED
  BY <1>11, <1>12, <1>13

LEMMA InitFunded == ASSUME Init PROVE FundedInv
<1>1. /\ \A r \in Requests : job[r].pc = "idle"
      /\ \A t \in Trades : row[t] = NoRow /\ payout[t] = "none"
      /\ \A m \in Mandates : /\ capital[m].funded = Funded[m]
                             /\ vault[m] = IF m \in Escrowed THEN Funded[m] ELSE 0
  BY DEF Init, IdleJob
<1>2. \A r \in Requests : TermsKept(job[r], todo)
  BY <1>1 DEF TermsKept, Selling, Carrying, Reads, Calls
<1>3. \A t \in Trades : ~row[t].superseded
  BY <1>1 DEF NoRow
<1>4. FundedExact
  <2>1. \A m \in Escrowed : Drawn(m) = {}
    BY <1>1 DEF Drawn
  <2>2. \A m \in Escrowed : m \in Mandates /\ Funded[m] \in Nat
    BY ConstantsAssumption
  <2>3. Total(PriceOf, {}) = 0
    BY TotalEmpty
  <2>4. ASSUME NEW m \in Escrowed
        PROVE  capital[m].funded = vault[m] + Total(PriceOf, Drawn(m))
    <3>1. capital[m].funded = Funded[m] /\ vault[m] = Funded[m]
      BY <1>1, <2>2
    <3>2. Total(PriceOf, Drawn(m)) = 0
      BY <2>1, <2>3
    <3>3. Funded[m] = Funded[m] + 0
      BY <2>2
    <3> QED
      BY <3>1, <3>2, <3>3
  <2> QED
    BY <2>4 DEF FundedExact
<1> QED
  BY <1>2, <1>3, <1>4 DEF FundedInv

LEMMA NextFunded ==
    ASSUME TypeInv, DvpInv, RailInv, FundedInv, [Next]_vars
    PROVE  FundedInv'
<1>1. CASE StoreWrite
  BY <1>1, StoreWriteFunded
<1>2. ASSUME NEW r \in Requests, Client(r) \/ Handler(r) \/ Outside(r)
      PROVE  FundedInv'
  BY <1>2, RequestFunded, OutsideFunded
<1>3. ASSUME UNCHANGED <<capital, job, todo, vault, payout, paid>>,
             \A t \in Trades : /\ Exists(t)' <=> Exists(t)
                               /\ row'[t].terms = row[t].terms
                               /\ row'[t].superseded = row[t].superseded
      PROVE  FundedInv'
  <2>1. FundedExact'
    BY <1>3, FundedSame DEF FundedInv, Kept, TermsOf
  <2> QED
    BY <1>3, <2>1, FrameFunded DEF CashMoved
<1>4. ASSUME \/ \E q \in Quotes, i \in Invoices : IssueQuote(q, i)
             \/ \E i \in Invoices : List(i)
             \/ \E t \in Trades : Age(t) \/ ExpireHold(t)
      PROVE  FundedInv'
  <2>1. UNCHANGED <<capital, job, todo, vault, payout, paid>>
    BY <1>4 DEF IssueQuote, List, Age, ExpireHold, rows, chain
  <2>2. row \in [Trades -> Row]
    BY DEF TypeInv, TypeOK
  <2>3. row' = row \/ \E t \in Trades : row' = [row EXCEPT ![t].stale = TRUE]
    BY <1>4 DEF IssueQuote, List, Age, ExpireHold, rows
  <2>4. \A u \in Trades : /\ row'[u].status = row[u].status
                          /\ row'[u].terms = row[u].terms
                          /\ row'[u].superseded = row[u].superseded
    BY <2>2, <2>3 DEF Row
  <2> QED
    BY <1>3, <2>1, <2>4 DEF Exists
<1>5. CASE Crash
  <2>1. /\ job' = [r \in Requests |-> IdleJob]
        /\ UNCHANGED <<row, capital, vault, payout, paid>>
    BY <1>5 DEF Crash, rows, chain
  <2>2. \A r \in Requests : TermsKept(job[r], todo)'
    BY <2>1, IdleJobTyped DEF TermsKept, Selling, Carrying, Reads, Calls
  <2>3. FundedExact'
    BY <2>1, FundedSame DEF FundedInv, Kept, Exists, TermsOf
  <2>4. \A t \in Trades : (row[t].superseded => CashMoved(t))'
    BY <2>1 DEF FundedInv, CashMoved
  <2> QED
    BY <2>2, <2>3, <2>4 DEF FundedInv
<1>6. CASE UNCHANGED vars
  BY <1>3, <1>6 DEF vars, Exists
<1> QED
  BY <1>1, <1>2, <1>4, <1>5, <1>6 DEF Next

LEMMA AlwaysFunded == Spec => [](RailInv /\ FundedInv)
<1>1. TypeInv /\ DvpInv /\ RailInv /\ FundedInv /\ [Next]_vars => FundedInv'
  BY NextFunded
<1>2. Init => FundedInv
  BY InitFunded
<1> QED
  BY <1>1, <1>2, InitTypeInv, NextTypeInv, InitDvpInv, NextDvpInv, InitRailInv,
     NextRailInv, PTL DEF Spec

(* What a mandate in the vault committed is there still, or was drawn by a  *)
(* trade that was not sold on, to the unit: no order of payouts, resales,   *)
(* crashes and lost answers retires capital that was not paid out, or fails *)
(* to retire what was once its paper is sold on.                            *)
THEOREM CommittedIsInVaultOrDrawn == Spec => []FundedExact
<1>1. FundedInv => FundedExact
  BY DEF FundedInv
<1> QED
  BY <1>1, AlwaysFunded, PTL

-----------------------------------------------------------------------------
(* The quotes of a mandate in the vault are backed by it.                   *)

(* A payout the row knows of is cash, and cash is not unwound.              *)
LockFit == \A t \in Trades : /\ row[t].arcLockId => Locked(t)
                             /\ row[t].status = "unwound" => ~Locked(t)

LEMMA RowsLockFit ==
    ASSUME LockFit,
           \A t \in Trades :
               /\ row'[t].arcLockId = row[t].arcLockId
               /\ row'[t].cashTransaction = row[t].cashTransaction
               /\ row'[t].status = row[t].status \/ row'[t].status = "failed"
    PROVE  LockFit'
BY DEF LockFit, Locked

LEMMA StoreWriteLockFit ==
    ASSUME TypeInv, SerialInv, LockFit, StoreWrite
    PROVE  LockFit'
<1>1. PICK w : w = Head(todo)
  OBVIOUS
<1>2. PICK t : t = w.trade
  OBVIOUS
<1>3. Found(w, t) /\ Left(w, t)
  BY <1>1, <1>2, FoundAndLeft
<1>4. t \in Trades
  BY <1>1, <1>2, WriteKnown
<1> SUFFICES ASSUME NEW u \in Trades
             PROVE  /\ row'[u].arcLockId => row'[u].cashTransaction
                    /\ row'[u].status = "unwound" => ~row'[u].cashTransaction
  BY DEF LockFit, Locked
<1>5. /\ row[u].arcLockId => row[u].cashTransaction
      /\ row[u].status = "unwound" => ~row[u].cashTransaction
  BY DEF LockFit, Locked
<1>6. CASE u # t
  BY <1>1, <1>2, <1>5, <1>6, OtherRows
<1>7. CASE u = t
  <2>1. CASE w.op \in {"insert", "armed", "armedVault", "locked", "paidFailed"}
    BY <1>3, <1>7, <2>1 DEF Left
  <2>2. CASE w.op \in {"failed", "settled", "paidSettled"}
    BY <1>3, <1>5, <1>7, <2>2 DEF Left
  <2>3. CASE w.op = "unwound"
    BY <1>3, <1>5, <1>7, <2>3 DEF Found, Left, Closing, Locked
  <2>4. CASE w.op \notin RowOps \cup {"settled", "paidSettled"}
    BY <1>3, <1>5, <1>7, <2>4 DEF Left
  <2> QED
    BY <2>1, <2>2, <2>3, <2>4 DEF RowOps
<1> QED
  BY <1>6, <1>7

LEMMA NextLockFit ==
    ASSUME OneAtATime, TypeInv, SerialInv, LockFit, [Next]_vars
    PROVE  LockFit'
<1>1. CASE StoreWrite
  BY <1>1, StoreWriteLockFit
<1>2. row \in [Trades -> Row]
  BY DEF TypeInv, TypeOK
<1>3. ASSUME NEW r \in Requests, Client(r) \/ Handler(r) \/ Outside(r)
      PROVE  row' = row \/ \E t \in Trades : row' = [row EXCEPT ![t].status = "failed"]
  <2>1. CASE Client(r)
    BY <2>1, ClientSells
  <2>2. CASE \E t \in Trades : GateAdmits(r, t)
    BY <2>2 DEF GateAdmits
  <2>3. CASE SettleDeclined(r)
    <3>1. job[r].trade \in Trades
      BY <2>3, Formed DEF SettleDeclined, Heard, Running, Numbered, Calls
    <3> QED
      BY <2>3, <3>1 DEF SettleDeclined
  <2>4. CASE Handler(r) /\ \A t \in Trades : ~GateAdmits(r, t)
    BY <2>3, <2>4, HandlerSells
  <2>5. CASE Outside(r)
    BY <2>5 DEF Outside, CallRefused, PaymentDeclined, HoldCreated, HoldExecuted,
                HoldReleased, MatchRegistered, PayoutExecuted, PaymentSettled,
                Landed, Answer, rows
  <2> QED
    BY <1>3, <2>1, <2>2, <2>4, <2>5
<1>4. CASE \/ \E q \in Quotes, i \in Invoices : IssueQuote(q, i)
           \/ \E i \in Invoices : List(i)
           \/ \E t \in Trades : Age(t) \/ ExpireHold(t)
  <2>1. row' = row \/ \E t \in Trades : row' = [row EXCEPT ![t].stale = TRUE]
    BY <1>4 DEF IssueQuote, List, Age, ExpireHold, rows
  <2>2. \A u \in Trades : /\ row'[u].status = row[u].status
                          /\ row'[u].arcLockId = row[u].arcLockId
                          /\ row'[u].cashTransaction = row[u].cashTransaction
    BY <1>2, <2>1 DEF Row
  <2> QED
    BY <2>2, RowsLockFit
<1>5. CASE Crash
  BY <1>5 DEF Crash, OneAtATime, TypeInv, TypeOK
<1>6. CASE UNCHANGED vars
  BY <1>6, RowsLockFit DEF vars
<1>7. CASE \E r \in Requests : Client(r) \/ Handler(r) \/ Outside(r)
  <2>1. row' = row \/ \E t \in Trades : row' = [row EXCEPT ![t].status = "failed"]
    BY <1>3, <1>7
  <2>2. \A u \in Trades : /\ row'[u].status = row[u].status \/ row'[u].status = "failed"
                          /\ row'[u].arcLockId = row[u].arcLockId
                          /\ row'[u].cashTransaction = row[u].cashTransaction
    BY <1>2, <2>1 DEF Row
  <2> QED
    BY <2>2, RowsLockFit
<1> QED
  BY <1>1, <1>4, <1>5, <1>6, <1>7 DEF Next

LEMMA AlwaysLockFit ==
    ASSUME OneAtATime
    PROVE  Spec => [](TypeInv /\ SerialInv /\ LockFit)
<1>1. TypeInv /\ DvpInv /\ SerialInv /\ [Next]_vars => SerialInv'
  BY NextSerial
<1>2. TypeInv /\ SerialInv /\ LockFit /\ [Next]_vars => LockFit'
  BY NextLockFit
<1>3. Init => SerialInv /\ LockFit
  BY InitSerial DEF Init, LockFit, Locked, NoRow
<1> QED
  BY <1>1, <1>2, <1>3, InitTypeInv, NextTypeInv, InitDvpInv, NextDvpInv, PTL DEF Spec

(* One request at a time, a mandate in the vault never quotes money that is *)
(* not there, but for payouts the venue has not heard of and for capital    *)
(* that unwinding a failed trade freed once more.                           *)
THEOREM FreeIsBacked ==
    ASSUME OneAtATime
    PROVE  Spec => []FreeCapitalBacked
<1>1. TypeInv /\ SerialInv /\ LockFit /\ FundedInv => FreeCapitalBacked
  <2> SUFFICES ASSUME TypeInv, SerialInv, LockFit, FundedInv, Quiet, NEW m \in Escrowed
               PROVE  Free(m) <= vault[m] + Total(PriceOf, PaidUnawares(m))
                                          + Total(PriceOf, FreedAgain(m))
    BY DEF FreeCapitalBacked
  <2>1. m \in Mandates /\ vault[m] \in Nat
    BY ConstantsAssumption DEF TypeInv, TypeOK
  <2>2. /\ Total(PriceOf, Committed(m))
               <= capital[m].allocated + Total(PriceOf, FreedAgain(m))
        /\ capital[m].allocated \in Nat
    BY <2>1, AllocationAtRest DEF TypeInv, TypeOK, Capital
  <2>3. capital[m].funded = vault[m] + Total(PriceOf, Drawn(m))
    BY DEF FundedInv, FundedExact
  <2>4. Drawn(m) \subseteq Committed(m) \cup PaidUnawares(m)
    <3> SUFFICES ASSUME NEW t \in Drawn(m), row[t].arcLockId
                 PROVE  t \in Committed(m)
      BY DEF Drawn, PaidUnawares
    <3>1. /\ t \in Trades /\ Exists(t) /\ TermsOf(t).mandate = m /\ ~row[t].superseded
          /\ row[t].status \in TradeStatus
      BY DEF Drawn, TypeInv, TypeOK, Row
    <3>2. row[t].cashTransaction /\ row[t].status # "unwound"
      BY <3>1 DEF LockFit, Locked
    <3> QED
      BY <3>1, <3>2 DEF Committed, Exists, Armed, TradeStatus
  <2>5. /\ IsFiniteSet(Committed(m)) /\ Committed(m) \subseteq Trades
        /\ IsFiniteSet(PaidUnawares(m)) /\ PaidUnawares(m) \subseteq Trades
        /\ IsFiniteSet(Drawn(m)) /\ Drawn(m) \subseteq Trades
        /\ IsFiniteSet(FreedAgain(m)) /\ FreedAgain(m) \subseteq Trades
    BY TradesFinite, FS_Subset DEF Committed, PaidUnawares, Drawn, FreedAgain
  <2>6. \A t \in Trades : PriceOf[t] \in Nat
    BY PriceTyped
  <2>7. Total(PriceOf, Drawn(m))
            <= Total(PriceOf, Committed(m)) + Total(PriceOf, PaidUnawares(m))
    <3>1. \A t \in Committed(m) \cup PaidUnawares(m) : PriceOf[t] \in Nat
      BY <2>5, <2>6
    <3> QED
      BY <2>4, <2>5, <3>1, TotalCover
  <2>8. PICK d \in Nat, c \in Nat, u \in Nat, v \in Nat, f \in Nat, a \in Nat :
            /\ d = Total(PriceOf, Drawn(m)) /\ c = Total(PriceOf, Committed(m))
            /\ u = Total(PriceOf, PaidUnawares(m)) /\ v = vault[m]
            /\ f = Total(PriceOf, FreedAgain(m)) /\ a = capital[m].allocated
    <3>1. /\ \A t \in Drawn(m) : PriceOf[t] \in Nat
          /\ \A t \in Committed(m) : PriceOf[t] \in Nat
          /\ \A t \in PaidUnawares(m) : PriceOf[t] \in Nat
          /\ \A t \in FreedAgain(m) : PriceOf[t] \in Nat
      BY <2>5, <2>6
    <3>2. /\ Total(PriceOf, Drawn(m)) \in Nat
          /\ Total(PriceOf, Committed(m)) \in Nat
          /\ Total(PriceOf, PaidUnawares(m)) \in Nat
          /\ Total(PriceOf, FreedAgain(m)) \in Nat
      BY <2>5, <3>1, TotalNat
    <3> QED
      BY <2>1, <2>2, <3>2
  <2>9. Free(m) = AtLeast0((v + d) - a)
    BY <2>3, <2>8 DEF Free
  <2>10. d <= c + u /\ c <= a + f
    BY <2>2, <2>7, <2>8
  <2>11. AtLeast0((v + d) - a) <= v + u + f
    BY <2>10 DEF AtLeast0
  <2> QED
    BY <2>8, <2>9, <2>11
<1> QED
  BY <1>1, AlwaysLockFit, AlwaysFunded, PTL
=============================================================================

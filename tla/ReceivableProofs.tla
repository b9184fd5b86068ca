-------------------------- MODULE ReceivableProofs --------------------------
(* A receivable before it is sold, proved of Receivable for any number of   *)
(* invoices, requests, links, attempts and crashes.                         *)
EXTENDS Receivable, FiniteSetTheorems, TLAPS

USE ReceivableAssumption

(* Where an invoice is on its way through the queue.  It is there once: in  *)
(* the queue, with the worker, or in the write that remains to be made.     *)
Waits(i) == \E k \in 1..Len(pending) : pending[k] = i
Works(i) == worker # Idle /\ worker.invoice = i
InProgress(i) ==
    \/ Waits(i)
    \/ Works(i) /\ worker.awaits \in {"pace", "deploy", "backoff"}
    \/ todo # NoTodo /\ todo.invoice = i

(* The parts of the state without the bounds of the instance.               *)
RowShape == [status : InvoiceStatus, receivable : Receivables, issuance : IssuanceState,
             bond : Nat, decision : Answers \cup {None}]
JobShape == [state : IssuanceState \cup {None}, attempts : Nat, bond : Nat]
Shaped ==
    /\ row \in [Invoices -> RowShape \cup {NoRow}]
    /\ link \in [Links -> [invoice : Invoices \cup {None}, marks : SUBSET Mark]]
    /\ job \in [Invoices -> JobShape]
    /\ pending \in Seq(Invoices)
    /\ worker \in Worker \cup {Idle}
    /\ telling \subseteq Invoices
    /\ todo \in Todo \cup {NoTodo}
    /\ minted \in [Invoices -> Nat]
    /\ claim \in [Receivables -> [invoice : Invoices \cup {None, "elsewhere"}, bond : Nat]]
    /\ record \in [Invoices -> [bond : Nat, status : {"unknown", "draft", "confirmed"}]]

QueuedOnce == \A k, m \in 1..Len(pending) : pending[k] = pending[m] => k = m
QueueFollows ==
    /\ ~up => worker = Idle /\ todo = NoTodo
    /\ QueuedOnce
    /\ \A i \in Invoices : Waits(i) => Exists(i) /\ ~Works(i)
    /\ \A i \in Invoices : Works(i) => Exists(i)
    /\ todo # NoTodo => Exists(todo.invoice) /\ ~Waits(todo.invoice)
    /\ todo.write = "enqueue" => ~Works(todo.invoice)
    /\ todo.write = "persist" =>
           /\ worker = [awaits |-> "deploy", invoice |-> todo.invoice]
           /\ job[todo.invoice].state \in {"issued", "queued", "failed"}
           /\ job[todo.invoice].state = "issued" <=> job[todo.invoice].bond # NoBond

(* A row has a bond when its issuance is over, and what the worker then     *)
(* tells the registries is the bond in the row.                             *)
BondsFollow ==
    /\ \A i \in Invoices : Exists(i) /\ row[i].bond # NoBond =>
           row[i].issuance = "issued" /\ ~InProgress(i)
    /\ \A i \in Invoices : Works(i) /\ worker.awaits \in {"claim", "list"} =>
           row[i].bond # NoBond /\ job[i].bond = row[i].bond

ClaimsFollow ==
    /\ \A h \in Receivables : claim[h].bond # NoBond =>
           /\ claim[h].invoice \in Invoices /\ Exists(claim[h].invoice)
           /\ row[claim[h].invoice].receivable = h
           /\ row[claim[h].invoice].bond = claim[h].bond
    /\ \A i \in Invoices : record[i] # NoRecord =>
           /\ Exists(i) /\ record[i].bond # NoBond
           /\ claim[row[i].receivable] = Ours(i, record[i].bond)

(* A link that is live is the only live one of its invoice, and its debtor  *)
(* has not answered; what the registry hears is what they answered.         *)
AnswersFollow ==
    /\ \A l \in Links : Live(l) =>
           /\ link[l].invoice \in Invoices /\ Exists(link[l].invoice)
           /\ row[link[l].invoice].decision = None
    /\ \A k, l \in Links : Live(k) /\ Live(l) /\ link[k].invoice = link[l].invoice => k = l
    /\ \A i \in telling : Exists(i) /\ row[i].decision = "confirmed"
    /\ \A i \in Invoices : record[i].status = "confirmed" =>
           Exists(i) /\ row[i].decision = "confirmed"

ReceivableInv ==
    /\ Shaped /\ QueueFollows /\ BondsFollow /\ ClaimsFollow /\ AnswersFollow
    /\ OneRowPerReceivable

-----------------------------------------------------------------------------
(* Facts every action needs.                                                *)

LEMMA ReceivableInit == Init => ReceivableInv
<1> SUFFICES ASSUME Init PROVE ReceivableInv
  OBVIOUS
<1>1. Shaped
  BY DEF Init, Shaped, JobShape, NoRow, NoLink, NoJob, NoBond, Idle, NoTodo, None,
         Unclaimed, Ours, NoRecord
<1>2. \A i \in Invoices : ~Exists(i) /\ ~Waits(i) /\ ~Works(i)
  BY DEF Init, Exists, Waits, Works
<1>3. QueueFollows
  BY <1>2 DEF Init, QueueFollows, QueuedOnce, NoTodo, None
<1>4. BondsFollow /\ OneRowPerReceivable
  BY <1>2 DEF BondsFollow, OneRowPerReceivable
<1>5. ClaimsFollow
  BY DEF Init, ClaimsFollow, Unclaimed, Ours, NoBond
<1>6. AnswersFollow
  BY DEF Init, AnswersFollow, Live, NoRecord
<1> QED
  BY <1>1, <1>3, <1>4, <1>5, <1>6 DEF ReceivableInv

LEMMA RowTyped ==
    ASSUME Shaped, NEW i \in Invoices, Exists(i)
    PROVE  row[i] \in RowShape /\ row[i] # NoRow
BY DEF Shaped, Exists

LEMMA RowExists ==
    ASSUME NEW r \in RowShape PROVE r # NoRow
<1>1. r.status \in InvoiceStatus
  BY DEF RowShape
<1> QED
  BY <1>1 DEF NoRow, InvoiceStatus

(* What the invariant says of rows, links and claims depends on nothing of  *)
(* the queue.                                                               *)
LEMMA StoreKept ==
    ASSUME ReceivableInv, UNCHANGED <<row, link, claim, record>>, telling' \subseteq telling
    PROVE  ClaimsFollow' /\ AnswersFollow' /\ OneRowPerReceivable'
<1>1. ClaimsFollow'
  BY DEF ReceivableInv, ClaimsFollow, Exists
<1>2. AnswersFollow'
  BY DEF ReceivableInv, AnswersFollow, Exists, Live
<1>3. OneRowPerReceivable'
  BY DEF ReceivableInv, OneRowPerReceivable, Exists
<1> QED
  BY <1>1, <1>2, <1>3

(* Nor does what it says of the queue depend on links, answers, claims or   *)
(* records.                                                                 *)
LEMMA QueueKept ==
    ASSUME ReceivableInv, UNCHANGED <<up, job, pending, worker, todo>>,
           \A i \in Invoices : Exists(i) => Exists(i)',
           \A i \in Invoices : Exists(i)' =>
               \/ Exists(i) /\ row'[i].bond = row[i].bond /\ row'[i].issuance = row[i].issuance
               \/ ~Exists(i) /\ row'[i].bond = NoBond
    PROVE  QueueFollows' /\ BondsFollow'
<1>1. todo # NoTodo => todo.invoice \in Invoices
  BY DEF ReceivableInv, Shaped, Todo
<1>2. \A i \in Invoices : (Waits(i)' <=> Waits(i)) /\ (Works(i)' <=> Works(i))
  BY DEF Waits, Works
<1>3. \A i \in Invoices : InProgress(i)' <=> InProgress(i)
  BY <1>2 DEF InProgress
<1>4. QueueFollows'
  <2>1. QueueFollows
    BY DEF ReceivableInv
  <2>2. \A i \in Invoices : Waits(i)' => Exists(i)' /\ ~Works(i)'
    BY <1>2, <2>1 DEF QueueFollows
  <2>3. \A i \in Invoices : Works(i)' => Exists(i)'
    BY <1>2, <2>1 DEF QueueFollows
  <2>4. todo' # NoTodo => Exists(todo.invoice)' /\ ~Waits(todo.invoice)'
    BY <1>1, <1>2, <2>1 DEF QueueFollows
  <2>5. todo'.write = "enqueue" => ~Works(todo.invoice)'
    BY <2>1 DEF QueueFollows, Works
  <2> QED
    BY <2>1, <2>2, <2>3, <2>4, <2>5 DEF QueueFollows, QueuedOnce
<1>5. BondsFollow'
  <2>1. BondsFollow /\ \A i \in Invoices : Works(i) => Exists(i)
    BY DEF ReceivableInv, QueueFollows
  <2>2. ASSUME NEW i \in Invoices, Exists(i)', row'[i].bond # NoBond
        PROVE  row'[i].issuance = "issued" /\ ~InProgress(i)'
    BY <1>3, <2>1, <2>2 DEF BondsFollow
  <2>3. ASSUME NEW i \in Invoices, Works(i)', worker'.awaits \in {"claim", "list"}
        PROVE  row'[i].bond # NoBond /\ job'[i].bond = row'[i].bond
    BY <1>2, <2>1, <2>3 DEF BondsFollow
  <2> QED
    BY <2>2, <2>3 DEF BondsFollow
<1> QED
  BY <1>4, <1>5

(* One row changes, and is still a row.                                     *)
LEMMA RowUpdate ==
    ASSUME Shaped, NEW i \in Invoices, NEW r \in RowShape, row' = [row EXCEPT ![i] = r]
    PROVE  /\ row' \in [Invoices -> RowShape \cup {NoRow}]
           /\ row'[i] = r /\ Exists(i)'
           /\ \A j \in Invoices : j # i => row'[j] = row[j] /\ (Exists(j)' <=> Exists(j))
<1>1. row \in [Invoices -> RowShape \cup {NoRow}] /\ r # NoRow
  BY RowExists DEF Shaped
<1> QED
  BY <1>1 DEF Exists

(* Rows that keep their receivable, their answer and a bond they have keep  *)
(* what the chain and the debtor said of them.                              *)
SameRow(i) ==
    /\ Exists(i)' <=> Exists(i)
    /\ Exists(i) => /\ row'[i].receivable = row[i].receivable
                    /\ row'[i].decision = row[i].decision
                    /\ row[i].bond # NoBond => row'[i].bond = row[i].bond

LEMMA RowsMoved ==
    ASSUME ReceivableInv, UNCHANGED <<link, claim, record>>, telling' \subseteq telling,
           \A i \in Invoices : SameRow(i)
    PROVE  ClaimsFollow' /\ AnswersFollow' /\ OneRowPerReceivable'
<1>1. ClaimsFollow'
  <2>1. ClaimsFollow
    BY DEF ReceivableInv
  <2>2. ASSUME NEW h \in Receivables, claim'[h].bond # NoBond
        PROVE  /\ claim'[h].invoice \in Invoices /\ Exists(claim[h].invoice)'
               /\ row'[claim'[h].invoice].receivable = h
               /\ row'[claim'[h].invoice].bond = claim'[h].bond
    BY <2>1, <2>2 DEF ClaimsFollow, SameRow
  <2>3. ASSUME NEW i \in Invoices, record'[i] # NoRecord
        PROVE  /\ Exists(i)' /\ record'[i].bond # NoBond
               /\ claim'[row'[i].receivable] = Ours(i, record'[i].bond)
    BY <2>1, <2>3 DEF ClaimsFollow, SameRow
  <2> QED
    BY <2>2, <2>3 DEF ClaimsFollow
<1>2. AnswersFollow'
  <2>1. AnswersFollow /\ telling \subseteq Invoices
    BY DEF ReceivableInv, Shaped
  <2>2. \A l \in Links : Live(l)' <=> Live(l)
    BY DEF Live
  <2>3. ASSUME NEW l \in Links, Live(l)
        PROVE  /\ link[l].invoice \in Invoices /\ Exists(link[l].invoice)'
               /\ row'[link[l].invoice].decision = None
    BY <2>1, <2>3 DEF AnswersFollow, SameRow
  <2>4. \A i \in telling : Exists(i)' /\ row'[i].decision = "confirmed"
    BY <2>1 DEF AnswersFollow, SameRow
  <2>5. \A i \in Invoices : record[i].status = "confirmed" =>
            Exists(i)' /\ row'[i].decision = "confirmed"
    BY <2>1 DEF AnswersFollow, SameRow
  <2> QED
    BY <2>1, <2>2, <2>3, <2>4, <2>5 DEF AnswersFollow
<1>3. OneRowPerReceivable'
  BY DEF ReceivableInv, OneRowPerReceivable, SameRow
<1> QED
  BY <1>1, <1>2, <1>3

-----------------------------------------------------------------------------
(* Creation.                                                                *)

LEMMA AskKeeps ==
    ASSUME ReceivableInv,
           UNCHANGED <<up, row, link, job, pending, worker, telling, todo, minted,
                       claim, record>>
    PROVE  ReceivableInv'
<1>1. Shaped'
  BY DEF ReceivableInv, Shaped
<1>2. QueueFollows' /\ BondsFollow'
  BY QueueKept DEF Exists
<1>3. ClaimsFollow' /\ AnswersFollow' /\ OneRowPerReceivable'
  BY StoreKept
<1> QED
  BY <1>1, <1>2, <1>3 DEF ReceivableInv

LEMMA InsertKeeps ==
    ASSUME ReceivableInv, NEW h \in Receivables, NEW i \in Invoices, InsertRow(h, i), Running,
           UNCHANGED <<up, link, job, pending, worker, telling, minted, claim, record>>
    PROVE  ReceivableInv'
<1>1. /\ Shaped /\ ~Exists(i) /\ RowsOf(h) = {}
      /\ row' = [row EXCEPT ![i] = NewRow(h)]
      /\ up /\ todo = NoTodo /\ todo' = [write |-> "enqueue", invoice |-> i]
  BY DEF InsertRow, ReceivableInv, Running
<1>2. NewRow(h) \in RowShape
  BY DEF NewRow, RowShape, InvoiceStatus, IssuanceState, NoBond
<1>3. /\ row' \in [Invoices -> RowShape \cup {NoRow}]
      /\ row'[i] = NewRow(h) /\ Exists(i)'
      /\ \A j \in Invoices : j # i => row'[j] = row[j] /\ (Exists(j)' <=> Exists(j))
  BY <1>1, <1>2, RowUpdate
<1>4. todo' \in Todo
  BY <1>1 DEF Todo
<1>5. Shaped'
  BY <1>1, <1>3, <1>4 DEF Shaped
<1>6. \A j \in Invoices : (Waits(j)' <=> Waits(j)) /\ (Works(j)' <=> Works(j))
  BY DEF Waits, Works
<1>7. QueueFollows'
  <2>1. QueueFollows
    BY DEF ReceivableInv
  <2>2. todo' # NoTodo /\ todo'.write = "enqueue" /\ todo'.invoice = i
    BY <1>1 DEF NoTodo
  <2>3. ~Waits(i) /\ ~Works(i)
    BY <1>1, <2>1 DEF QueueFollows
  <2>4. \A j \in Invoices : Waits(j)' => Exists(j)' /\ ~Works(j)'
    BY <1>3, <1>6, <2>1, <2>3 DEF QueueFollows
  <2>5. \A j \in Invoices : Works(j)' => Exists(j)'
    BY <1>3, <1>6, <2>1 DEF QueueFollows
  <2>6. Exists(todo.invoice)' /\ ~Waits(todo.invoice)' /\ ~Works(todo.invoice)'
    <3>1. Exists(i)' /\ ~Waits(i)' /\ ~Works(i)'
      BY <1>3, <1>6, <2>3
    <3> QED
      BY <2>2, <3>1 DEF Exists, Waits, Works
  <2> QED
    BY <1>1, <2>1, <2>2, <2>4, <2>5, <2>6 DEF QueueFollows, QueuedOnce
<1>8. BondsFollow'
  <2>1. BondsFollow /\ QueueFollows
    BY DEF ReceivableInv
  <2>2. ASSUME NEW j \in Invoices, Exists(j)', row'[j].bond # NoBond
        PROVE  row'[j].issuance = "issued" /\ ~InProgress(j)'
    <3>1. j # i /\ row'[j] = row[j] /\ Exists(j)
      BY <1>3, <2>2 DEF NewRow
    <3>2. row'[j].issuance = "issued" /\ ~InProgress(j)
      BY <2>1, <2>2, <3>1 DEF BondsFollow
    <3> QED
      BY <1>1, <1>6, <3>1, <3>2 DEF InProgress
  <2>3. ASSUME NEW j \in Invoices, Works(j)', worker'.awaits \in {"claim", "list"}
        PROVE  row'[j].bond # NoBond /\ job'[j].bond = row'[j].bond
    BY <1>1, <1>3, <1>6, <2>1, <2>3 DEF BondsFollow, QueueFollows
  <2> QED
    BY <2>2, <2>3 DEF BondsFollow
<1>9. ClaimsFollow'
  <2>1. ClaimsFollow
    BY DEF ReceivableInv
  <2>2. ASSUME NEW g \in Receivables, claim[g].bond # NoBond
        PROVE  /\ claim[g].invoice \in Invoices /\ Exists(claim[g].invoice)'
               /\ row'[claim[g].invoice].receivable = g
               /\ row'[claim[g].invoice].bond = claim[g].bond
    <3>1. claim[g].invoice # i
      BY <1>1, <2>1, <2>2 DEF ClaimsFollow
    <3> QED
      BY <1>3, <2>1, <2>2, <3>1 DEF ClaimsFollow, Exists
  <2>3. ASSUME NEW j \in Invoices, record[j] # NoRecord
        PROVE  /\ Exists(j)' /\ record[j].bond # NoBond
               /\ claim[row'[j].receivable] = Ours(j, record[j].bond)
    <3>1. j # i
      BY <1>1, <2>1, <2>3 DEF ClaimsFollow
    <3> QED
      BY <1>3, <2>1, <2>3, <3>1 DEF ClaimsFollow
  <2> QED
    BY <2>2, <2>3 DEF ClaimsFollow
<1>10. AnswersFollow'
  <2>1. AnswersFollow /\ telling \subseteq Invoices
    BY <1>1 DEF ReceivableInv, Shaped
  <2>2. \A l \in Links : Live(l)' <=> Live(l)
    BY DEF Live
  <2>3. ASSUME NEW l \in Links, Live(l)
        PROVE  /\ link[l].invoice \in Invoices /\ Exists(link[l].invoice)'
               /\ row'[link[l].invoice].decision = None
    <3>1. link[l].invoice # i
      BY <1>1, <2>1, <2>3 DEF AnswersFollow
    <3> QED
      BY <1>3, <2>1, <2>3, <3>1 DEF AnswersFollow, Exists
  <2>4. \A j \in telling : Exists(j)' /\ row'[j].decision = "confirmed"
    BY <1>1, <1>3, <2>1 DEF AnswersFollow
  <2>5. \A j \in Invoices : record[j].status = "confirmed" =>
            Exists(j)' /\ row'[j].decision = "confirmed"
    BY <1>1, <1>3, <2>1 DEF AnswersFollow
  <2> QED
    BY <2>1, <2>2, <2>3, <2>4, <2>5 DEF AnswersFollow
<1>11. OneRowPerReceivable'
  BY <1>1, <1>3 DEF ReceivableInv, OneRowPerReceivable, RowsOf, NewRow
<1> QED
  BY <1>5, <1>7, <1>8, <1>9, <1>10, <1>11 DEF ReceivableInv

LEMMA RegistryAnsweredKeeps ==
    ASSUME ReceivableInv, NEW h \in Receivables, RegistryAnswered(h)
    PROVE  ReceivableInv'
<1>1. /\ Running
      /\ UNCHANGED <<up, link, job, pending, worker, telling, minted, claim, record>>
  BY DEF RegistryAnswered, queue, chain
<1>2. (\E i \in Invoices : InsertRow(h, i)) \/ UNCHANGED <<row, todo>>
  BY DEF RegistryAnswered
<1> QED
  BY <1>1, <1>2, AskKeeps, InsertKeeps

-----------------------------------------------------------------------------
(* Confirmation, offers, and the other issuers.                             *)

LEMMA OfferKeeps ==
    ASSUME ReceivableInv, NEW i \in Invoices, Offer(i) \/ Withdraw(i)
    PROVE  ReceivableInv'
<1>1. PICK status \in InvoiceStatus :
          /\ Exists(i) /\ row' = [row EXCEPT ![i] = [row[i] EXCEPT !.status = status]]
          /\ UNCHANGED <<up, link, job, pending, worker, telling, todo, minted, claim, record>>
  BY DEF Offer, Withdraw, queue, chain, InvoiceStatus
<1> DEFINE r == [row[i] EXCEPT !.status = status]
<1>2. /\ Shaped /\ r \in RowShape /\ r.receivable = row[i].receivable
      /\ r.bond = row[i].bond /\ r.issuance = row[i].issuance
      /\ r.decision = row[i].decision
  BY <1>1, RowTyped DEF ReceivableInv, RowShape
<1>3. row' = [row EXCEPT ![i] = r]
  BY <1>1
<1> HIDE DEF r
<1>4. /\ row' \in [Invoices -> RowShape \cup {NoRow}]
      /\ row'[i] = r /\ Exists(i)'
      /\ \A j \in Invoices : j # i => row'[j] = row[j] /\ (Exists(j)' <=> Exists(j))
  BY <1>2, <1>3, RowUpdate
<1>5. Shaped'
  BY <1>1, <1>2, <1>4 DEF Shaped
<1>6. QueueFollows' /\ BondsFollow'
  BY <1>1, <1>2, <1>4, QueueKept
<1>7. \A j \in Invoices : SameRow(j)
  BY <1>1, <1>2, <1>4 DEF SameRow
<1>8. ClaimsFollow' /\ AnswersFollow' /\ OneRowPerReceivable'
  BY <1>1, <1>7, RowsMoved
<1> QED
  BY <1>5, <1>6, <1>8 DEF ReceivableInv

LEMMA ExpireKeeps ==
    ASSUME ReceivableInv, NEW l \in Links, Expire(l)
    PROVE  ReceivableInv'
<1>1. /\ Shaped /\ link' = [link EXCEPT ![l].marks = @ \cup {"expired"}]
      /\ UNCHANGED <<up, row, job, pending, worker, telling, todo, minted, claim, record>>
  BY DEF Expire, ReceivableInv, queue, chain
<1>2. /\ link' \in [Links -> [invoice : Invoices \cup {None}, marks : SUBSET Mark]]
      /\ link'[l].marks # {}
      /\ \A k \in Links : k # l => link'[k] = link[k]
  <2> DEFINE s == [link[l] EXCEPT !.marks = link[l].marks \cup {"expired"}]
             LinkShape == [invoice : Invoices \cup {None}, marks : SUBSET Mark]
  <2>1. link \in [Links -> LinkShape]
    BY <1>1 DEF Shaped
  <2>2. link[l].marks \cup {"expired"} \in SUBSET Mark
    BY <2>1 DEF Mark
  <2>3. s \in LinkShape /\ s.marks # {}
    BY <2>1, <2>2
  <2>4. link' = [link EXCEPT ![l] = s]
    BY <1>1
  <2> HIDE DEF s
  <2> QED
    BY <2>1, <2>3, <2>4
<1>3. Shaped'
  BY <1>1, <1>2 DEF Shaped
<1>4. QueueFollows' /\ BondsFollow'
  BY <1>1, QueueKept DEF Exists
<1>5. ClaimsFollow' /\ OneRowPerReceivable'
  BY <1>1 DEF ReceivableInv, ClaimsFollow, OneRowPerReceivable, Exists
<1>6. \A k \in Links : Live(k)' => Live(k) /\ link'[k] = link[k]
  BY <1>2 DEF Live
<1>7. AnswersFollow'
  BY <1>1, <1>6 DEF ReceivableInv, AnswersFollow, Exists
<1> QED
  BY <1>3, <1>4, <1>5, <1>7 DEF ReceivableInv

LEMMA RequestKeeps ==
    ASSUME ReceivableInv, NEW i \in Invoices, NEW l \in Links, RequestConfirmation(i, l)
    PROVE  ReceivableInv'
<1> DEFINE r == [row[i] EXCEPT !.status = "awaiting_confirmation"]
           new == [invoice |-> i, marks |-> {}]
<1>1. /\ Shaped /\ Exists(i) /\ row[i].decision = None /\ row' = [row EXCEPT ![i] = r]
      /\ link' = [k \in Links |-> IF k = l THEN new ELSE Superseded(k, i)]
      /\ UNCHANGED <<up, job, pending, worker, telling, todo, minted, claim, record>>
  BY DEF RequestConfirmation, ReceivableInv, queue, chain
<1>2. /\ r \in RowShape /\ r.receivable = row[i].receivable
      /\ r.bond = row[i].bond /\ r.issuance = row[i].issuance
      /\ r.decision = row[i].decision
  BY <1>1, RowTyped DEF RowShape, InvoiceStatus
<1> HIDE DEF r
<1>3. /\ row' \in [Invoices -> RowShape \cup {NoRow}]
      /\ row'[i] = r /\ Exists(i)'
      /\ \A j \in Invoices : j # i => row'[j] = row[j] /\ (Exists(j)' <=> Exists(j))
  BY <1>1, <1>2, RowUpdate
<1> DEFINE LinkShape == [invoice : Invoices \cup {None}, marks : SUBSET Mark]
<1>4. ASSUME NEW k \in Links
      PROVE  /\ Superseded(k, i) \in LinkShape
             /\ Superseded(k, i).invoice = link[k].invoice
             /\ Superseded(k, i).marks = {} => Superseded(k, i) = link[k] /\ link[k].invoice # i
  <2> DEFINE s == [link[k] EXCEPT !.marks = link[k].marks \cup {"superseded"}]
  <2>1. link[k] \in LinkShape
    BY <1>1 DEF Shaped
  <2>2. link[k].marks \cup {"superseded"} \in SUBSET Mark
    BY <2>1 DEF Mark
  <2>3. s \in LinkShape /\ s.marks # {} /\ s.invoice = link[k].invoice
    BY <2>1, <2>2
  <2>4. Superseded(k, i) = IF link[k].invoice = i /\ "consumed" \notin link[k].marks
                           THEN s ELSE link[k]
    BY DEF Superseded
  <2> HIDE DEF s
  <2> QED
    BY <2>1, <2>3, <2>4
<1>5. link' \in [Links -> LinkShape]
  <2>1. new \in LinkShape
    OBVIOUS
  <2> HIDE DEF new
  <2> QED
    BY <1>1, <1>4, <2>1
<1>6. Shaped'
  BY <1>1, <1>3, <1>5 DEF Shaped
<1>7. QueueFollows' /\ BondsFollow'
  BY <1>1, <1>2, <1>3, QueueKept
<1>8. \A j \in Invoices : SameRow(j)
  BY <1>1, <1>2, <1>3 DEF SameRow
<1>9. ClaimsFollow' /\ OneRowPerReceivable'
  <2>1. ClaimsFollow /\ OneRowPerReceivable
    BY DEF ReceivableInv
  <2>2. ClaimsFollow'
    BY <1>1, <1>8, <2>1 DEF ClaimsFollow, SameRow
  <2> QED
    BY <1>8, <2>1, <2>2 DEF OneRowPerReceivable, SameRow
<1>10. AnswersFollow'
  <2>1. AnswersFollow /\ telling \subseteq Invoices
    BY <1>1 DEF ReceivableInv, Shaped
  <2>2. ASSUME NEW k \in Links, Live(k)'
        PROVE  \/ k = l /\ link'[k].invoice = i
               \/ k # l /\ Live(k) /\ link'[k] = link[k] /\ link[k].invoice # i
    BY <1>1, <1>4, <2>2 DEF Live
  <2>3. ASSUME NEW k \in Links, Live(k)'
        PROVE  /\ link'[k].invoice \in Invoices /\ Exists(link[k].invoice)'
               /\ row'[link'[k].invoice].decision = None
    <3>1. CASE k = l /\ link'[k].invoice = i
      BY <1>1, <1>2, <1>3, <3>1 DEF Exists
    <3>2. CASE k # l /\ Live(k) /\ link'[k] = link[k] /\ link[k].invoice # i
      BY <1>3, <2>1, <3>2 DEF AnswersFollow, Exists
    <3> QED
      BY <2>2, <2>3, <3>1, <3>2
  <2>4. \A k, m \in Links : Live(k)' /\ Live(m)' /\ link'[k].invoice = link'[m].invoice => k = m
    BY <2>1, <2>2 DEF AnswersFollow
  <2>5. \A j \in telling : Exists(j)' /\ row'[j].decision = "confirmed"
    BY <1>8, <2>1 DEF AnswersFollow, SameRow
  <2>6. \A j \in Invoices : record[j].status = "confirmed" =>
            Exists(j)' /\ row'[j].decision = "confirmed"
    BY <1>8, <2>1 DEF AnswersFollow, SameRow
  <2> QED
    BY <1>1, <2>3, <2>4, <2>5, <2>6 DEF AnswersFollow
<1> QED
  BY <1>6, <1>7, <1>9, <1>10 DEF ReceivableInv

LEMMA DecideKeeps ==
    ASSUME ReceivableInv, NEW l \in Links, NEW answer \in Answers, Decide(l, answer)
    PROVE  ReceivableInv'
<1> PICK i : i = link[l].invoice
  OBVIOUS
<1>1. /\ Shaped /\ Live(l) /\ i \in Invoices /\ Exists(i) /\ row[i].decision = None
      /\ link' = [link EXCEPT ![l].marks = @ \cup {"consumed"}]
      /\ row' = [row EXCEPT ![i].status = answer, ![i].decision = answer]
      /\ telling' = IF answer = "confirmed" THEN telling \cup {i} ELSE telling
      /\ UNCHANGED <<up, job, pending, worker, todo, minted, claim, record>>
  BY DEF Decide, Tells, ReceivableInv, AnswersFollow, queue, chain
<1> DEFINE r == [[row[i] EXCEPT !.status = answer] EXCEPT !.decision = answer]
<1>2. /\ r \in RowShape /\ r.receivable = row[i].receivable
      /\ r.bond = row[i].bond /\ r.issuance = row[i].issuance /\ r.decision = answer
  BY <1>1, RowTyped DEF RowShape, InvoiceStatus, Answers
<1>3. row' = [row EXCEPT ![i] = r]
  BY <1>1 DEF Shaped
<1> HIDE DEF r
<1>4. /\ row' \in [Invoices -> RowShape \cup {NoRow}]
      /\ row'[i] = r /\ Exists(i)'
      /\ \A j \in Invoices : j # i => row'[j] = row[j] /\ (Exists(j)' <=> Exists(j))
  <2>1. Shaped /\ i \in Invoices /\ r \in RowShape
    BY <1>1, <1>2
  <2> QED
    BY <1>3, <2>1, RowUpdate
<1>5. /\ link' \in [Links -> [invoice : Invoices \cup {None}, marks : SUBSET Mark]]
      /\ link'[l].marks # {}
      /\ \A k \in Links : k # l => link'[k] = link[k]
  <2> DEFINE s == [link[l] EXCEPT !.marks = link[l].marks \cup {"consumed"}]
             LinkShape == [invoice : Invoices \cup {None}, marks : SUBSET Mark]
  <2>1. link \in [Links -> LinkShape]
    BY <1>1 DEF Shaped
  <2>2. link[l].marks \cup {"consumed"} \in SUBSET Mark
    BY <2>1 DEF Mark
  <2>3. s \in LinkShape /\ s.marks # {}
    BY <2>1, <2>2
  <2>4. link' = [link EXCEPT ![l] = s]
    BY <1>1
  <2> HIDE DEF s
  <2> QED
    BY <2>1, <2>3, <2>4
<1>6. Shaped'
  BY <1>1, <1>4, <1>5 DEF Shaped
<1>7. QueueFollows' /\ BondsFollow'
  BY <1>1, <1>2, <1>4, QueueKept
<1>8. ClaimsFollow' /\ OneRowPerReceivable'
  <2>1. ClaimsFollow /\ OneRowPerReceivable
    BY DEF ReceivableInv
  <2>2. \A j \in Invoices : /\ Exists(j)' <=> Exists(j)
                            /\ row'[j].receivable = row[j].receivable
                            /\ row'[j].bond = row[j].bond
    BY <1>1, <1>2, <1>4
  <2>3. ClaimsFollow'
    BY <1>1, <2>1, <2>2 DEF ClaimsFollow
  <2> QED
    BY <2>1, <2>2, <2>3 DEF OneRowPerReceivable
<1>9. AnswersFollow'
  <2>1. AnswersFollow /\ telling \subseteq Invoices
    BY <1>1 DEF ReceivableInv, Shaped
  <2>2. ASSUME NEW k \in Links, Live(k)'
        PROVE  Live(k) /\ link'[k] = link[k] /\ link[k].invoice # i
    <3>1. k # l /\ link'[k] = link[k]
      BY <1>5, <2>2 DEF Live
    <3>2. Live(k)
      BY <2>2, <3>1 DEF Live
    <3> QED
      BY <1>1, <2>1, <3>1, <3>2 DEF AnswersFollow
  <2>3. ASSUME NEW k \in Links, Live(k)'
        PROVE  /\ link'[k].invoice \in Invoices /\ Exists(link[k].invoice)'
               /\ row'[link'[k].invoice].decision = None
    BY <1>4, <2>1, <2>2, <2>3 DEF AnswersFollow, Exists
  <2>4. \A k, m \in Links : Live(k)' /\ Live(m)' /\ link'[k].invoice = link'[m].invoice => k = m
    BY <2>1, <2>2 DEF AnswersFollow
  <2>5. \A j \in telling' : Exists(j)' /\ row'[j].decision = "confirmed"
    <3> SUFFICES ASSUME NEW j \in telling' PROVE Exists(j)' /\ row'[j].decision = "confirmed"
      OBVIOUS
    <3>1. CASE j = i
      <4>1. i \notin telling
        BY <1>1, <2>1 DEF AnswersFollow, None
      <4> QED
        BY <1>1, <1>2, <1>4, <3>1, <4>1
    <3>2. CASE j # i
      <4>1. j \in telling
        BY <1>1, <3>2
      <4> QED
        BY <1>4, <2>1, <3>2, <4>1 DEF AnswersFollow
    <3> QED
      BY <3>1, <3>2
  <2>6. \A j \in Invoices : record[j].status = "confirmed" =>
            Exists(j)' /\ row'[j].decision = "confirmed"
    BY <1>1, <1>4, <2>1 DEF AnswersFollow, None
  <2> QED
    BY <1>1, <2>3, <2>4, <2>5, <2>6 DEF AnswersFollow
<1> QED
  BY <1>6, <1>7, <1>8, <1>9 DEF ReceivableInv

LEMMA TellingEndsKeeps ==
    ASSUME ReceivableInv, NEW i \in Invoices, TellingEnds(i)
    PROVE  ReceivableInv'
<1>1. /\ Shaped /\ i \in telling /\ telling' = telling \ {i}
      /\ UNCHANGED <<up, row, link, job, pending, worker, todo, minted, claim>>
  BY DEF TellingEnds, ReceivableInv, queue, store
<1>2. \/ record' = record
      \/ /\ record[i].status = "draft"
         /\ record' = [record EXCEPT ![i] = [record[i] EXCEPT !.status = "confirmed"]]
  BY DEF TellingEnds
<1>3. CASE record' = record
  <2>1. Shaped'
    BY <1>1, <1>3 DEF Shaped
  <2>2. QueueFollows' /\ BondsFollow'
    BY <1>1, QueueKept DEF Exists
  <2>3. ClaimsFollow' /\ AnswersFollow' /\ OneRowPerReceivable'
    BY <1>1, <1>3, StoreKept
  <2> QED
    BY <2>1, <2>2, <2>3 DEF ReceivableInv
<1>4. CASE /\ record[i].status = "draft"
           /\ record' = [record EXCEPT ![i] = [record[i] EXCEPT !.status = "confirmed"]]
  <2> DEFINE s == [record[i] EXCEPT !.status = "confirmed"]
             Shape == [bond : Nat, status : {"unknown", "draft", "confirmed"}]
  <2>1. record \in [Invoices -> Shape]
    BY <1>1 DEF Shaped
  <2>2. s \in Shape /\ s.bond = record[i].bond /\ s.status = "confirmed"
    BY <2>1
  <2>3. record[i] # NoRecord
    BY <1>4 DEF NoRecord
  <2>4. record' = [record EXCEPT ![i] = s]
    BY <1>4
  <2> HIDE DEF s
  <2>5. /\ record' \in [Invoices -> Shape] /\ record'[i] = s
        /\ \A j \in Invoices : j # i => record'[j] = record[j]
    BY <2>1, <2>2, <2>4
  <2>6. Shaped'
    BY <1>1, <2>5 DEF Shaped
  <2>7. QueueFollows' /\ BondsFollow'
    BY <1>1, QueueKept DEF Exists
  <2>8. ClaimsFollow'
    <3>1. ClaimsFollow
      BY DEF ReceivableInv
    <3>2. \A j \in Invoices : /\ record'[j].bond = record[j].bond
                              /\ record'[j] # NoRecord => record[j] # NoRecord
      BY <2>2, <2>3, <2>5
    <3> QED
      BY <1>1, <3>1, <3>2 DEF ClaimsFollow, Exists
  <2>9. AnswersFollow'
    <3>1. AnswersFollow
      BY DEF ReceivableInv
    <3> QED
      BY <1>1, <2>5, <3>1 DEF AnswersFollow, Exists, Live
  <2>10. OneRowPerReceivable'
    BY <1>1 DEF ReceivableInv, OneRowPerReceivable, Exists
  <2> QED
    BY <2>6, <2>7, <2>8, <2>9, <2>10 DEF ReceivableInv
<1> QED
  BY <1>2, <1>3, <1>4

LEMMA ElsewhereKeeps ==
    ASSUME ReceivableInv, NEW h \in Receivables, ClaimedElsewhere(h)
    PROVE  ReceivableInv'
<1>1. /\ Shaped /\ claim[h] = Unclaimed /\ claim' = [claim EXCEPT ![h] = Elsewhere]
      /\ UNCHANGED <<up, row, link, job, pending, worker, telling, todo, minted, record>>
  BY DEF ClaimedElsewhere, ReceivableInv, queue, store
<1>2. /\ Elsewhere \in [invoice : Invoices \cup {None, "elsewhere"}, bond : Nat]
      /\ Elsewhere.bond = NoBond /\ Unclaimed.bond = NoBond
  BY DEF Elsewhere, Unclaimed, Ours, NoBond
<1>3. /\ claim' \in [Receivables -> [invoice : Invoices \cup {None, "elsewhere"}, bond : Nat]]
      /\ claim'[h] = Elsewhere /\ \A g \in Receivables : g # h => claim'[g] = claim[g]
  BY <1>1, <1>2 DEF Shaped
<1>4. Shaped'
  BY <1>1, <1>3 DEF Shaped
<1>5. QueueFollows' /\ BondsFollow'
  BY <1>1, QueueKept DEF Exists
<1>6. ClaimsFollow'
  <2>1. ClaimsFollow
    BY DEF ReceivableInv
  <2>2. ASSUME NEW g \in Receivables, claim'[g].bond # NoBond
        PROVE  /\ claim'[g].invoice \in Invoices /\ Exists(claim[g].invoice)'
               /\ row'[claim'[g].invoice].receivable = g
               /\ row'[claim'[g].invoice].bond = claim'[g].bond
    <3>1. g # h /\ claim'[g] = claim[g]
      BY <1>2, <1>3, <2>2
    <3> QED
      BY <1>1, <2>1, <2>2, <3>1 DEF ClaimsFollow, Exists
  <2>3. ASSUME NEW j \in Invoices, record'[j] # NoRecord
        PROVE  /\ Exists(j)' /\ record'[j].bond # NoBond
               /\ claim'[row'[j].receivable] = Ours(j, record'[j].bond)
    <3>1. /\ Exists(j) /\ record[j].bond # NoBond
          /\ claim[row[j].receivable] = Ours(j, record[j].bond)
      BY <1>1, <2>1, <2>3 DEF ClaimsFollow
    <3>2. row[j].receivable \in Receivables
      BY <1>1, <3>1, RowTyped DEF RowShape
    <3>3. row[j].receivable # h
      BY <1>1, <1>2, <3>1 DEF Ours
    <3> QED
      BY <1>1, <1>3, <3>1, <3>2, <3>3 DEF Exists
  <2> QED
    BY <2>2, <2>3 DEF ClaimsFollow
<1>7. AnswersFollow' /\ OneRowPerReceivable'
  BY <1>1 DEF ReceivableInv, AnswersFollow, OneRowPerReceivable, Exists, Live
<1> QED
  BY <1>4, <1>5, <1>6, <1>7 DEF ReceivableInv

-----------------------------------------------------------------------------
(* The queue and its worker.                                                *)

LEMMA Queued ==
    ASSUME pending \in Seq(Invoices), QueuedOnce, NEW i \in Invoices, ~Waits(i),
           pending' = Append(pending, i)
    PROVE  /\ pending' \in Seq(Invoices) /\ QueuedOnce'
           /\ \A j \in Invoices : Waits(j)' <=> Waits(j) \/ j = i
<1>1. /\ pending' \in Seq(Invoices) /\ Len(pending) \in Nat /\ Len(pending') = Len(pending) + 1
      /\ pending'[Len(pending) + 1] = i
      /\ \A k \in 1..Len(pending) : pending'[k] = pending[k]
  OBVIOUS
<1>2. \A k \in 1..Len(pending') : k \in 1..Len(pending) \/ k = Len(pending) + 1
  BY <1>1
<1>3. \A k \in 1..Len(pending) : pending[k] # i
  BY DEF Waits
<1>4. QueuedOnce'
  BY <1>1, <1>2, <1>3 DEF QueuedOnce
<1>5. ASSUME NEW j \in Invoices PROVE Waits(j)' <=> Waits(j) \/ j = i
  <2>1. Waits(j) \/ j = i => Waits(j)'
    BY <1>1 DEF Waits
  <2>2. Waits(j)' => Waits(j) \/ j = i
    BY <1>1, <1>2 DEF Waits
  <2> QED
    BY <2>1, <2>2
<1> QED
  BY <1>1, <1>4, <1>5

LEMMA Unqueued ==
    ASSUME pending \in Seq(Invoices), QueuedOnce, pending # <<>>,
           pending' = Tail(pending)
    PROVE  /\ pending' \in Seq(Invoices) /\ QueuedOnce'
           /\ Head(pending) \in Invoices /\ Waits(Head(pending))
           /\ \A j \in Invoices : Waits(j)' <=> Waits(j) /\ j # Head(pending)
<1>1. /\ pending' \in Seq(Invoices) /\ Len(pending) \in Nat \ {0}
      /\ Len(pending') = Len(pending) - 1
      /\ Head(pending) = pending[1] /\ Head(pending) \in Invoices
      /\ \A k \in 1..Len(pending') : pending'[k] = pending[k + 1]
  OBVIOUS
<1>2. \A k \in 1..Len(pending') : k + 1 \in 1..Len(pending) /\ k + 1 # 1
  BY <1>1
<1>3. QueuedOnce'
  <2> SUFFICES ASSUME NEW k \in 1..Len(pending'), NEW m \in 1..Len(pending'),
                      pending'[k] = pending'[m]
               PROVE  k = m
    BY DEF QueuedOnce
  <2>1. k + 1 = m + 1
    BY <1>1, <1>2 DEF QueuedOnce
  <2> QED
    BY <2>1
<1>4. Waits(Head(pending))
  BY <1>1 DEF Waits
<1>5. ASSUME NEW j \in Invoices
      PROVE  Waits(j)' <=> Waits(j) /\ j # Head(pending)
  <2>1. ASSUME Waits(j)' PROVE Waits(j) /\ j # Head(pending)
    <3>1. PICK k \in 1..Len(pending') : pending'[k] = j
      BY <2>1 DEF Waits
    <3>2. k + 1 \in 1..Len(pending) /\ k + 1 # 1 /\ pending[k + 1] = j
      BY <1>1, <1>2, <3>1
    <3>3. 1 \in 1..Len(pending)
      BY <1>1
    <3> QED
      BY <1>1, <3>2, <3>3 DEF Waits, QueuedOnce
  <2>2. ASSUME Waits(j), j # Head(pending) PROVE Waits(j)'
    <3>1. PICK k \in 1..Len(pending) : pending[k] = j
      BY <2>2 DEF Waits
    <3>2. k # 1
      BY <1>1, <2>2, <3>1
    <3>3. k - 1 \in 1..Len(pending') /\ (k - 1) + 1 = k
      BY <1>1, <3>2
    <3>4. pending'[k - 1] = j
      BY <1>1, <3>1, <3>3
    <3> QED
      BY <3>3, <3>4 DEF Waits
  <2> QED
    BY <2>1, <2>2
<1> QED
  BY <1>1, <1>3, <1>4, <1>5

(* The worker turns to what it awaits next.                                 *)
LEMMA WorkerFields ==
    ASSUME worker \in Worker \cup {Idle},
           NEW awaits \in {"pace", "deploy", "backoff", "claim", "list"},
           worker.awaits = awaits
    PROVE  worker # Idle /\ worker \in Worker /\ worker.invoice \in Invoices
           /\ worker = [awaits |-> awaits, invoice |-> worker.invoice]
BY DEF Worker, Idle

LEMMA TakeKeeps == ReceivableInv /\ Take => ReceivableInv'
<1> SUFFICES ASSUME ReceivableInv, Take PROVE ReceivableInv'
  OBVIOUS
<1> PICK i : i = Head(pending)
  OBVIOUS
<1>1. /\ Shaped /\ up /\ todo = NoTodo /\ worker = Idle /\ pending # <<>>
      /\ worker' = [awaits |-> "pace", invoice |-> i] /\ pending' = Tail(pending)
      /\ UNCHANGED <<up, row, link, job, telling, todo, minted, claim, record>>
  BY DEF Take, ReceivableInv, Running, store, chain
<1>2. QueueFollows /\ BondsFollow
  BY DEF ReceivableInv
<1>3. /\ pending' \in Seq(Invoices) /\ QueuedOnce' /\ i \in Invoices /\ Waits(i)
      /\ \A j \in Invoices : Waits(j)' <=> Waits(j) /\ j # i
  BY <1>1, <1>2, Unqueued DEF Shaped, QueueFollows
<1>4. /\ worker' \in Worker /\ worker' # Idle
      /\ \A j \in Invoices : Works(j)' <=> j = i
  BY <1>1, <1>3 DEF Worker, Works, Idle
<1>5. Shaped'
  BY <1>1, <1>3, <1>4 DEF Shaped
<1>6. \A j \in Invoices : (Exists(j)' <=> Exists(j)) /\ (Waits(j) => Exists(j))
  BY <1>1, <1>2 DEF Exists, QueueFollows
<1>7. QueueFollows'
  BY <1>1, <1>3, <1>4, <1>6 DEF QueueFollows, NoTodo, None
<1>8. BondsFollow'
  <2>1. \A j \in Invoices : InProgress(j)' => InProgress(j)
    BY <1>1, <1>3, <1>4 DEF InProgress
  <2> QED
    BY <1>1, <1>2, <1>6, <2>1 DEF BondsFollow
<1>9. ClaimsFollow' /\ AnswersFollow' /\ OneRowPerReceivable'
  BY <1>1, StoreKept
<1> QED
  BY <1>5, <1>7, <1>8, <1>9 DEF ReceivableInv

LEMMA SubmitKeeps == ReceivableInv /\ Submit => ReceivableInv'
<1> SUFFICES ASSUME ReceivableInv, Submit PROVE ReceivableInv'
  OBVIOUS
<1> PICK i : i = worker.invoice
  OBVIOUS
<1> DEFINE j == [[job[i] EXCEPT !.state = "issuing"] EXCEPT !.attempts = job[i].attempts + 1]
<1>1. /\ Shaped /\ up /\ todo = NoTodo
      /\ worker = [awaits |-> "pace", invoice |-> i] /\ i \in Invoices
      /\ UNCHANGED <<up, row, link, pending, telling, todo, minted, claim, record>>
  BY WorkerFields DEF Submit, At, ReceivableInv, Shaped, Running, store, chain
<1>2. /\ worker' = [awaits |-> "deploy", invoice |-> i] /\ job' = [job EXCEPT ![i] = j]
  BY <1>1 DEF Submit, Shaped
<1>3. job' \in [Invoices -> JobShape]
  <2> PICK old : old = job[i]
    OBVIOUS
  <2>1. old \in JobShape /\ job \in [Invoices -> JobShape]
    BY <1>1 DEF Shaped
  <2>2. [old EXCEPT !.state = "issuing"] \in JobShape
    BY <2>1 DEF JobShape, IssuanceState
  <2>3. old.attempts + 1 \in Nat
    BY <2>1 DEF JobShape
  <2>4. j \in JobShape
    BY <2>2, <2>3 DEF JobShape
  <2> HIDE DEF j
  <2> QED
    BY <1>1, <1>2, <2>1, <2>4
<1>4. worker' \in Worker /\ worker' # Idle /\ worker # Idle
  BY <1>1, <1>2 DEF Worker, Idle
<1>5. Shaped'
  BY <1>1, <1>3, <1>4 DEF Shaped
<1>6. \A k \in Invoices : /\ Waits(k)' <=> Waits(k)
                          /\ Works(k)' <=> Works(k)
                          /\ Exists(k)' <=> Exists(k)
  BY <1>1, <1>2, <1>4 DEF Waits, Works, Exists
<1>7. QueueFollows'
  BY <1>1, <1>6 DEF ReceivableInv, QueueFollows, QueuedOnce, NoTodo, None
<1>8. BondsFollow'
  <2>1. \A k \in Invoices : InProgress(k)' => InProgress(k)
    BY <1>1, <1>2, <1>6 DEF InProgress
  <2> QED
    BY <1>1, <1>2, <1>6, <2>1 DEF ReceivableInv, BondsFollow
<1>9. ClaimsFollow' /\ AnswersFollow' /\ OneRowPerReceivable'
  BY <1>1, StoreKept
<1> QED
  BY <1>5, <1>7, <1>8, <1>9 DEF ReceivableInv

LEMMA DeployAnsweredKeeps == ReceivableInv /\ DeployAnswered => ReceivableInv'
<1> SUFFICES ASSUME ReceivableInv, DeployAnswered PROVE ReceivableInv'
  OBVIOUS
<1> PICK i : i = worker.invoice
  OBVIOUS
<1>1. /\ Shaped /\ up /\ todo = NoTodo
      /\ worker = [awaits |-> "deploy", invoice |-> i] /\ i \in Invoices
      /\ todo' = [write |-> "persist", invoice |-> i]
      /\ UNCHANGED <<up, row, link, pending, worker, telling, claim, record>>
  BY WorkerFields DEF DeployAnswered, At, ReceivableInv, Shaped, Running, store
<1>2. PICK state \in {"issued", "queued", "failed"}, bond \in Nat, landed \in BOOLEAN :
          /\ state = "issued" <=> bond # NoBond
          /\ job' = [job EXCEPT ![i].state = state, ![i].bond = bond]
          /\ BondLands(i, landed)
  <2>1. minted[i] + 1 \in Nat /\ minted[i] + 1 # NoBond /\ NoBond \in Nat
    BY <1>1 DEF Shaped, NoBond
  <2>2. PICK reply \in {"deployed", "busy", "refused"}, landed \in BOOLEAN :
          /\ BondLands(i, landed)
          /\ job' = [job EXCEPT
                ![i].state = IF reply = "deployed" THEN "issued"
                             ELSE IF reply = "busy" /\ MayRetry(job[i].attempts)
                                  THEN "queued" ELSE "failed",
                ![i].bond = IF reply = "deployed" THEN minted[i] + 1 ELSE NoBond]
    BY <1>1 DEF DeployAnswered
  <2>3. PICK state, bond :
          /\ state = IF reply = "deployed" THEN "issued"
                     ELSE IF reply = "busy" /\ MayRetry(job[i].attempts)
                          THEN "queued" ELSE "failed"
          /\ bond = IF reply = "deployed" THEN minted[i] + 1 ELSE NoBond
    OBVIOUS
  <2>4. job' = [job EXCEPT ![i].state = state, ![i].bond = bond]
    BY <2>2, <2>3
  <2>5. /\ state \in {"issued", "queued", "failed"} /\ bond \in Nat
        /\ state = "issued" <=> bond # NoBond
    BY <2>1, <2>3
  <2> QED
    BY <2>2, <2>4, <2>5
<1> DEFINE j == [[job[i] EXCEPT !.state = state] EXCEPT !.bond = bond]
<1>3. /\ job' \in [Invoices -> JobShape] /\ job'[i].state = state /\ job'[i].bond = bond
      /\ \A k \in Invoices : k # i => job'[k] = job[k]
  <2> PICK old : old = job[i]
    OBVIOUS
  <2>1. old \in JobShape /\ job \in [Invoices -> JobShape]
    BY <1>1 DEF Shaped
  <2>2. [old EXCEPT !.state = state] \in JobShape
    BY <2>1 DEF JobShape, IssuanceState
  <2>3. j \in JobShape /\ j.state = state /\ j.bond = bond
    BY <2>2 DEF JobShape
  <2>4. job' = [job EXCEPT ![i] = j]
    BY <1>1, <1>2, <2>1
  <2> HIDE DEF j
  <2> QED
    BY <1>1, <2>1, <2>3, <2>4
<1>4. minted' \in [Invoices -> Nat]
  <2>1. minted \in [Invoices -> Nat] /\ minted[i] + 1 \in Nat
    BY <1>1 DEF Shaped
  <2> QED
    BY <1>1, <1>2, <2>1 DEF BondLands
<1>5. todo' \in Todo /\ todo' # NoTodo /\ todo'.invoice = i /\ todo'.write = "persist"
  BY <1>1 DEF Todo, NoTodo
<1>6. Shaped'
  BY <1>1, <1>3, <1>4, <1>5 DEF Shaped
<1>7. worker # Idle /\ Works(i)
  BY <1>1 DEF Idle, Works
<1>8. \A k \in Invoices : /\ Waits(k)' <=> Waits(k)
                          /\ Works(k)' <=> Works(k)
                          /\ Exists(k)' <=> Exists(k)
  BY <1>1 DEF Waits, Works, Exists
<1>9. QueueFollows'
  <2>1. QueueFollows
    BY DEF ReceivableInv
  <2>2. Exists(i)' /\ ~Waits(i)'
    BY <1>1, <1>7, <1>8, <2>1 DEF QueueFollows
  <2>3. Exists(todo.invoice)' /\ ~Waits(todo.invoice)'
    BY <1>5, <2>2 DEF Exists, Waits
  <2>4. /\ worker' = [awaits |-> "deploy", invoice |-> todo'.invoice]
        /\ job'[todo'.invoice].state \in {"issued", "queued", "failed"}
        /\ job'[todo'.invoice].state = "issued" <=> job'[todo'.invoice].bond # NoBond
    BY <1>1, <1>2, <1>3, <1>5
  <2> QED
    BY <1>1, <1>5, <1>8, <2>1, <2>3, <2>4 DEF QueueFollows, QueuedOnce
<1>10. BondsFollow'
  <2>1. \A k \in Invoices : InProgress(k)' => InProgress(k)
    BY <1>1, <1>5, <1>7, <1>8 DEF InProgress
  <2> QED
    BY <1>1, <1>8, <2>1 DEF ReceivableInv, BondsFollow
<1>11. ClaimsFollow' /\ AnswersFollow' /\ OneRowPerReceivable'
  BY <1>1, StoreKept
<1> QED
  BY <1>6, <1>9, <1>10, <1>11 DEF ReceivableInv

LEMMA PersistKeeps ==
    ASSUME ReceivableInv, NEW i \in Invoices, Persist(i)
    PROVE  ReceivableInv'
<1>1. /\ Shaped /\ up /\ todo = [write |-> "persist", invoice |-> i] /\ todo' = NoTodo
      /\ UNCHANGED <<up, link, job, pending, telling, minted, claim, record>>
  BY DEF Persist, ReceivableInv, chain
<1>2. QueueFollows /\ BondsFollow
  BY DEF ReceivableInv
<1>3. /\ todo # NoTodo /\ todo.write = "persist" /\ todo.invoice = i
      /\ worker = [awaits |-> "deploy", invoice |-> i] /\ worker # Idle
      /\ job[i].state \in {"issued", "queued", "failed"}
      /\ job[i].state = "issued" <=> job[i].bond # NoBond
      /\ Exists(i) /\ ~Waits(i) /\ Works(i)
  <2>1. todo # NoTodo /\ todo.write = "persist" /\ todo.invoice = i
    BY <1>1 DEF NoTodo
  <2>2. worker = [awaits |-> "deploy", invoice |-> i]
    BY <1>2, <2>1 DEF QueueFollows
  <2>3. worker # Idle /\ Works(i)
    BY <2>2 DEF Idle, Works
  <2> QED
    BY <1>2, <2>1, <2>2, <2>3 DEF QueueFollows
<1>4. row[i].bond = NoBond
  BY <1>2, <1>3 DEF BondsFollow, InProgress
<1> DEFINE r == [[row[i] EXCEPT !.issuance = job[i].state] EXCEPT !.bond = job[i].bond]
<1>5. /\ r \in RowShape /\ r.receivable = row[i].receivable /\ r.decision = row[i].decision
      /\ r.bond = job[i].bond /\ r.issuance = job[i].state
  <2> PICK old : old = row[i]
    OBVIOUS
  <2> PICK state, bond : state = job[i].state /\ bond = job[i].bond
    OBVIOUS
  <2>1. old \in RowShape
    BY <1>1, <1>3, RowTyped
  <2>2. state \in IssuanceState /\ bond \in Nat
    BY <1>1, <1>3 DEF IssuanceState, Shaped, JobShape
  <2>3. [old EXCEPT !.issuance = state] \in RowShape
    BY <2>1, <2>2 DEF RowShape
  <2> QED
    BY <2>2, <2>3 DEF RowShape
<1>6. row' = [row EXCEPT ![i] = r]
  <2>1. row' = [row EXCEPT ![i].issuance = job[i].state,
                           ![i].bond = IF job[i].bond = NoBond THEN row[i].bond
                                                               ELSE job[i].bond]
    BY DEF Persist
  <2>2. row' = [row EXCEPT ![i].issuance = job[i].state, ![i].bond = job[i].bond]
    BY <1>4, <2>1
  <2> QED
    BY <1>1, <2>2 DEF Shaped
<1> HIDE DEF r
<1>7. /\ row' \in [Invoices -> RowShape \cup {NoRow}]
      /\ row'[i] = r /\ Exists(i)'
      /\ \A j \in Invoices : j # i => row'[j] = row[j] /\ (Exists(j)' <=> Exists(j))
  <2>1. Shaped /\ r \in RowShape
    BY <1>1, <1>5
  <2> QED
    BY <1>6, <2>1, RowUpdate
<1>8. /\ worker' \in Worker \cup {Idle}
      /\ worker' # Idle => /\ worker'.invoice = i
                           /\ worker'.awaits \in {"claim", "backoff"}
                           /\ worker'.awaits = "claim" <=> job[i].state = "issued"
  <2>1. CASE job[i].state = "issued"
    <3>1. worker' = [worker EXCEPT !.awaits = "claim"]
      BY <2>1 DEF Persist
    <3>2. worker' = [awaits |-> "claim", invoice |-> i]
      BY <1>3, <3>1
    <3> QED
      BY <2>1, <3>2 DEF Worker
  <2>2. CASE job[i].state = "queued"
    <3>1. worker' = [worker EXCEPT !.awaits = "backoff"]
      BY <2>2 DEF Persist
    <3>2. worker' = [awaits |-> "backoff", invoice |-> i]
      BY <1>3, <3>1
    <3> QED
      BY <2>2, <3>2 DEF Worker
  <2>3. CASE job[i].state = "failed"
    <3>1. worker' = Idle
      BY <2>3 DEF Persist
    <3> QED
      BY <3>1
  <2> QED
    BY <1>3, <2>1, <2>2, <2>3
<1>9. Shaped'
  BY <1>1, <1>7, <1>8 DEF Shaped
<1>10. \A k \in Invoices : /\ Waits(k)' <=> Waits(k)
                           /\ Works(k)' => k = i
                           /\ Exists(k)' <=> Exists(k)
  BY <1>1, <1>3, <1>7, <1>8 DEF Waits, Works
<1>11. QueueFollows'
  BY <1>1, <1>2, <1>3, <1>10 DEF QueueFollows, QueuedOnce, NoTodo, None
<1>12. BondsFollow'
  <2>1. \A k \in Invoices : k # i /\ InProgress(k)' => InProgress(k)
    BY <1>1, <1>3, <1>10 DEF InProgress
  <2>2. job[i].state = "issued" => ~InProgress(i)'
    BY <1>1, <1>3, <1>8, <1>10 DEF InProgress, Works
  <2>3. ASSUME NEW k \in Invoices, Exists(k)', row'[k].bond # NoBond
        PROVE  row'[k].issuance = "issued" /\ ~InProgress(k)'
    <3>1. CASE k = i
      BY <1>3, <1>5, <1>7, <2>2, <2>3, <3>1
    <3>2. CASE k # i
      <4>1. row'[k] = row[k] /\ Exists(k)
        BY <1>7, <2>3, <3>2
      <4> QED
        BY <1>2, <2>1, <2>3, <3>2, <4>1 DEF BondsFollow
    <3> QED
      BY <3>1, <3>2
  <2>4. ASSUME NEW k \in Invoices, Works(k)', worker'.awaits \in {"claim", "list"}
        PROVE  row'[k].bond # NoBond /\ job'[k].bond = row'[k].bond
    <3>1. k = i /\ worker' # Idle
      BY <1>10, <2>4 DEF Works
    <3>2. job[i].state = "issued"
      BY <1>8, <2>4, <3>1
    <3> QED
      BY <1>1, <1>3, <1>5, <1>7, <3>1, <3>2
  <2> QED
    BY <2>3, <2>4 DEF BondsFollow
<1>13. \A k \in Invoices : SameRow(k)
  BY <1>4, <1>5, <1>7, <1>10 DEF SameRow
<1>14. ClaimsFollow' /\ AnswersFollow' /\ OneRowPerReceivable'
  BY <1>1, <1>13, RowsMoved
<1> QED
  BY <1>9, <1>11, <1>12, <1>14 DEF ReceivableInv

LEMMA BackoffKeeps == ReceivableInv /\ BackoffEnds => ReceivableInv'
<1> SUFFICES ASSUME ReceivableInv, BackoffEnds PROVE ReceivableInv'
  OBVIOUS
<1> PICK i : i = worker.invoice
  OBVIOUS
<1>1. /\ Shaped /\ up /\ todo = NoTodo
      /\ worker = [awaits |-> "backoff", invoice |-> i] /\ i \in Invoices /\ worker # Idle
      /\ worker' = Idle /\ pending' = Append(pending, i)
      /\ UNCHANGED <<up, row, link, job, telling, todo, minted, claim, record>>
  BY WorkerFields DEF BackoffEnds, At, ReceivableInv, Shaped, Running, store, chain
<1>2. QueueFollows /\ BondsFollow /\ Works(i)
  BY <1>1 DEF ReceivableInv, Works
<1>3. /\ pending' \in Seq(Invoices) /\ QueuedOnce'
      /\ \A j \in Invoices : Waits(j)' <=> Waits(j) \/ j = i
  BY <1>1, <1>2, Queued DEF Shaped, QueueFollows
<1>4. Shaped'
  BY <1>1, <1>3 DEF Shaped
<1>5. \A j \in Invoices : ~Works(j)' /\ (Exists(j)' <=> Exists(j))
  BY <1>1 DEF Works, Exists
<1>6. QueueFollows'
  BY <1>1, <1>2, <1>3, <1>5 DEF QueueFollows, NoTodo, None
<1>7. BondsFollow'
  <2>1. \A k \in Invoices : InProgress(k)' => InProgress(k)
    BY <1>1, <1>2, <1>3, <1>5 DEF InProgress
  <2> QED
    BY <1>1, <1>2, <1>5, <2>1 DEF BondsFollow
<1>8. ClaimsFollow' /\ AnswersFollow' /\ OneRowPerReceivable'
  BY <1>1, StoreKept
<1> QED
  BY <1>4, <1>6, <1>7, <1>8 DEF ReceivableInv

LEMMA EnqueueKeeps ==
    ASSUME ReceivableInv, NEW i \in Invoices, Enqueue(i)
    PROVE  ReceivableInv'
<1>1. /\ Shaped /\ up /\ todo = [write |-> "enqueue", invoice |-> i] /\ todo' = NoTodo
      /\ UNCHANGED <<up, link, worker, telling, minted, claim, record>>
  BY DEF Enqueue, ReceivableInv, chain
<1>2. QueueFollows /\ BondsFollow
  BY DEF ReceivableInv
<1>3. /\ todo # NoTodo /\ todo.write = "enqueue" /\ todo.invoice = i
      /\ Exists(i) /\ ~Waits(i) /\ ~Works(i)
  <2>1. todo # NoTodo /\ todo.write = "enqueue" /\ todo.invoice = i
    BY <1>1 DEF NoTodo
  <2> QED
    BY <1>2, <2>1 DEF QueueFollows
<1>4. row[i].bond = NoBond
  BY <1>2, <1>3 DEF BondsFollow, InProgress
<1>5. CASE UNCHANGED <<row, job, pending>>
  <2>1. Shaped'
    BY <1>1, <1>5 DEF Shaped
  <2>2. \A k \in Invoices : /\ Waits(k)' <=> Waits(k)
                            /\ Works(k)' <=> Works(k)
                            /\ Exists(k)' <=> Exists(k)
    BY <1>1, <1>5 DEF Waits, Works, Exists
  <2>3. QueueFollows'
    BY <1>1, <1>2, <1>5, <2>2 DEF QueueFollows, QueuedOnce, NoTodo, None
  <2>4. \A k \in Invoices : InProgress(k)' => InProgress(k)
    BY <1>1, <2>2 DEF InProgress
  <2>5. BondsFollow'
    BY <1>1, <1>2, <1>5, <2>2, <2>4 DEF BondsFollow
  <2>6. ClaimsFollow' /\ AnswersFollow' /\ OneRowPerReceivable'
    BY <1>1, <1>5, StoreKept
  <2> QED
    BY <2>1, <2>3, <2>5, <2>6 DEF ReceivableInv
<1>6. ASSUME NEW shown \in {"queued", "issuing"},
             job' = [job EXCEPT ![i].state = "queued", ![i].bond = NoBond],
             pending' = Append(pending, i),
             row' = [row EXCEPT ![i].issuance = shown]
      PROVE  ReceivableInv'
  <2> DEFINE r == [row[i] EXCEPT !.issuance = shown]
             j == [[job[i] EXCEPT !.state = "queued"] EXCEPT !.bond = NoBond]
  <2>1. /\ r \in RowShape /\ r.receivable = row[i].receivable /\ r.decision = row[i].decision
        /\ r.bond = NoBond
    BY <1>1, <1>3, <1>4, RowTyped DEF RowShape, IssuanceState
  <2>2. row' = [row EXCEPT ![i] = r]
    BY <1>6
  <2> HIDE DEF r
  <2>3. /\ row' \in [Invoices -> RowShape \cup {NoRow}]
        /\ row'[i] = r /\ Exists(i)'
        /\ \A k \in Invoices : k # i => row'[k] = row[k] /\ (Exists(k)' <=> Exists(k))
    <3>1. Shaped
      BY <1>1
    <3> QED
      BY <2>1, <2>2, <3>1, RowUpdate
  <2>4. /\ job' \in [Invoices -> JobShape]
        /\ \A k \in Invoices : k # i => job'[k] = job[k]
    <3> PICK old : old = job[i]
      OBVIOUS
    <3>1. old \in JobShape /\ job \in [Invoices -> JobShape]
      BY <1>1 DEF Shaped
    <3>2. [old EXCEPT !.state = "queued"] \in JobShape
      BY <3>1 DEF JobShape, IssuanceState
    <3>3. j \in JobShape
      BY <3>2 DEF JobShape, NoBond
    <3>4. job' = [job EXCEPT ![i] = j]
      BY <1>6, <3>1
    <3> HIDE DEF j
    <3> QED
      BY <3>1, <3>3, <3>4
  <2>5. /\ pending' \in Seq(Invoices) /\ QueuedOnce'
        /\ \A k \in Invoices : Waits(k)' <=> Waits(k) \/ k = i
    BY <1>1, <1>2, <1>3, <1>6, Queued DEF Shaped, QueueFollows
  <2>6. Shaped'
    BY <1>1, <2>3, <2>4, <2>5 DEF Shaped
  <2>7. \A k \in Invoices : (Works(k)' <=> Works(k)) /\ (Exists(k)' <=> Exists(k))
    BY <1>1, <1>3, <2>3 DEF Works
  <2>8. QueueFollows'
    BY <1>1, <1>2, <1>3, <2>5, <2>7 DEF QueueFollows, NoTodo, None
  <2>9. BondsFollow'
    <3>1. \A k \in Invoices : InProgress(k)' => InProgress(k)
      BY <1>1, <1>3, <2>5, <2>7 DEF InProgress
    <3>2. ASSUME NEW k \in Invoices, Exists(k)', row'[k].bond # NoBond
          PROVE  row'[k].issuance = "issued" /\ ~InProgress(k)'
      <4>1. k # i /\ row'[k] = row[k] /\ Exists(k)
        BY <2>1, <2>3, <3>2
      <4> QED
        BY <1>2, <3>1, <3>2, <4>1 DEF BondsFollow
    <3>3. ASSUME NEW k \in Invoices, Works(k)', worker'.awaits \in {"claim", "list"}
          PROVE  row'[k].bond # NoBond /\ job'[k].bond = row'[k].bond
      <4>1. k # i /\ Works(k) /\ row'[k] = row[k] /\ job'[k] = job[k]
        BY <1>3, <2>3, <2>4, <2>7, <3>3
      <4> QED
        BY <1>1, <1>2, <3>3, <4>1 DEF BondsFollow
    <3> QED
      BY <3>2, <3>3 DEF BondsFollow
  <2>10. \A k \in Invoices : SameRow(k)
    BY <1>4, <2>1, <2>3, <2>7 DEF SameRow
  <2>11. ClaimsFollow' /\ AnswersFollow' /\ OneRowPerReceivable'
    BY <1>1, <2>10, RowsMoved
  <2> QED
    BY <2>6, <2>8, <2>9, <2>11 DEF ReceivableInv
<1>7. \/ UNCHANGED <<row, job, pending>>
      \/ \E shown \in {"queued", "issuing"} :
             /\ job' = [job EXCEPT ![i].state = "queued", ![i].bond = NoBond]
             /\ pending' = Append(pending, i)
             /\ row' = [row EXCEPT ![i].issuance = shown]
  BY DEF Enqueue
<1> QED
  BY <1>5, <1>6, <1>7

(* What the worker sent lands, whether or not the process lives to hear it. *)
LEMMA ClaimKeeps ==
    ASSUME ReceivableInv, NEW i \in Invoices, Works(i), worker.awaits = "claim",
           ClaimLands(i), UNCHANGED <<row, record>>
    PROVE  /\ claim' \in [Receivables -> [invoice : Invoices \cup {None, "elsewhere"}, bond : Nat]]
           /\ ClaimsFollow'
<1> PICK h : h = row[i].receivable
  OBVIOUS
<1> DEFINE ClaimShape == [invoice : Invoices \cup {None, "elsewhere"}, bond : Nat]
           new == Ours(i, job[i].bond)
<1>1. /\ Shaped /\ ClaimsFollow /\ Exists(i) /\ h \in Receivables
      /\ row[i].bond # NoBond /\ job[i].bond = row[i].bond /\ row[i].bond \in Nat
  <2>1. /\ Shaped /\ ClaimsFollow /\ Exists(i)
        /\ row[i].bond # NoBond /\ job[i].bond = row[i].bond
    BY DEF ReceivableInv, QueueFollows, BondsFollow
  <2> QED
    BY <2>1, RowTyped DEF RowShape
<1>2. claim \in [Receivables -> ClaimShape]
  BY <1>1 DEF Shaped
<1>3. CASE claim' = claim
  BY <1>1, <1>2, <1>3 DEF ClaimsFollow, Exists
<1>4. CASE claim[h] = Unclaimed /\ claim' = [claim EXCEPT ![h] = new]
  <2>1. new \in ClaimShape /\ new.invoice = i /\ new.bond = row[i].bond
    BY <1>1 DEF Ours
  <2> HIDE DEF new
  <2>2. /\ claim' \in [Receivables -> ClaimShape] /\ claim'[h] = new
        /\ \A g \in Receivables : g # h => claim'[g] = claim[g]
    BY <1>1, <1>2, <1>4, <2>1
  <2>3. ASSUME NEW g \in Receivables, claim'[g].bond # NoBond
        PROVE  /\ claim'[g].invoice \in Invoices /\ Exists(claim[g].invoice)'
               /\ row'[claim'[g].invoice].receivable = g
               /\ row'[claim'[g].invoice].bond = claim'[g].bond
    <3>1. CASE g = h
      BY <1>1, <2>1, <2>2, <3>1 DEF Exists
    <3>2. CASE g # h
      BY <1>1, <2>2, <2>3, <3>2 DEF ClaimsFollow, Exists
    <3> QED
      BY <3>1, <3>2
  <2>4. ASSUME NEW k \in Invoices, record'[k] # NoRecord
        PROVE  /\ Exists(k)' /\ record'[k].bond # NoBond
               /\ claim'[row'[k].receivable] = Ours(k, record'[k].bond)
    <3>1. /\ Exists(k) /\ record[k].bond # NoBond
          /\ claim[row[k].receivable] = Ours(k, record[k].bond)
      BY <1>1, <2>4 DEF ClaimsFollow
    <3>2. row[k].receivable \in Receivables
      BY <1>1, <3>1, RowTyped DEF RowShape
    <3>3. row[k].receivable # h
      BY <1>4, <3>1 DEF Ours, Unclaimed
    <3> QED
      BY <2>2, <3>1, <3>2, <3>3 DEF Exists
  <2> QED
    BY <2>2, <2>3, <2>4 DEF ClaimsFollow
<1> QED
  BY <1>3, <1>4 DEF ClaimLands

LEMMA ListingKeeps ==
    ASSUME ReceivableInv, NEW i \in Invoices, Works(i), worker.awaits = "list",
           ListingLands(i), UNCHANGED <<row, claim, link>>, telling' \subseteq telling
    PROVE  /\ record' \in [Invoices -> [bond : Nat, status : {"unknown", "draft", "confirmed"}]]
           /\ ClaimsFollow' /\ AnswersFollow'
<1> DEFINE RecordShape == [bond : Nat, status : {"unknown", "draft", "confirmed"}]
           new == [bond |-> job[i].bond, status |-> "draft"]
<1>1. /\ Shaped /\ ClaimsFollow /\ AnswersFollow /\ Exists(i)
      /\ row[i].bond # NoBond /\ job[i].bond = row[i].bond /\ job[i].bond \in Nat
  <2>1. /\ Shaped /\ ClaimsFollow /\ AnswersFollow /\ Exists(i)
        /\ row[i].bond # NoBond /\ job[i].bond = row[i].bond
    BY DEF ReceivableInv, QueueFollows, BondsFollow
  <2> QED
    BY <2>1, RowTyped DEF RowShape
<1>2. record \in [Invoices -> RecordShape]
  BY <1>1 DEF Shaped
<1>3. CASE record' = record
  BY <1>1, <1>2, <1>3, StoreKept
<1>4. CASE claim[row[i].receivable] = Ours(i, job[i].bond)
           /\ record' = [record EXCEPT ![i] = new]
  <2>1. new \in RecordShape /\ new.bond = job[i].bond /\ new.status = "draft"
    BY <1>1
  <2> HIDE DEF new
  <2>2. /\ record' \in [Invoices -> RecordShape] /\ record'[i] = new
        /\ \A k \in Invoices : k # i => record'[k] = record[k]
    BY <1>2, <1>4, <2>1
  <2>3. ASSUME NEW k \in Invoices, record'[k] # NoRecord
        PROVE  /\ Exists(k)' /\ record'[k].bond # NoBond
               /\ claim'[row'[k].receivable] = Ours(k, record'[k].bond)
    <3>1. CASE k = i
      BY <1>1, <1>4, <2>1, <2>2, <3>1 DEF Exists
    <3>2. CASE k # i
      BY <1>1, <2>2, <2>3, <3>2 DEF ClaimsFollow, Exists
    <3> QED
      BY <3>1, <3>2
  <2>4. ClaimsFollow'
    BY <1>1, <2>3 DEF ClaimsFollow, Exists
  <2>5. AnswersFollow'
    BY <1>1, <2>1, <2>2 DEF AnswersFollow, Exists, Live
  <2> QED
    BY <2>2, <2>4, <2>5
<1> QED
  BY <1>3, <1>4 DEF ListingLands

LEMMA RegistriesAnsweredKeeps ==
    ReceivableInv /\ (ClaimAnswered \/ ListingAnswered) => ReceivableInv'
<1> SUFFICES ASSUME ReceivableInv, ClaimAnswered \/ ListingAnswered PROVE ReceivableInv'
  OBVIOUS
<1> PICK i, awaits : i = worker.invoice /\ awaits = worker.awaits
  OBVIOUS
<1>1. /\ Shaped /\ up /\ todo = NoTodo /\ awaits \in {"claim", "list"}
      /\ UNCHANGED <<up, row, link, job, pending, telling, todo, minted>>
  BY DEF ClaimAnswered, ListingAnswered, At, ReceivableInv, Running, store
<1>2. /\ worker = [awaits |-> awaits, invoice |-> i] /\ i \in Invoices /\ worker # Idle
      /\ Works(i)
  BY <1>1, WorkerFields DEF Shaped, Works
<1>3. /\ worker' \in Worker \cup {Idle}
      /\ worker' # Idle => worker'.invoice = i /\ worker'.awaits \in {"claim", "list"}
  <2>1. CASE ClaimAnswered
    <3>1. worker' = [worker EXCEPT !.awaits = "list"]
      BY <2>1 DEF ClaimAnswered
    <3>2. worker' = [awaits |-> "list", invoice |-> i]
      BY <1>2, <3>1
    <3> QED
      BY <1>2, <3>2 DEF Worker
  <2>2. CASE ListingAnswered
    BY <2>2 DEF ListingAnswered
  <2> QED
    BY <2>1, <2>2
<1>4. /\ claim' \in [Receivables -> [invoice : Invoices \cup {None, "elsewhere"}, bond : Nat]]
      /\ record' \in [Invoices -> [bond : Nat, status : {"unknown", "draft", "confirmed"}]]
      /\ ClaimsFollow' /\ AnswersFollow'
  <2>1. CASE ClaimAnswered
    <3>1. ClaimLands(i) /\ record' = record /\ worker.awaits = "claim"
      BY <2>1 DEF ClaimAnswered, At
    <3>2. AnswersFollow'
      BY <1>1, <3>1 DEF ReceivableInv, AnswersFollow, Exists, Live
    <3> QED
      BY <1>1, <1>2, <3>1, <3>2, ClaimKeeps DEF Shaped
  <2>2. CASE ListingAnswered
    <3>1. ListingLands(i) /\ claim' = claim /\ worker.awaits = "list"
      BY <2>2 DEF ListingAnswered, At
    <3> QED
      BY <1>1, <1>2, <3>1, ListingKeeps DEF Shaped
  <2> QED
    BY <2>1, <2>2
<1>5. Shaped'
  BY <1>1, <1>3, <1>4 DEF Shaped
<1>6. \A k \in Invoices : /\ Waits(k)' <=> Waits(k)
                          /\ Works(k)' => k = i
                          /\ Exists(k)' <=> Exists(k)
  BY <1>1, <1>3 DEF Waits, Works, Exists
<1>7. QueueFollows'
  BY <1>1, <1>2, <1>6 DEF ReceivableInv, QueueFollows, QueuedOnce, NoTodo, None
<1>8. BondsFollow'
  <2>1. \A k \in Invoices : InProgress(k)' => InProgress(k)
    BY <1>1, <1>3, <1>6 DEF InProgress, Works
  <2> QED
    BY <1>1, <1>2, <1>6, <2>1 DEF ReceivableInv, BondsFollow
<1>9. OneRowPerReceivable'
  BY <1>1 DEF ReceivableInv, OneRowPerReceivable, Exists
<1> QED
  BY <1>4, <1>5, <1>7, <1>8, <1>9 DEF ReceivableInv

-----------------------------------------------------------------------------
(* Crash and restart.                                                       *)

LEMMA CrashKeeps == ReceivableInv /\ Crash => ReceivableInv'
<1> SUFFICES ASSUME ReceivableInv, Crash PROVE ReceivableInv'
  OBVIOUS
<1> PICK i : i = worker.invoice
  OBVIOUS
<1>1. /\ Shaped /\ telling' \in SUBSET telling /\ pending' = <<>> /\ worker' = Idle
      /\ todo' = NoTodo /\ job' = [k \in Invoices |-> NoJob]
      /\ UNCHANGED <<row, link>>
  BY DEF Crash, ReceivableInv, store
<1>2. InFlightLands
  BY DEF Crash
<1>3. worker # Idle => i \in Invoices /\ Works(i)
  BY <1>1 DEF Shaped, Worker, Works
<1>4. minted' \in [Invoices -> Nat]
  <2>1. CASE minted' = minted
    BY <1>1, <2>1 DEF Shaped
  <2>2. CASE worker # Idle /\ BondLands(i, TRUE)
    <3>1. minted \in [Invoices -> Nat] /\ minted[i] + 1 \in Nat
      BY <1>1, <1>3, <2>2 DEF Shaped
    <3> QED
      BY <1>3, <2>2, <3>1 DEF BondLands
  <2> QED
    BY <1>2, <2>1, <2>2 DEF InFlightLands
<1>5. /\ claim' \in [Receivables -> [invoice : Invoices \cup {None, "elsewhere"}, bond : Nat]]
      /\ record' \in [Invoices -> [bond : Nat, status : {"unknown", "draft", "confirmed"}]]
      /\ ClaimsFollow' /\ AnswersFollow'
  <2>1. CASE worker # Idle /\ worker.awaits = "claim" /\ ClaimLands(i) /\ record' = record
    <3>1. AnswersFollow'
      BY <1>1, <2>1 DEF ReceivableInv, AnswersFollow, Exists, Live
    <3> QED
      BY <1>1, <1>3, <2>1, <3>1, ClaimKeeps DEF Shaped
  <2>2. CASE worker # Idle /\ worker.awaits = "list" /\ ListingLands(i) /\ claim' = claim
    BY <1>1, <1>3, <2>2, ListingKeeps DEF Shaped
  <2>3. CASE claim' = claim /\ record' = record
    <3>1. ClaimsFollow' /\ AnswersFollow'
      BY <1>1, <2>3, StoreKept
    <3> QED
      BY <1>1, <2>3, <3>1 DEF Shaped
  <2> QED
    BY <1>2, <2>1, <2>2, <2>3 DEF InFlightLands
<1>6. job' \in [Invoices -> JobShape]
  BY <1>1 DEF NoJob, JobShape, NoBond
<1>7. Shaped'
  BY <1>1, <1>4, <1>5, <1>6 DEF Shaped
<1>8. \A k \in Invoices : ~Waits(k)' /\ ~Works(k)' /\ ~InProgress(k)' /\ (Exists(k)' <=> Exists(k))
  BY <1>1 DEF Waits, Works, InProgress, Exists
<1>9. QueueFollows'
  BY <1>1, <1>8 DEF QueueFollows, QueuedOnce, NoTodo, None
<1>10. BondsFollow'
  BY <1>1, <1>8 DEF ReceivableInv, BondsFollow
<1>11. OneRowPerReceivable'
  BY <1>1 DEF ReceivableInv, OneRowPerReceivable, Exists
<1> QED
  BY <1>5, <1>7, <1>9, <1>10, <1>11 DEF ReceivableInv

(* What is resumed: invoices that await their issuance, each of them once.  *)
LEMMA Resumed ==
    ASSUME NEW order \in SetToSeqs(AwaitingIssuance), NEW resumed, resumed = FirstOf(order)
    PROVE  /\ resumed \in Seq(Invoices)
           /\ \A k \in 1..Len(resumed) : resumed[k] \in AwaitingIssuance
           /\ \A k, m \in 1..Len(resumed) : resumed[k] = resumed[m] => k = m
           /\ \A i : i \in ToSet(resumed) <=> \E k \in 1..Len(resumed) : resumed[k] = i
           /\ ToSet(resumed) \subseteq AwaitingIssuance
<1> PICK n : n = Cardinality(AwaitingIssuance)
  OBVIOUS
<1>1. n \in Nat /\ AwaitingIssuance \subseteq Invoices
  BY FS_Subset, FS_CardinalityType DEF AwaitingIssuance
<1>2. order \in [1..n -> AwaitingIssuance] /\ \A k, m \in 1..n : k # m => order[k] # order[m]
  BY DEF SetToSeqs
<1>3. order \in Seq(Invoices) /\ Len(order) = n
  BY <1>1, <1>2
<1> PICK len : len = IF Len(order) < ResumeLimit THEN Len(order) ELSE ResumeLimit
  OBVIOUS
<1>4. len \in Nat /\ len <= n
  BY <1>1, <1>3
<1>5. /\ resumed \in Seq(Invoices) /\ Len(resumed) = len
      /\ \A k \in 1..len : resumed[k] = order[k]
  <2>1. resumed = SubSeq(order, 1, len)
    BY DEF FirstOf
  <2> QED
    BY <1>3, <1>4, <2>1
<1>6. \A k \in 1..len : k \in 1..n
  BY <1>1, <1>4
<1>7. \A k \in 1..Len(resumed) : resumed[k] \in AwaitingIssuance
  BY <1>2, <1>5, <1>6
<1>8. \A k, m \in 1..Len(resumed) : resumed[k] = resumed[m] => k = m
  BY <1>2, <1>5, <1>6
<1>9. DOMAIN resumed = 1..Len(resumed)
  BY <1>5
<1>10. \A i : i \in ToSet(resumed) <=> \E k \in 1..Len(resumed) : resumed[k] = i
  BY <1>9 DEF ToSet
<1> QED
  BY <1>5, <1>7, <1>8, <1>10

LEMMA RestartKeeps == ReceivableInv /\ Restart => ReceivableInv'
<1> SUFFICES ASSUME ReceivableInv, Restart PROVE ReceivableInv'
  OBVIOUS
<1>1. PICK order \in SetToSeqs(AwaitingIssuance), first \in {"queued", "issuing"} :
          /\ pending' = FirstOf(order)
          /\ job' = [i \in Invoices |->
                        IF i \in ToSet(FirstOf(order)) THEN [NoJob EXCEPT !.state = "queued"]
                        ELSE NoJob]
          /\ row' = [i \in Invoices |->
                        IF i \notin ToSet(FirstOf(order)) THEN row[i]
                        ELSE [row[i] EXCEPT !.issuance =
                                 IF i = Head(FirstOf(order)) THEN first ELSE "queued"]]
  BY DEF Restart
<1> PICK resumed : resumed = FirstOf(order)
  OBVIOUS
<1>2. /\ Shaped /\ QueueFollows /\ BondsFollow /\ ~up /\ up' /\ worker = Idle /\ todo = NoTodo
      /\ UNCHANGED <<link, worker, telling, todo, minted, claim, record>>
  BY DEF Restart, ReceivableInv, QueueFollows, chain
<1>3. /\ pending' = resumed /\ pending' \in Seq(Invoices) /\ QueuedOnce'
      /\ \A i \in Invoices : Waits(i)' <=> i \in ToSet(resumed)
      /\ ToSet(resumed) \subseteq AwaitingIssuance
  BY <1>1, Resumed DEF QueuedOnce, Waits
<1>4. ASSUME NEW i \in Invoices
      PROVE  /\ row'[i] \in RowShape \cup {NoRow} /\ SameRow(i)
             /\ Waits(i)' => Exists(i) /\ row[i].bond = NoBond
             /\ ~Waits(i)' => row'[i] = row[i]
             /\ Exists(i) => row'[i].bond = row[i].bond
  <2>1. CASE i \notin ToSet(resumed)
    BY <1>1, <1>2, <1>3, <2>1 DEF Shaped, SameRow, Exists
  <2>2. CASE i \in ToSet(resumed)
    <3>1. Exists(i) /\ row[i].issuance \in {"queued", "issuing"}
      BY <1>3, <2>2 DEF AwaitingIssuance
    <3>2. row[i].bond = NoBond
      BY <1>2, <3>1 DEF BondsFollow
    <3>3. PICK shown \in {"queued", "issuing"} : row'[i] = [row[i] EXCEPT !.issuance = shown]
      BY <1>1, <2>2
    <3>4. /\ row'[i] \in RowShape /\ row'[i].receivable = row[i].receivable
          /\ row'[i].decision = row[i].decision /\ row'[i].bond = row[i].bond
      BY <1>2, <3>1, <3>3, RowTyped DEF RowShape, IssuanceState
    <3>5. Exists(i)'
      BY <3>4, RowExists DEF Exists
    <3> QED
      BY <1>3, <2>2, <3>1, <3>2, <3>4, <3>5 DEF SameRow
  <2> QED
    BY <2>1, <2>2
<1>5. row' \in [Invoices -> RowShape \cup {NoRow}]
  BY <1>1, <1>4
<1>6. job' \in [Invoices -> JobShape]
  <2>1. NoJob \in JobShape /\ [NoJob EXCEPT !.state = "queued"] \in JobShape
    BY DEF NoJob, JobShape, IssuanceState, NoBond
  <2> QED
    BY <1>1, <2>1
<1>7. Shaped'
  BY <1>2, <1>3, <1>5, <1>6 DEF Shaped
<1>8. \A i \in Invoices : ~Works(i)' /\ (InProgress(i)' <=> Waits(i)')
  BY <1>2 DEF Works, InProgress
<1>9. QueueFollows'
  BY <1>2, <1>3, <1>4, <1>8 DEF QueueFollows, SameRow, NoTodo, None
<1>10. BondsFollow'
  <2>1. ASSUME NEW i \in Invoices, Exists(i)', row'[i].bond # NoBond
        PROVE  row'[i].issuance = "issued" /\ ~InProgress(i)'
    <3>1. Exists(i) /\ ~Waits(i)' /\ row'[i] = row[i]
      BY <1>4, <2>1 DEF SameRow
    <3> QED
      BY <1>2, <1>8, <2>1, <3>1 DEF BondsFollow
  <2> QED
    BY <1>8, <2>1 DEF BondsFollow
<1>11. ClaimsFollow' /\ AnswersFollow' /\ OneRowPerReceivable'
  BY <1>2, <1>4, RowsMoved
<1> QED
  BY <1>7, <1>9, <1>10, <1>11 DEF ReceivableInv

-----------------------------------------------------------------------------
(* The specification.                                                       *)

LEMMA ReceivableStep == ReceivableInv /\ [Next]_vars => ReceivableInv'
<1> SUFFICES ASSUME ReceivableInv, [Next]_vars PROVE ReceivableInv'
  OBVIOUS
<1>1. CASE \E h \in Receivables : AskRegistry(h) \/ RegistryAnswered(h)
  <2>1. PICK h \in Receivables : AskRegistry(h) \/ RegistryAnswered(h)
    BY <1>1
  <2>2. CASE AskRegistry(h)
    BY <2>2, AskKeeps DEF AskRegistry, store, queue, chain
  <2> QED
    BY <2>1, <2>2, RegistryAnsweredKeeps
<1>2. CASE StoreWrite
  BY <1>2, EnqueueKeeps, PersistKeeps DEF StoreWrite
<1>3. CASE Work
  BY <1>3, TakeKeeps, SubmitKeeps, DeployAnsweredKeeps, BackoffKeeps,
     RegistriesAnsweredKeeps DEF Work
<1>4. CASE \E i \in Invoices, l \in Links : RequestConfirmation(i, l)
  BY <1>4, RequestKeeps
<1>5. CASE \E l \in Links : Expire(l) \/ \E answer \in Answers : Decide(l, answer)
  BY <1>5, ExpireKeeps, DecideKeeps
<1>6. CASE \E i \in Invoices : TellingEnds(i) \/ Offer(i) \/ Withdraw(i)
  BY <1>6, TellingEndsKeeps, OfferKeeps
<1>7. CASE Crash
  BY <1>7, CrashKeeps
<1>8. CASE Restart
  BY <1>8, RestartKeeps
<1>9. CASE \E h \in Receivables : ClaimedElsewhere(h)
  BY <1>9, ElsewhereKeeps
<1>10. CASE UNCHANGED vars
  BY <1>10, AskKeeps DEF vars, store, queue, chain
<1> QED
  BY <1>1, <1>2, <1>3, <1>4, <1>5, <1>6, <1>7, <1>8, <1>9, <1>10 DEF Next

(* Rows, the queue, links and the registries keep to the invariant that the *)
(* results below are read off from: an invoice is in one place of the queue,*)
(* its bond is in its row before a registry hears of it, and one link at    *)
(* most can answer for it.                                                  *)
THEOREM ReceivableInvariant == Spec => []ReceivableInv
<1>1. Init => ReceivableInv
  BY ReceivableInit
<1>2. ReceivableInv /\ [Next]_vars => ReceivableInv'
  BY ReceivableStep
<1> QED
  BY <1>1, <1>2, PTL DEF Spec

(* However many create requests await the registry about one receivable,    *)
(* the unique index leaves it one row (insertInvoice).                      *)
THEOREM OneRow == Spec => []OneRowPerReceivable
<1>1. ReceivableInv => OneRowPerReceivable
  BY DEF ReceivableInv
<1> QED
  BY <1>1, ReceivableInvariant, PTL

(* Whatever deployments were lost, repeated or landed after a crash, the    *)
(* bond a claim and a record name is the bond of the row.                   *)
THEOREM RegistriesFollow == Spec => []RegistryFollowsRow
<1>1. ReceivableInv => RegistryFollowsRow
  <2> SUFFICES ASSUME ReceivableInv PROVE RegistryFollowsRow
    OBVIOUS
  <2>1. ClaimsFollow
    BY DEF ReceivableInv
  <2>2. ASSUME NEW i \in Invoices, NEW h \in Receivables, NEW b \in Bonds, claim[h] = Ours(i, b)
        PROVE  row[i].receivable = h /\ row[i].bond = b
    <3>1. b # NoBond
      BY DEF Bonds, NoBond
    <3> QED
      BY <2>1, <2>2, <3>1 DEF ClaimsFollow, Ours
  <2>3. \A i \in Invoices : record[i] # NoRecord =>
            claim[row[i].receivable] = Ours(i, record[i].bond)
    BY <2>1 DEF ClaimsFollow
  <2> QED
    BY <2>2, <2>3 DEF RegistryFollowsRow
<1> QED
  BY <1>1, ReceivableInvariant, PTL

(* The registry's setStatus(Confirmed) is sent without waiting and may land *)
(* late or after a crash; it never says what the debtor did not.            *)
THEOREM ConfirmedIsAnswered == Spec => []ConfirmedOnChainIsAnswered
<1>1. ReceivableInv => ConfirmedOnChainIsAnswered
  BY DEF ReceivableInv, AnswersFollow, ConfirmedOnChainIsAnswered
<1> QED
  BY <1>1, ReceivableInvariant, PTL

(* No step touches an answer that was given, whichever link it comes by     *)
(* (decide consumes a link only while no newer one replaced it).            *)
THEOREM AnswersStand == Spec => AnswerStands
<1> DEFINE Stands == \A i \in Invoices : Exists(i) /\ row[i].decision # None =>
                         row'[i].decision = row[i].decision
<1>1. ReceivableInv /\ [Next]_vars => Stands
  <2> SUFFICES ASSUME ReceivableInv, [Next]_vars, NEW i \in Invoices, Exists(i),
                      row[i].decision # None
               PROVE  row'[i].decision = row[i].decision
    OBVIOUS
  <2>1. row \in [Invoices -> RowShape \cup {NoRow}] /\ row[i] \in RowShape
    BY RowTyped DEF ReceivableInv, Shaped
  <2>2. ASSUME NEW j, NEW r, row' = [row EXCEPT ![j] = r],
               j = i => r.decision = row[i].decision
        PROVE  row'[i].decision = row[i].decision
    BY <2>1, <2>2
  <2>3. CASE UNCHANGED row
    BY <2>3
  <2>4. CASE \E h \in Receivables : RegistryAnswered(h)
    <3>1. CASE \E h, j : InsertRow(h, j)
      <4>1. PICK h, j : ~Exists(j) /\ row' = [row EXCEPT ![j] = NewRow(h)]
        BY <3>1 DEF InsertRow
      <4> QED
        BY <2>2, <4>1
    <3> QED
      BY <2>3, <2>4, <3>1 DEF RegistryAnswered
  <2>5. CASE StoreWrite
    <3>1. PICK j \in Invoices : Enqueue(j) \/ Persist(j)
      BY <2>5 DEF StoreWrite
    <3>2. CASE Enqueue(j)
      <4>1. \/ UNCHANGED row
            \/ \E shown : row' = [row EXCEPT ![j] = [row[j] EXCEPT !.issuance = shown]]
        BY <3>2 DEF Enqueue
      <4>2. \A shown : [row[i] EXCEPT !.issuance = shown].decision = row[i].decision
        BY <2>1 DEF RowShape
      <4>3. ASSUME NEW shown, row' = [row EXCEPT ![j] = [row[j] EXCEPT !.issuance = shown]]
            PROVE  row'[i].decision = row[i].decision
        BY <2>2, <4>2, <4>3
      <4> QED
        BY <2>3, <4>1, <4>3
    <3>3. CASE Persist(j)
      <4>1. PICK a, b : row' = [row EXCEPT ![j].issuance = a, ![j].bond = b]
        BY <3>3 DEF Persist
      <4>2. row' = [row EXCEPT ![j] = [[row[j] EXCEPT !.issuance = a] EXCEPT !.bond = b]]
        BY <2>1, <4>1
      <4>3. [[row[i] EXCEPT !.issuance = a] EXCEPT !.bond = b].decision = row[i].decision
        BY <2>1 DEF RowShape
      <4> QED
        BY <2>2, <4>2, <4>3
    <3> QED
      BY <3>1, <3>2, <3>3
  <2>6. CASE \/ \E j \in Invoices, l \in Links : RequestConfirmation(j, l)
             \/ \E j \in Invoices : Offer(j) \/ Withdraw(j)
    <3>1. PICK j, status : row' = [row EXCEPT ![j] = [row[j] EXCEPT !.status = status]]
      BY <2>6 DEF RequestConfirmation, Offer, Withdraw
    <3>2. [row[i] EXCEPT !.status = status].decision = row[i].decision
      BY <2>1 DEF RowShape
    <3> QED
      BY <2>2, <3>1, <3>2
  <2>7. CASE \E l \in Links, answer \in Answers : Decide(l, answer)
    <3>1. PICK l \in Links, answer \in Answers : Decide(l, answer)
      BY <2>7
    <3> PICK j : j = link[l].invoice
      OBVIOUS
    <3>2. row' = [row EXCEPT ![j].status = answer, ![j].decision = answer] /\ Live(l)
      BY <3>1 DEF Decide
    <3>3. j # i
      BY <3>2 DEF ReceivableInv, AnswersFollow
    <3>4. row'[i] = row[i]
      BY <2>1, <3>2, <3>3
    <3> QED
      BY <3>4
  <2>8. CASE Restart
    <3>1. row'[i] = row[i] \/ \E shown : row'[i] = [row[i] EXCEPT !.issuance = shown]
      BY <2>8 DEF Restart
    <3>2. \A shown : [row[i] EXCEPT !.issuance = shown].decision = row[i].decision
      BY <2>1 DEF RowShape
    <3> QED
      BY <3>1, <3>2
  <2>9. CASE (\E h \in Receivables : AskRegistry(h) \/ ClaimedElsewhere(h)) \/ Crash
    <3>1. UNCHANGED row
      BY <2>9 DEF AskRegistry, ClaimedElsewhere, Crash, store
    <3> QED
      BY <3>1
  <2>10. CASE Work
    <3>1. UNCHANGED row
      BY <2>10 DEF Work, Take, Submit, DeployAnswered, BackoffEnds, ClaimAnswered,
                   ListingAnswered, store
    <3> QED
      BY <3>1
  <2>11. CASE (\E l \in Links : Expire(l)) \/ \E j \in Invoices : TellingEnds(j)
    <3>1. UNCHANGED row
      BY <2>11 DEF Expire, TellingEnds, store
    <3> QED
      BY <3>1
  <2>12. CASE UNCHANGED vars
    BY <2>12 DEF vars, store
  <2> QED
    BY <2>4, <2>5, <2>6, <2>7, <2>8, <2>9, <2>10, <2>11, <2>12 DEF Next
<1> QED
  BY <1>1, ReceivableInvariant, PTL DEF Spec, AnswerStands
=============================================================================

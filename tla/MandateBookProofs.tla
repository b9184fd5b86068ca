------------------------- MODULE MandateBookProofs -------------------------
(* What the book and the registries keep for any number of invoices, bonds, *)
(* mandates, locks and users and for any terms: no evaluation reverts, one  *)
(* receivable is sold once, with diligent sellers and no settler a match    *)
(* whose paper was delivered is never cancelled, and what a mandate has     *)
(* allocated or at stake is the price of its matches.  And what the book    *)
(* and the vault keep between them: every unit is on one side or underway.  *)
EXTENDS TwoLegs, TotalProofs, TLAPS

USE RegistryAssumption, BookAssumption

(* Mandates, without what their two totals are sums of.                     *)
Bids == [buyer : Users \cup {Null}, floor : Grades \cup {0}, tenor : Nat,
         yield : Nat, cap : Nat, committed : Int, allocated : Int,
         status : {"uninitialised", "active", "paused", "closed"}]

Shaped ==
    /\ invoice \in [Invoices -> Invoice]
    /\ now \in Nat
    /\ mandate \in [Mandates -> Bids]
    /\ match \in [MatchIds -> Match]
    /\ matchOf \in [Invoices -> 0..Attempts]
    /\ attempts \in [Invoices -> 0..Attempts]
    /\ lock \in [LockIds -> Lock]

(* Posted terms never discount a whole year away.                           *)
SoundTerms ==
    \A m \in Mandates :
        mandate[m].status # "uninitialised" =>
            mandate[m].yield * mandate[m].tenor < YearBps

(* A listed invoice names a receivable and a bond no other one names.       *)
Listed(i) == invoice[i].status # "unknown"
ListedOnce ==
    \A i \in Invoices : Listed(i) =>
        /\ invoice[i].receivable \in Receivables
        /\ invoice[i].bond \in Bonds
        /\ \A j \in Invoices :
               j # i => /\ invoice[j].receivable # invoice[i].receivable
                        /\ invoice[j].bond # invoice[i].bond

(* A match is of what its invoice was listed with, and the live one of an   *)
(* invoice is the one that holds it.                                        *)
Struck(x) == match[x].status # "uninitialised"
Sold(x) == match[x].status \in {"open", "settled", "matured"}
StruckAsListed ==
    \A x \in MatchIds :
        /\ Struck(x) => /\ Listed(x[1])
                        /\ match[x].mandate \in Mandates
                        /\ x[2] <= attempts[x[1]]
                        /\ match[x].receivable = invoice[x[1]].receivable
                        /\ match[x].bond = invoice[x[1]].bond
        /\ Sold(x) => matchOf[x[1]] = x[2]

BookInv == Shaped /\ SoundTerms /\ ListedOnce /\ StruckAsListed

-----------------------------------------------------------------------------
(* Prices.                                                                  *)

LEMMA Quotients ==
    ASSUME NEW a \in Int, NEW f \in Int, NEW y \in Int, y > 0, a >= 0, a < f * y
    PROVE  a \div y \in Nat /\ a \div y < f
<1>1. a \div y < f
  BY SMTT(60)
<1>2. a \div y \in Int /\ a \div y >= 0
  OBVIOUS
<1> QED
  BY <1>1, <1>2

LEMMA Factors ==
    ASSUME NEW a \in Nat, NEW b \in Nat, NEW c \in Nat, b <= c
    PROVE  a * b \in Nat /\ a * b <= a * c
<1>1. PICK d \in Nat : c = b + d
  <2>1. c - b \in Nat /\ c = b + (c - b)
    OBVIOUS
  <2> QED
    BY <2>1
<1>2. a * c = a * b + a * d /\ a * b \in Nat /\ a * d \in Nat
  BY <1>1
<1> QED
  BY <1>2

LEMMA StrictFactors ==
    ASSUME NEW a \in Nat \ {0}, NEW b \in Nat, NEW c \in Nat, b < c
    PROVE  a * b < a * c
<1>1. PICK d \in Nat : c = b + 1 + d
  <2>1. c - b - 1 \in Nat /\ c = b + 1 + (c - b - 1)
    OBVIOUS
  <2> QED
    BY <2>1
<1>2. a * c = a * b + a + a * d /\ a * b \in Nat /\ a * d \in Nat
  BY <1>1
<1> QED
  BY <1>2

(* What a quotable receivable costs is more than nothing and at most its    *)
(* face.                                                                    *)
LEMMA PriceBounds ==
    ASSUME BookInv, NEW i \in Invoices, NEW m \in Mandates, Quotable(i, m)
    PROVE  Price(i, m) \in Nat \ {0} /\ Tenor(i) \in Nat
<1> DEFINE face == FaceOf[invoice[i].receivable]
           yield == mandate[m].yield
           tenor == Tenor(i)
<1>1. /\ invoice[i].due \in Nat /\ now \in Nat /\ invoice[i].due > now
      /\ invoice[i].receivable \in Receivables
      /\ yield \in Nat /\ mandate[m].tenor \in Nat /\ tenor <= mandate[m].tenor
      /\ yield * mandate[m].tenor < YearBps
  BY DEF BookInv, Shaped, ListedOnce, Listed, SoundTerms, Quotable, Invoice, Bids
<1>2. face \in Nat \ {0}
  BY <1>1
<1>3. tenor \in Nat
  <2>1. invoice[i].due - now + Day - 1 \in Nat
    BY <1>1
  <2> QED
    BY <2>1 DEF Tenor
<1> HIDE DEF face, yield, tenor
<1>4. yield * tenor \in Nat /\ yield * tenor < YearBps
  <2>1. yield * tenor \in Nat /\ yield * tenor <= yield * mandate[m].tenor
    BY <1>1, <1>3, Factors
  <2>2. yield * mandate[m].tenor \in Nat
    BY <1>1
  <2> QED
    BY <1>1, <2>1, <2>2
<1>5. face * yield * tenor \in Nat /\ face * yield * tenor < face * YearBps
  <2>1. face * yield * tenor = face * (yield * tenor)
    BY <1>1, <1>2, <1>3
  <2>2. face * (yield * tenor) \in Nat
    BY <1>2, <1>4
  <2>3. face * (yield * tenor) < face * YearBps
    BY <1>2, <1>4, StrictFactors
  <2> QED
    BY <2>1, <2>2, <2>3
<1>6. Discount(face, tenor, yield) \in Nat /\ Discount(face, tenor, yield) < face
  BY <1>2, <1>5, Quotients DEF Discount
<1>7. Price(i, m) = face - Discount(face, tenor, yield)
  BY DEF Price, face, tenor, yield
<1> QED
  BY <1>2, <1>3, <1>6, <1>7 DEF tenor

(* No preview of a match reverts, however mandates are posted and invoices  *)
(* rated, amended and aged: the subtraction in _evaluate always leaves a    *)
(* price above zero.                                                        *)
LEMMA PreviewSafe == BookInv => PreviewNeverReverts
BY PriceBounds DEF PreviewNeverReverts

-----------------------------------------------------------------------------
(* The inductive invariant.                                                 *)

LEMMA BookInvInit == Init => BookInv
<1> SUFFICES ASSUME Init PROVE BookInv
  OBVIOUS
<1>1. Unlisted \in Invoice /\ Unposted \in Bids /\ Unstruck \in Match /\ NoLock \in Lock
  BY DEF Unlisted, Invoice, InvoiceStatus, Unposted, Bids, Unstruck, Match, NoLock, Lock
<1>2. Shaped
  BY <1>1 DEF Init, RegistryInit, Shaped
<1>3. SoundTerms /\ ListedOnce
  BY DEF Init, RegistryInit, SoundTerms, ListedOnce, Listed, Unposted, Unlisted
<1>4. StruckAsListed
  BY DEF Init, StruckAsListed, Struck, Sold, Unstruck
<1> QED
  BY <1>2, <1>3, <1>4 DEF BookInv

(* What the registries do: an invoice keeps what it was listed with.        *)
LEMMA RegistryStep ==
    ASSUME BookInv, Registered
    PROVE  BookInv'
<1>1. /\ UNCHANGED <<now, mandate, match, matchOf, attempts, lock>>
  <2>1. UNCHANGED now
    BY DEF Registered, BindBond, List, SetStatus, SetRating, AmendDueDate
  <2> QED
    BY <2>1 DEF Registered, bookVars, deliveryVars
<1>2. ASSUME invoice' \in [Invoices -> Invoice], ListedOnce',
             \A i \in Invoices : Listed(i) =>
                 /\ Listed(i)'
                 /\ invoice'[i].receivable = invoice[i].receivable
                 /\ invoice'[i].bond = invoice[i].bond
      PROVE  BookInv'
  <2>1. Shaped'
    BY <1>1, <1>2 DEF BookInv, Shaped
  <2>2. SoundTerms'
    BY <1>1 DEF BookInv, SoundTerms
  <2>3. StruckAsListed'
    BY <1>1, <1>2 DEF BookInv, StruckAsListed, Struck, Sold, MatchIds
  <2> QED
    BY <1>2, <2>1, <2>2, <2>3 DEF BookInv
<1>3. invoice \in [Invoices -> Invoice] /\ ListedOnce
  BY DEF BookInv, Shaped
<1>4. CASE \E h \in Receivables, b \in Bonds : BindBond(h, b)
  <2>1. UNCHANGED invoice
    BY <1>4 DEF BindBond
  <2> QED
    BY <1>2, <1>3, <2>1 DEF ListedOnce, Listed
<1>5. ASSUME NEW i \in Invoices, NEW b \in Bonds, NEW h \in Receivables,
             NEW r \in Grades, NEW d \in DueDates, List(i, b, h, r, d)
      PROVE  BookInv'
  <2> DEFINE new == [status |-> "draft", bond |-> b, receivable |-> h,
                     rating |-> r, due |-> d]
  <2>1. /\ invoice' = [invoice EXCEPT ![i] = new] /\ ~Listed(i)
        /\ \A j \in Invoices : invoice[j].receivable # h /\ invoice[j].bond # b
    BY <1>5 DEF List, ListedUnder, ListedWith, Listed
  <2>2. new \in Invoice /\ new.status = "draft" /\ new.receivable = h /\ new.bond = b
    BY DEF Invoice, InvoiceStatus
  <2> HIDE DEF new
  <2>3. invoice' \in [Invoices -> Invoice]
    BY <1>3, <2>1, <2>2
  <2>4. invoice'[i] = new /\ \A j \in Invoices : j # i => invoice'[j] = invoice[j]
    BY <1>3, <2>1
  <2>5. ListedOnce'
    BY <1>3, <2>1, <2>2, <2>4 DEF ListedOnce, Listed
  <2> QED
    BY <1>2, <2>1, <2>3, <2>4, <2>5 DEF Listed
<1>6. ASSUME NEW i \in Invoices, Listed(i),
             invoice' \in [Invoices -> Invoice], Listed(i)',
             \A j \in Invoices :
                 /\ j # i => invoice'[j] = invoice[j]
                 /\ invoice'[j].receivable = invoice[j].receivable
                 /\ invoice'[j].bond = invoice[j].bond
      PROVE  BookInv'
  <2>1. ListedOnce'
    BY <1>3, <1>6 DEF ListedOnce, Listed
  <2> QED
    BY <1>2, <1>6, <2>1 DEF Listed
<1>7. ASSUME NEW i \in Invoices, NEW s \in Statuses, SetStatus(i, s)
      PROVE  BookInv'
  <2>1. Listed(i) /\ s # "unknown" /\ invoice' = [invoice EXCEPT ![i].status = s]
    BY <1>7 DEF SetStatus, ValidTransitions, Listed
  <2>2. s \in InvoiceStatus
    OBVIOUS
  <2> QED
    BY <1>3, <1>6, <2>1, <2>2 DEF Listed, Invoice
<1>8. ASSUME NEW i \in Invoices, NEW r \in Grades, SetRating(i, r)
      PROVE  BookInv'
  <2>1. Listed(i) /\ invoice' = [invoice EXCEPT ![i].rating = r]
    BY <1>8 DEF SetRating, Listed
  <2> QED
    BY <1>3, <1>6, <2>1 DEF Listed, Invoice
<1>9. ASSUME NEW i \in Invoices, NEW d \in DueDates, AmendDueDate(i, d)
      PROVE  BookInv'
  <2>1. Listed(i) /\ invoice' = [invoice EXCEPT ![i].due = d]
    BY <1>9 DEF AmendDueDate, Listed
  <2> QED
    BY <1>3, <1>6, <2>1 DEF Listed, Invoice
<1> QED
  BY <1>4, <1>5, <1>7, <1>8, <1>9 DEF Registered

(* What leaves invoices and matches alone.                                  *)
LEMMA Kept ==
    ASSUME BookInv, UNCHANGED <<invoice, match, matchOf, attempts>>, now' \in Nat,
           mandate' \in [Mandates -> Bids], SoundTerms', lock' \in [LockIds -> Lock]
    PROVE  BookInv'
<1>1. Shaped'
  BY DEF BookInv, Shaped
<1>2. ListedOnce' /\ StruckAsListed'
  BY DEF BookInv, ListedOnce, Listed, StruckAsListed, Struck, Sold, MatchIds
<1> QED
  BY <1>1, <1>2 DEF BookInv

(* The two totals of a mandate move, and nothing else of it.                *)
LEMMA TotalsMove ==
    ASSUME Shaped, SoundTerms, NEW m \in Mandates, NEW a \in Int, NEW c \in Int,
           mandate' = [mandate EXCEPT ![m] = [@ EXCEPT !.allocated = a, !.committed = c]]
    PROVE  mandate' \in [Mandates -> Bids] /\ SoundTerms'
<1>1. mandate[m] \in Bids
  BY DEF Shaped
<1> DEFINE new == [mandate[m] EXCEPT !.allocated = a, !.committed = c]
<1>2. /\ new \in Bids /\ new.status = mandate[m].status
      /\ new.yield = mandate[m].yield /\ new.tenor = mandate[m].tenor
  BY <1>1 DEF Bids
<1>3. mandate' = [mandate EXCEPT ![m] = new]
  OBVIOUS
<1> HIDE DEF new
<1>4. mandate' \in [Mandates -> Bids]
  BY <1>2, <1>3 DEF Shaped
<1>5. SoundTerms'
  BY <1>2, <1>3 DEF Shaped, SoundTerms
<1> QED
  BY <1>4, <1>5

LEMMA CreditStep ==
    ASSUME BookInv, NEW m \in Mandates, NEW n \in Nat, NEW ref, CreditFunding(m, n, ref)
    PROVE  BookInv'
<1>1. /\ UNCHANGED <<invoice, match, matchOf, attempts, lock>> /\ now' = now
      /\ mandate' = [mandate EXCEPT ![m].committed = @ + n]
  BY DEF CreditFunding, registryVars, deliveryVars
<1>2. Shaped /\ SoundTerms
  BY DEF BookInv
<1>3. mandate[m] \in Bids /\ mandate[m].committed + n \in Int /\ mandate[m].allocated \in Int
  BY <1>2 DEF Shaped, Bids
<1>4. mandate' = [mandate EXCEPT ![m] =
                     [@ EXCEPT !.allocated = mandate[m].allocated,
                               !.committed = mandate[m].committed + n]]
  BY <1>1, <1>2, <1>3 DEF Shaped, Bids
<1>5. mandate' \in [Mandates -> Bids] /\ SoundTerms'
  BY <1>2, <1>3, <1>4, TotalsMove
<1> QED
  BY <1>1, <1>2, <1>5, Kept DEF Shaped

LEMMA BidStep ==
    ASSUME BookInv,
           Credited \/ \E u \in Users, m \in Mandates : Bid(u, m)
    PROVE  BookInv'
<1>1. /\ UNCHANGED <<invoice, match, matchOf, attempts, lock>> /\ now' = now
  BY DEF Bid, Credited, PostMandate, AuthoriseRelease, SetMandateStatus, CreditFunding,
         registryVars, deliveryVars
<1>2. Shaped /\ SoundTerms
  BY DEF BookInv
<1>3. ASSUME mandate' \in [Mandates -> Bids], SoundTerms'
      PROVE  BookInv'
  BY <1>1, <1>2, <1>3, Kept DEF Shaped
<1>4. ASSUME NEW t \in Terms, NEW u \in Users, NEW m \in Mandates,
             PostMandate(u, m, t)
      PROVE  BookInv'
  <2> DEFINE new == [buyer |-> u, floor |-> t.floor, tenor |-> t.tenor, yield |-> t.yield,
                     cap |-> t.cap, committed |-> 0, allocated |-> 0, status |-> "active"]
  <2>1. /\ mandate' = [mandate EXCEPT ![m] = new]
        /\ t.yield * t.tenor < YearBps
    BY <1>4 DEF PostMandate
  <2>2. t \in [floor : Grades, tenor : Nat, yield : Nat, cap : Nat]
    OBVIOUS
  <2>3. new \in Bids /\ new.yield = t.yield /\ new.tenor = t.tenor
    BY <2>2 DEF Bids
  <2> HIDE DEF new
  <2>4. mandate' \in [Mandates -> Bids] /\ SoundTerms'
    BY <1>2, <2>1, <2>3 DEF Shaped, SoundTerms
  <2> QED
    BY <1>3, <2>4
<1>5. ASSUME NEW n \in Amounts, NEW u \in Users, NEW m \in Mandates,
             AuthoriseRelease(u, m, n)
      PROVE  BookInv'
  <2>1. mandate[m] \in Bids /\ mandate[m].committed - n \in Int
    BY <1>2 DEF Shaped, Bids
  <2>2. mandate' = [mandate EXCEPT ![m] =
                       [@ EXCEPT !.allocated = mandate[m].allocated,
                                 !.committed = mandate[m].committed - n]]
    BY <1>2, <1>5, <2>1 DEF AuthoriseRelease, Shaped, Bids
  <2>3. mandate[m].allocated \in Int
    BY <2>1 DEF Bids
  <2> QED
    BY <1>2, <1>3, <2>1, <2>2, <2>3, TotalsMove
<1>6. ASSUME NEW s \in {"active", "paused", "closed"},
             NEW u \in Users, NEW m \in Mandates, SetMandateStatus(u, m, s)
      PROVE  BookInv'
  <2>1. mandate[m].status # "uninitialised" /\ mandate' = [mandate EXCEPT ![m].status = s]
    BY <1>6 DEF SetMandateStatus
  <2>2. mandate' \in [Mandates -> Bids]
    BY <1>2, <2>1 DEF Shaped, Bids
  <2>3. SoundTerms'
    BY <1>2, <2>1 DEF Shaped, SoundTerms
  <2> QED
    BY <1>3, <2>2, <2>3
<1>7. ASSUME NEW m \in Mandates, NEW n \in Amounts, NEW ref \in Refs,
             CreditFunding(m, n, ref)
      PROVE  BookInv'
  BY <1>7, CreditStep
<1> QED
  BY <1>4, <1>5, <1>6, <1>7 DEF Bid, Credited

(* A new match takes an invoice nothing holds.                              *)
LEMMA MatchStep ==
    ASSUME BookInv, NEW i \in Invoices, NEW m \in Mandates, MatchInvoice(i, m)
    PROVE  BookInv'
<1> DEFINE x == <<i, attempts[i] + 1>>
           price == Price(i, m)
           new == [status |-> "open", mandate |-> m, receivable |-> invoice[i].receivable,
                   bond |-> invoice[i].bond, buyer |-> mandate[m].buyer, price |-> price,
                   tenor |-> Tenor(i), at |-> now]
<1>1. Shaped /\ SoundTerms /\ ListedOnce /\ StruckAsListed
  BY DEF BookInv
<1>2. /\ attempts[i] < Attempts /\ Quotable(i, m)
      /\ attempts' = [attempts EXCEPT ![i] = @ + 1]
      /\ mandate' = [mandate EXCEPT ![m].allocated = @ + price]
      /\ matchOf' = [matchOf EXCEPT ![i] = attempts[i] + 1]
      /\ match' = [match EXCEPT ![x] = new]
      /\ UNCHANGED <<invoice, now, lock>>
  BY DEF MatchInvoice, Evaluates, registryVars, deliveryVars
<1>3. /\ matchOf[i] = 0 /\ Listed(i)
      /\ mandate[m].status # "uninitialised"
  BY <1>2 DEF Quotable, Listed
<1>4. price \in Nat /\ Tenor(i) \in Nat
  BY <1>2, PriceBounds
<1>5. attempts[i] \in Nat /\ attempts[i] + 1 \in 1..Attempts /\ x \in MatchIds
  BY <1>1, <1>2 DEF Shaped, MatchIds
<1>6. new \in Match
  <2>1. invoice[i] \in Invoice /\ mandate[m] \in Bids /\ now \in Nat
    BY <1>1 DEF Shaped
  <2> QED
    BY <1>4, <2>1 DEF Match, Invoice, Bids
<1>7. mandate' \in [Mandates -> Bids] /\ SoundTerms'
  <2>1. mandate[m] \in Bids /\ mandate[m].allocated + price \in Int
        /\ mandate[m].committed \in Int
    BY <1>1, <1>4 DEF Shaped, Bids
  <2>2. mandate' = [mandate EXCEPT ![m] =
                       [@ EXCEPT !.allocated = mandate[m].allocated + price,
                                 !.committed = mandate[m].committed]]
    BY <1>1, <1>2, <2>1 DEF Shaped, Bids
  <2> QED
    BY <1>1, <2>1, <2>2, TotalsMove
<1>8. new.status = "open" /\ new.mandate = m /\ new.receivable = invoice[i].receivable
      /\ new.bond = invoice[i].bond
  OBVIOUS
<1>9. x[1] = i /\ x[2] = attempts[i] + 1
  OBVIOUS
<1> HIDE DEF x, new, price
<1>10. Shaped'
  BY <1>1, <1>2, <1>5, <1>6, <1>7 DEF Shaped
<1>11. ListedOnce'
  BY <1>1, <1>2 DEF ListedOnce, Listed
<1>12. StruckAsListed'
  <2> SUFFICES ASSUME NEW y \in MatchIds
               PROVE  /\ Struck(y)' => /\ Listed(y[1])'
                                       /\ match'[y].mandate \in Mandates
                                       /\ y[2] <= attempts'[y[1]]
                                       /\ match'[y].receivable = invoice'[y[1]].receivable
                                       /\ match'[y].bond = invoice'[y[1]].bond
                      /\ Sold(y)' => matchOf'[y[1]] = y[2]
    BY DEF StruckAsListed
  <2>1. y[1] \in Invoices /\ y[2] \in 1..Attempts
    BY DEF MatchIds
  <2>2. CASE y = x
    <3>1. match'[y] = new /\ attempts'[i] = attempts[i] + 1 /\ matchOf'[i] = attempts[i] + 1
      BY <1>1, <1>2, <1>5, <2>2 DEF Shaped
    <3> QED
      BY <1>2, <1>3, <1>5, <1>8, <1>9, <2>2, <3>1 DEF Listed
  <2>3. CASE y # x
    <3>1. match'[y] = match[y]
      BY <1>1, <1>2, <1>5, <2>3 DEF Shaped
    <3>2. attempts[y[1]] <= attempts'[y[1]] /\ attempts[y[1]] \in Nat /\ attempts'[y[1]] \in Nat
      BY <1>1, <1>2, <1>5, <2>1 DEF Shaped
    <3>3. Sold(y) => y[1] # i
      BY <1>1, <1>3, <2>1 DEF StruckAsListed
    <3>4. y[1] # i => matchOf'[y[1]] = matchOf[y[1]]
      BY <1>1, <1>2, <2>1 DEF Shaped
    <3> QED
      BY <1>1, <1>2, <2>1, <3>1, <3>2, <3>3, <3>4 DEF StruckAsListed, Struck, Sold, Listed
  <2> QED
    BY <2>2, <2>3
<1> QED
  BY <1>7, <1>10, <1>11, <1>12 DEF BookInv

(* A struck match moves on: its status changes and nothing else of it.      *)
LEMMA StatusStep ==
    ASSUME BookInv, NEW x \in MatchIds, Struck(x),
           NEW s \in {"open", "settled", "cancelled", "matured"},
           match' = [match EXCEPT ![x].status = s],
           mandate' \in [Mandates -> Bids], SoundTerms',
           UNCHANGED <<invoice, now, attempts, lock>>,
           \/ s = "cancelled" /\ Sold(x) /\ matchOf' = [matchOf EXCEPT ![x[1]] = 0]
           \/ s # "cancelled" /\ Sold(x) /\ UNCHANGED matchOf
    PROVE  BookInv'
<1>1. Shaped /\ ListedOnce /\ StruckAsListed
  BY DEF BookInv
<1>2. x[1] \in Invoices /\ x[2] \in 1..Attempts
  BY DEF MatchIds
<1>3. match' \in [MatchIds -> Match]
  BY <1>1 DEF Shaped, Match
<1>4. matchOf' \in [Invoices -> 0..Attempts]
  BY <1>1, <1>2 DEF Shaped
<1>5. Shaped'
  BY <1>1, <1>3, <1>4 DEF Shaped
<1>6. ListedOnce'
  BY <1>1 DEF ListedOnce, Listed
<1>7. /\ match'[x].status = s
      /\ \A y \in MatchIds : /\ match'[y].mandate = match[y].mandate
                             /\ match'[y].receivable = match[y].receivable
                             /\ match'[y].bond = match[y].bond
                             /\ y # x => match'[y] = match[y]
  BY <1>1 DEF Shaped, Match
<1>8. StruckAsListed'
  <2> SUFFICES ASSUME NEW y \in MatchIds
               PROVE  /\ Struck(y)' => /\ Listed(y[1])'
                                       /\ match'[y].mandate \in Mandates
                                       /\ y[2] <= attempts'[y[1]]
                                       /\ match'[y].receivable = invoice'[y[1]].receivable
                                       /\ match'[y].bond = invoice'[y[1]].bond
                      /\ Sold(y)' => matchOf'[y[1]] = y[2]
    BY DEF StruckAsListed
  <2>1. Struck(y)' => Struck(y)
    BY <1>7 DEF Struck
  <2>2. Sold(y)' => matchOf'[y[1]] = y[2]
    <3> SUFFICES ASSUME Sold(y)' PROVE matchOf'[y[1]] = y[2]
      OBVIOUS
    <3>1. Sold(y)
      <4>1. CASE y = x
        BY <4>1
      <4>2. CASE y # x
        BY <1>7, <4>2 DEF Sold
      <4> QED
        BY <4>1, <4>2
    <3>2. matchOf[y[1]] = y[2]
      BY <1>1, <3>1 DEF StruckAsListed
    <3>3. CASE UNCHANGED matchOf
      BY <3>2, <3>3
    <3>4. CASE s = "cancelled" /\ Sold(x) /\ matchOf' = [matchOf EXCEPT ![x[1]] = 0]
      <4>1. y # x
        BY <1>7, <3>4 DEF Sold
      <4>2. matchOf[x[1]] = x[2]
        BY <1>1, <3>4 DEF StruckAsListed
      <4>3. y[1] # x[1]
        BY <3>2, <4>1, <4>2 DEF MatchIds
      <4> QED
        BY <1>1, <3>2, <3>4, <4>3 DEF Shaped, MatchIds
    <3> QED
      BY <3>3, <3>4
  <2> QED
    BY <1>1, <1>7, <2>1, <2>2 DEF StruckAsListed, Listed
<1> QED
  BY <1>5, <1>6, <1>8 DEF BookInv

LEMMA SettleStep ==
    ASSUME BookInv, NEW x \in MatchIds, Settle(x)
    PROVE  BookInv'
<1> DEFINE m == match[x].mandate
           price == match[x].price
<1>1. Shaped /\ SoundTerms /\ StruckAsListed
  BY DEF BookInv
<1>2. ASSUME Struck(x)
      PROVE  /\ m \in Mandates /\ price \in Nat /\ mandate[m] \in Bids
             /\ mandate[m].allocated \in Int /\ mandate[m].committed \in Int
  BY <1>1, <1>2 DEF Shaped, StruckAsListed, Match, Bids
<1> HIDE DEF m, price
<1>3. ASSUME NEW l \in LockIds, ConfirmSettlement(x, l)
      PROVE  BookInv'
  <2>1. /\ Struck(x) /\ Sold(x) /\ match' = [match EXCEPT ![x].status = "settled"]
        /\ mandate' = [mandate EXCEPT ![m].allocated = @ - price,
                                      ![m].committed = @ - price]
        /\ UNCHANGED <<invoice, now, attempts, lock, matchOf>>
    BY <1>3 DEF ConfirmSettlement, Struck, Sold, m, price, registryVars, deliveryVars
  <2>2. mandate' = [mandate EXCEPT ![m] =
                       [@ EXCEPT !.allocated = mandate[m].allocated - price,
                                 !.committed = mandate[m].committed - price]]
    BY <1>1, <1>2, <2>1 DEF Shaped, Bids
  <2>3. /\ m \in Mandates
        /\ mandate[m].allocated - price \in Int /\ mandate[m].committed - price \in Int
    BY <1>2, <2>1
  <2>4. mandate' \in [Mandates -> Bids] /\ SoundTerms'
    BY <1>1, <2>2, <2>3, TotalsMove
  <2> QED
    BY <2>1, <2>4, StatusStep
<1>4. ASSUME NEW u \in Users, CancelMatch(u, x)
      PROVE  BookInv'
  <2>1. /\ Struck(x) /\ Sold(x) /\ match' = [match EXCEPT ![x].status = "cancelled"]
        /\ mandate' = [mandate EXCEPT ![m].allocated = @ - price]
        /\ matchOf' = [matchOf EXCEPT ![x[1]] = 0]
        /\ UNCHANGED <<invoice, now, attempts, lock>>
    BY <1>4 DEF CancelMatch, Struck, Sold, m, price, registryVars, deliveryVars
  <2>2. mandate' = [mandate EXCEPT ![m] =
                       [@ EXCEPT !.allocated = mandate[m].allocated - price,
                                 !.committed = mandate[m].committed]]
    BY <1>1, <1>2, <2>1 DEF Shaped, Bids
  <2>3. m \in Mandates /\ mandate[m].allocated - price \in Int /\ mandate[m].committed \in Int
    BY <1>2, <2>1
  <2>4. mandate' \in [Mandates -> Bids] /\ SoundTerms'
    BY <1>1, <2>2, <2>3, TotalsMove
  <2> QED
    BY <2>1, <2>4, StatusStep
<1>5. ASSUME NEW h \in Users \cup {Escrow}, ConfirmMaturity(x, h)
      PROVE  BookInv'
  <2>1. /\ Struck(x) /\ Sold(x) /\ match' = [match EXCEPT ![x].status = "matured"]
        /\ UNCHANGED <<invoice, now, attempts, lock, matchOf, mandate>>
    BY <1>5 DEF ConfirmMaturity, Struck, Sold, registryVars, deliveryVars
  <2>2. mandate' \in [Mandates -> Bids] /\ SoundTerms'
    BY <1>1, <2>1 DEF Shaped, SoundTerms
  <2> QED
    BY <2>1, <2>2, StatusStep
<1> QED
  BY <1>3, <1>4, <1>5 DEF Settle

LEMMA DeliverStep ==
    ASSUME BookInv, NEW u \in Users, Deliver(u)
    PROVE  BookInv'
<1>1. Shaped /\ SoundTerms
  BY DEF BookInv
<1>2. UNCHANGED <<invoice, match, matchOf, attempts, mandate, now>>
  BY DEF Deliver, OpenLock, ClaimLock, RefundLock, TransferPaper, registryVars, bookVars
<1>3. lock' \in [LockIds -> Lock]
  <2>1. ASSUME NEW l \in LockIds, NEW b \in Bonds, NEW ref \in MatchIds,
               NEW k \in {"delivery", "payment"}, NEW v \in Users,
               NEW t \in now..(now + MaxLock), OpenLock(u, l, b, ref, k, v, t)
        PROVE  lock' \in [LockIds -> Lock]
    <3>1. t \in Nat
      BY <1>1 DEF Shaped
    <3>2. lock' = [lock EXCEPT ![l] =
                      [status |-> "locked", ref |-> ref, kind |-> k, bond |-> b,
                       depositor |-> u, beneficiary |-> v, timeout |-> t]]
      BY <2>1 DEF OpenLock
    <3> QED
      BY <1>1, <3>1, <3>2 DEF Shaped, Lock
  <2>2. ASSUME NEW l \in LockIds, ClaimLock(u, l) \/ RefundLock(u, l)
        PROVE  lock' \in [LockIds -> Lock]
    <3>1. PICK s \in {"claimed", "refunded"} : lock' = [lock EXCEPT ![l].status = s]
      BY <2>2 DEF ClaimLock, RefundLock
    <3>2. lock[l] \in Lock
      BY <1>1 DEF Shaped
    <3>3. [lock[l] EXCEPT !.status = s] \in Lock
      BY <3>2 DEF Lock
    <3>4. lock' = [lock EXCEPT ![l] = [lock[l] EXCEPT !.status = s]]
      BY <1>1, <3>1 DEF Shaped
    <3> QED
      BY <1>1, <3>3, <3>4 DEF Shaped
  <2>3. ASSUME NEW b \in Bonds, NEW v \in Users, TransferPaper(u, b, v)
        PROVE  lock' \in [LockIds -> Lock]
    BY <1>1, <2>3 DEF TransferPaper, Shaped
  <2> QED
    BY <2>1, <2>2, <2>3 DEF Deliver
<1>4. now' \in Nat /\ mandate' \in [Mandates -> Bids] /\ SoundTerms'
  BY <1>1, <1>2 DEF Shaped, SoundTerms
<1> QED
  BY <1>2, <1>3, <1>4, Kept

LEMMA TickStep ==
    ASSUME BookInv, Tick
    PROVE  BookInv'
<1>1. Shaped /\ SoundTerms
  BY DEF BookInv
<1>2. UNCHANGED <<invoice, match, matchOf, attempts, mandate, lock>> /\ now' = now + 1
  BY DEF Tick, registryVars, bookVars, deliveryVars
<1>3. now' \in Nat /\ mandate' \in [Mandates -> Bids] /\ SoundTerms'
      /\ lock' \in [LockIds -> Lock]
  BY <1>1, <1>2 DEF Shaped, SoundTerms
<1> QED
  BY <1>2, <1>3, Kept

LEMMA BookInvStep == BookInv /\ [Next]_vars => BookInv'
<1> SUFFICES ASSUME BookInv, [Next]_vars PROVE BookInv'
  OBVIOUS
<1>1. CASE Registered
  BY <1>1, RegistryStep
<1>2. ASSUME NEW u \in Users, NEW m \in Mandates, Bid(u, m)
      PROVE  BookInv'
  BY <1>2, BidStep
<1>3. ASSUME NEW i \in Invoices, NEW m \in Mandates, MatchInvoice(i, m)
      PROVE  BookInv'
  BY <1>3, MatchStep
<1>4. ASSUME NEW x \in MatchIds, Settle(x)
      PROVE  BookInv'
  BY <1>4, SettleStep
<1>5. ASSUME NEW u \in Users, Deliver(u)
      PROVE  BookInv'
  BY <1>5, DeliverStep
<1>6. CASE Tick
  BY <1>6, TickStep
<1>7. CASE Credited
  BY <1>7, BidStep
<1>8. CASE UNCHANGED vars
  BY <1>8 DEF vars, BookInv, Shaped, SoundTerms, ListedOnce, Listed, StruckAsListed,
              Struck, Sold
<1> QED
  BY <1>1, <1>2, <1>3, <1>4, <1>5, <1>6, <1>7, <1>8 DEF Next, Step

(* What every other fact rests on: capital is committed within terms, every *)
(* match is struck as its invoice was listed, and a receivable or a bond    *)
(* that is open or sold is so under one match.                              *)
THEOREM BookInvAlways == Spec => []BookInv
BY BookInvInit, BookInvStep, PTL DEF Spec

-----------------------------------------------------------------------------
(* Evaluating a match never reverts, whatever the terms, dates and ratings: *)
(* what passes _evaluate's tenor check is priced above zero.                *)
THEOREM PreviewTotal == Spec => []PreviewNeverReverts
BY BookInvAlways, PreviewSafe, PTL

LEMMA SoldOnce == BookInv => OneSalePerReceivable
<1> SUFFICES ASSUME BookInv, NEW x \in MatchIds, NEW y \in MatchIds, Sold(x), Sold(y),
                    match[x].bond = match[y].bond \/ match[x].receivable = match[y].receivable
             PROVE  x = y
  BY DEF OneSalePerReceivable, Sold
<1>1. Struck(x) /\ Struck(y)
  BY DEF Struck, Sold
<1>2. x[1] \in Invoices /\ y[1] \in Invoices
  BY DEF MatchIds
<1>3. x[1] = y[1]
  BY <1>1, <1>2 DEF BookInv, StruckAsListed, ListedOnce
<1>4. x[2] = y[2]
  BY <1>3 DEF BookInv, StruckAsListed
<1> QED
  BY <1>3, <1>4 DEF MatchIds

(* However an invoice is listed, matched, cancelled and matched again, at   *)
(* most one match of its receivable or its bond is open, settled or matured.*)
THEOREM OneSale == Spec => []OneSalePerReceivable
BY BookInvAlways, SoldOnce, PTL

-----------------------------------------------------------------------------
(* The window.  With diligent sellers and no settler, a lock for a match is *)
(* one its seller opened while it was open, and ends within its window; a   *)
(* delivery still open is younger than its lock; and a match is cancelled   *)
(* after its window, undelivered.                                           *)
Lent(l, x) ==
    lock[l].status # "none" /\ lock[l].ref = x /\ lock[l].depositor \in Sellers

InTime(l, x) ==
    /\ Lent(l, x) => /\ Struck(x)
                     /\ lock[l].timeout <= match[x].at + SettlementWindow
    /\ Delivered(x, l) => now < lock[l].timeout
    /\ match[x].status = "cancelled" =>
           /\ now >= match[x].at + SettlementWindow
           /\ ~Proves(l, x)

Deadlines == \A l \in LockIds, x \in MatchIds : InTime(l, x)

(* A proof of a match comes from a lock its seller opened.                  *)
LEMMA ProofsAreLent ==
    ASSUME BookInv, NEW l \in LockIds, NEW x \in MatchIds, Struck(x), Proves(l, x)
    PROVE  Lent(l, x)
<1>1. match[x].receivable \in Receivables
  BY DEF BookInv, StruckAsListed, ListedOnce, MatchIds
<1> QED
  BY <1>1 DEF Proves, Lent, Sellers

LEMMA DeadlinesInit == Init => Deadlines
BY DEF Init, RegistryInit, Deadlines, InTime, Lent, Delivered, Proves, Unstruck, NoLock

(* What touches neither locks nor the clock nor the match.                  *)
LEMMA InTimeKept ==
    ASSUME NEW l \in LockIds, NEW x \in MatchIds, InTime(l, x),
           lock'[l] = lock[l], match'[x] = match[x], now' = now
    PROVE  InTime(l, x)'
BY DEF InTime, Lent, Struck, Delivered, Proves

(* A fresh match: no lock of a seller is for it yet.                        *)
LEMMA MatchInTime ==
    ASSUME BookInv, Deadlines, NEW i \in Invoices, NEW m \in Mandates, MatchInvoice(i, m),
           BookInv', NEW l \in LockIds, NEW x \in MatchIds
    PROVE  InTime(l, x)'
<1> DEFINE y == <<i, attempts[i] + 1>>
<1>1. /\ lock' = lock /\ now' = now
      /\ \A z \in MatchIds : z # y => match'[z] = match[z]
  BY DEF MatchInvoice, registryVars, deliveryVars, BookInv, Shaped
<1>2. CASE x # y
  BY <1>1, <1>2, InTimeKept DEF Deadlines
<1>3. CASE x = y
  <2>1. ~Struck(x)
    <3>1. attempts[i] \in Nat /\ x[1] = i /\ x[2] = attempts[i] + 1
      BY <1>3 DEF BookInv, Shaped
    <3> QED
      BY <3>1 DEF BookInv, StruckAsListed
  <2>2. ~Lent(l, x)'
    BY <1>1, <2>1 DEF Deadlines, InTime, Lent
  <2>3. match'[x].status = "open"
    BY <1>3 DEF MatchInvoice, BookInv, Shaped
  <2>4. Struck(x)'
    BY <2>3 DEF Struck
  <2>5. ~Proves(l, x)'
    <3>1. match'[x].receivable \in Receivables
      BY <2>4 DEF BookInv, StruckAsListed, ListedOnce, MatchIds
    <3> QED
      BY <2>2, <3>1 DEF Proves, Lent, Sellers
  <2> QED
    BY <2>2, <2>3, <2>5 DEF InTime, Delivered
<1> QED
  BY <1>2, <1>3

(* A match is confirmed, cancelled or matured; only a cancellation has to   *)
(* be in time.                                                              *)
LEMMA SettleInTime ==
    ASSUME Settlers = {}, BookInv, Deadlines, NEW y \in MatchIds, Settle(y),
           NEW l \in LockIds, NEW x \in MatchIds
    PROVE  InTime(l, x)'
<1>1. PICK s \in {"settled", "cancelled", "matured"} :
          /\ match' = [match EXCEPT ![y].status = s]
          /\ Struck(y)
          /\ s = "cancelled" => WindowElapsed(y) /\ match[y].status = "open"
          /\ lock' = lock /\ now' = now
  BY DEF Settle, ConfirmSettlement, CancelMatch, ConfirmMaturity, Struck, registryVars,
         deliveryVars
<1>2. CASE x # y
  BY <1>1, <1>2, InTimeKept DEF Deadlines, BookInv, Shaped
<1>3. CASE x = y
  <2>1. /\ match'[x].status = s /\ match'[x].at = match[x].at
        /\ match'[x].receivable = match[x].receivable
        /\ match'[x].buyer = match[x].buyer /\ match'[x].bond = match[x].bond
    BY <1>1, <1>3 DEF BookInv, Shaped, Match
  <2>2. Lent(l, x)' <=> Lent(l, x)
    BY <1>1 DEF Lent
  <2>3. Proves(l, x)' <=> Proves(l, x)
    BY <1>1, <2>1 DEF Proves
  <2>4. /\ lock[l].timeout \in Nat /\ match[x].at \in Nat /\ now \in Nat
    BY DEF BookInv, Shaped, Lock, Match
  <2>5. InTime(l, x) /\ Struck(x)
    BY <1>1, <1>3 DEF Deadlines
  <2>6. ASSUME s = "cancelled"
        PROVE  now >= match[x].at + SettlementWindow /\ ~Proves(l, x)
    <3>1. WindowElapsed(x) /\ match[x].status = "open"
      BY <1>1, <1>3, <2>6
    <3>2. Proves(l, x) => /\ now < lock[l].timeout
                          /\ lock[l].timeout <= match[x].at + SettlementWindow
      BY <2>5, <3>1, ProofsAreLent DEF InTime, Delivered
    <3> QED
      BY <2>4, <3>1, <3>2 DEF WindowElapsed
  <2>7. ~Delivered(x, l)'
    BY <2>1 DEF Delivered
  <2> QED
    BY <1>1, <2>1, <2>2, <2>3, <2>5, <2>6, <2>7 DEF InTime, Struck
<1> QED
  BY <1>2, <1>3

LEMMA DeliverInTime ==
    ASSUME Diligent, BookInv, Deadlines, NEW u \in Users, Deliver(u),
           NEW l \in LockIds, NEW x \in MatchIds
    PROVE  InTime(l, x)'
<1>1. UNCHANGED <<match, now>>
  BY DEF Deliver, OpenLock, ClaimLock, RefundLock, TransferPaper, registryVars, bookVars
<1>2. /\ lock \in [LockIds -> Lock] /\ InTime(l, x)
      /\ lock[l] \in Lock /\ match[x].at \in Nat /\ now \in Nat
  BY DEF BookInv, Shaped, Deadlines, Match
<1>3. CASE lock'[l] = lock[l]
  BY <1>1, <1>2, <1>3, InTimeKept
<1>4. ASSUME NEW b \in Bonds, NEW ref \in MatchIds,
             NEW k \in {"delivery", "payment"}, NEW v \in Users,
             NEW t \in now..(now + MaxLock), OpenLock(u, l, b, ref, k, v, t)
      PROVE  InTime(l, x)'
  <2>1. /\ lock'[l] = [status |-> "locked", ref |-> ref, kind |-> k, bond |-> b,
                       depositor |-> u, beneficiary |-> v, timeout |-> t]
        /\ lock[l].status = "none" /\ Careful(u, ref, t)
    BY <1>2, <1>4 DEF OpenLock
  <2>2. ~Proves(l, x)' /\ ~Delivered(x, l)'
    BY <2>1 DEF Proves, Delivered
  <2>3. Lent(l, x)' => /\ match[x].status = "open"
                       /\ t <= match[x].at + SettlementWindow
    BY <2>1 DEF Lent, Careful
  <2> QED
    BY <1>1, <1>2, <2>1, <2>2, <2>3 DEF InTime, Struck
<1>5. ASSUME ClaimLock(u, l)
      PROVE  InTime(l, x)'
  <2>1. /\ lock'[l] = [lock[l] EXCEPT !.status = "claimed"]
        /\ lock[l].status = "locked" /\ now < lock[l].timeout
    BY <1>2, <1>5 DEF ClaimLock
  <2>2. /\ lock'[l].timeout = lock[l].timeout /\ lock'[l].ref = lock[l].ref
        /\ lock'[l].depositor = lock[l].depositor
    BY <1>2, <2>1 DEF Lock
  <2>3. Lent(l, x)' => Lent(l, x)
    BY <2>1, <2>2 DEF Lent
  <2>4. ASSUME match[x].status = "cancelled"
        PROVE  ~Proves(l, x)'
    <3>1. Struck(x) /\ now >= match[x].at + SettlementWindow
      BY <1>2, <2>4 DEF InTime, Struck
    <3>2. ~Lent(l, x)
      <4>1. lock[l].timeout \in Nat
        BY <1>2 DEF Lock
      <4> QED
        BY <1>2, <2>1, <3>1, <4>1 DEF InTime
    <3>3. match[x].receivable \in Receivables
      BY <3>1 DEF BookInv, StruckAsListed, ListedOnce, MatchIds
    <3> QED
      BY <1>1, <2>3, <3>2, <2>1, <2>2, <3>3 DEF Proves, Lent, Sellers
  <2> QED
    BY <1>1, <1>2, <2>1, <2>2, <2>3, <2>4 DEF InTime, Struck
<1>6. ASSUME RefundLock(u, l)
      PROVE  InTime(l, x)'
  <2>1. /\ lock'[l] = [lock[l] EXCEPT !.status = "refunded"]
        /\ lock[l].status = "locked"
    BY <1>2, <1>6 DEF RefundLock
  <2>2. /\ lock'[l].timeout = lock[l].timeout /\ lock'[l].ref = lock[l].ref
        /\ lock'[l].depositor = lock[l].depositor /\ lock'[l].status = "refunded"
    BY <1>2, <2>1 DEF Lock
  <2>3. (Lent(l, x)' => Lent(l, x)) /\ ~Proves(l, x)' /\ ~Delivered(x, l)'
    BY <2>1, <2>2 DEF Lent, Proves, Delivered
  <2> QED
    BY <1>1, <1>2, <2>2, <2>3 DEF InTime, Struck
<1>7. \/ lock'[l] = lock[l]
      \/ \E b \in Bonds, ref \in MatchIds, k \in {"delivery", "payment"}, v \in Users,
            t \in now..(now + MaxLock) : OpenLock(u, l, b, ref, k, v, t)
      \/ ClaimLock(u, l) \/ RefundLock(u, l)
  <2>1. ASSUME NEW o \in LockIds, o # l,
               \/ \E b \in Bonds, ref \in MatchIds, k \in {"delivery", "payment"},
                     v \in Users, t \in now..(now + MaxLock) :
                         OpenLock(u, o, b, ref, k, v, t)
               \/ ClaimLock(u, o) \/ RefundLock(u, o)
        PROVE  lock'[l] = lock[l]
    BY <1>2, <2>1 DEF OpenLock, ClaimLock, RefundLock
  <2>2. (\E b \in Bonds, v \in Users : TransferPaper(u, b, v)) => lock' = lock
    BY DEF TransferPaper
  <2> QED
    BY <2>1, <2>2 DEF Deliver
<1> QED
  BY <1>3, <1>4, <1>5, <1>6, <1>7

LEMMA TickInTime ==
    ASSUME Diligent, BookInv, Deadlines, Tick, NEW l \in LockIds, NEW x \in MatchIds
    PROVE  InTime(l, x)'
<1>1. /\ UNCHANGED <<match, lock>> /\ now' = now + 1 /\ ~Delivered(x, l)
  BY DEF Tick, bookVars, deliveryVars
<1>2. now \in Nat /\ match[x].at \in Nat /\ InTime(l, x)
  BY DEF BookInv, Shaped, Match, Deadlines
<1>3. ~Delivered(x, l)'
  BY <1>1 DEF Delivered, Proves
<1> QED
  BY <1>1, <1>2, <1>3 DEF InTime, Lent, Struck, Proves

LEMMA DeadlinesStep ==
    ASSUME Diligent, Settlers = {}
    PROVE  BookInv /\ BookInv' /\ Deadlines /\ [Next]_vars => Deadlines'
<1> SUFFICES ASSUME BookInv, BookInv', Deadlines, [Next]_vars,
                    NEW l \in LockIds, NEW x \in MatchIds
             PROVE  InTime(l, x)'
  BY DEF Deadlines
<1>1. CASE UNCHANGED <<match, lock, now>>
  BY <1>1, InTimeKept DEF Deadlines
<1>2. CASE Registered
  <2>1. UNCHANGED <<match, lock, now>>
    BY <1>2 DEF Registered, BindBond, List, SetStatus, SetRating, AmendDueDate,
                bookVars, deliveryVars
  <2> QED
    BY <1>1, <2>1
<1>3. ASSUME Credited \/ \E u \in Users, m \in Mandates : Bid(u, m)
      PROVE  InTime(l, x)'
  <2>1. UNCHANGED <<match, lock, now>>
    BY <1>3 DEF Bid, Credited, PostMandate, AuthoriseRelease, SetMandateStatus,
                CreditFunding, registryVars, deliveryVars
  <2> QED
    BY <1>1, <2>1
<1>4. ASSUME NEW i \in Invoices, NEW m \in Mandates, MatchInvoice(i, m)
      PROVE  InTime(l, x)'
  BY <1>4, MatchInTime
<1>5. ASSUME NEW y \in MatchIds, Settle(y)
      PROVE  InTime(l, x)'
  BY <1>5, SettleInTime
<1>6. ASSUME NEW u \in Users, Deliver(u)
      PROVE  InTime(l, x)'
  BY <1>6, DeliverInTime
<1>7. CASE Tick
  BY <1>7, TickInTime
<1>8. CASE UNCHANGED vars
  BY <1>1, <1>8 DEF vars
<1> QED
  BY <1>2, <1>3, <1>4, <1>5, <1>6, <1>7, <1>8 DEF Next, Step

(* cancelMatch against the lock windows: with no settler, and sellers who   *)
(* lock within the window and confirm at once, capital goes back to a       *)
(* mandate only when its buyer did not get the paper, however long windows  *)
(* and locks are and however many matches are struck.                       *)
THEOREM CancelsUndelivered ==
    ASSUME Diligent, Settlers = {}
    PROVE  Spec => []CancelledMeansUndelivered
<1>1. Deadlines => CancelledMeansUndelivered
  BY DEF Deadlines, InTime, CancelledMeansUndelivered
<1> QED
  BY <1>1, DeadlinesInit, DeadlinesStep, BookInvAlways, PTL DEF Spec

-----------------------------------------------------------------------------
(* The totals of a mandate.                                                 *)

Posted(m) == mandate[m].status # "uninitialised"
Open(m) == Held(m, {"open"})

(* A match is struck on a posted mandate, so a mandate that is posted has   *)
(* nothing allocated or at stake to begin with.                             *)
StruckOnPosted == \A x \in MatchIds : Struck(x) => Posted(match[x].mandate)

Sums ==
    /\ exposure \in [Mandates -> [Debtors -> Int]]
    /\ StruckOnPosted /\ AllocatedIsOpen /\ ExposureExact

LEMMA MatchesFinite ==
    ASSUME NEW S \in SUBSET MatchIds
    PROVE  IsFiniteSet(S)
<1>1. IsFiniteSet(1..Attempts)
  BY FS_Interval
<1>2. IsFiniteSet(MatchIds)
  BY <1>1, FS_Product, FiniteBook DEF MatchIds
<1> QED
  BY <1>2, FS_Subset

LEMMA PricesTyped ==
    ASSUME BookInv, NEW x \in MatchIds
    PROVE  match[x] \in Match /\ match[x].price \in Nat /\ PriceOf[x] = match[x].price
<1>1. match[x] \in Match
  BY DEF BookInv, Shaped
<1> QED
  BY <1>1 DEF Match, PriceOf

(* One match moves, and a sum over matches by what it was and is in it.     *)
LEMMA SumMoves ==
    ASSUME BookInv, BookInv', NEW x \in MatchIds,
           \A y \in MatchIds \ {x} : match'[y] = match[y],
           NEW S \in SUBSET MatchIds, NEW T \in SUBSET MatchIds,
           \A y \in MatchIds \ {x} : y \in T <=> y \in S
    PROVE  Total(PriceOf', T) = Total(PriceOf, S)
                                    + (IF x \in T THEN match'[x].price ELSE 0)
                                    - (IF x \in S THEN match[x].price ELSE 0)
<1>1. IsFiniteSet(S) /\ IsFiniteSet(T)
  BY MatchesFinite
<1>2. \A y \in MatchIds : PriceOf[y] = match[y].price /\ PriceOf[y] \in Int
  BY PricesTyped
<1>3. \A y \in MatchIds : PriceOf'[y] = match'[y].price /\ PriceOf'[y] \in Int
  <2> TAKE y \in MatchIds
  <2>1. match'[y] \in Match
    BY DEF BookInv, Shaped
  <2> QED
    BY <2>1 DEF PriceOf, Match
<1>4. PICK f, e : f = PriceOf /\ e = PriceOf'
  OBVIOUS
<1>5. /\ f[x] = match[x].price /\ f[x] \in Int
      /\ e[x] = match'[x].price /\ e[x] \in Int
  BY <1>2, <1>3, <1>4
<1>6. \A y \in S \cup T : y # x => f[y] \in Int /\ e[y] = f[y]
  BY <1>2, <1>3, <1>4
<1>7. \A y \in S \cup T : y # x => (y \in T <=> y \in S)
  OBVIOUS
<1>8. Total(e, T) = Total(f, S) + (IF x \in T THEN e[x] ELSE 0)
                                - (IF x \in S THEN f[x] ELSE 0)
  BY <1>1, <1>5, <1>6, <1>7, TotalShift
<1> QED
  BY <1>4, <1>5, <1>8

(* The same for everything a mandate sums up.                               *)
LEMMA TotalsMoved ==
    ASSUME BookInv, BookInv', NEW x \in MatchIds,
           \A y \in MatchIds \ {x} : match'[y] = match[y]
    PROVE  /\ \A m \in Mandates :
                  Total(PriceOf, Open(m))' =
                      Total(PriceOf, Open(m))
                          + (IF x \in Open(m)' THEN match'[x].price ELSE 0)
                          - (IF x \in Open(m) THEN match[x].price ELSE 0)
           /\ \A m \in Mandates, d \in Debtors :
                  Total(PriceOf, AtStake(m, d))' =
                      Total(PriceOf, AtStake(m, d))
                          + (IF x \in AtStake(m, d)' THEN match'[x].price ELSE 0)
                          - (IF x \in AtStake(m, d) THEN match[x].price ELSE 0)
<1>1. ASSUME NEW m \in Mandates
      PROVE  Total(PriceOf', Open(m)') =
                 Total(PriceOf, Open(m))
                     + (IF x \in Open(m)' THEN match'[x].price ELSE 0)
                     - (IF x \in Open(m) THEN match[x].price ELSE 0)
  <2>1. Open(m) \in SUBSET MatchIds /\ Open(m)' \in SUBSET MatchIds
    BY DEF Open, Held
  <2>2. \A y \in MatchIds \ {x} : y \in Open(m)' <=> y \in Open(m)
    BY DEF Open, Held
  <2> QED
    BY <2>1, <2>2, SumMoves
<1>2. ASSUME NEW m \in Mandates, NEW d \in Debtors
      PROVE  Total(PriceOf', AtStake(m, d)') =
                 Total(PriceOf, AtStake(m, d))
                     + (IF x \in AtStake(m, d)' THEN match'[x].price ELSE 0)
                     - (IF x \in AtStake(m, d) THEN match[x].price ELSE 0)
  <2>1. AtStake(m, d) \in SUBSET MatchIds /\ AtStake(m, d)' \in SUBSET MatchIds
    BY DEF AtStake, Held
  <2>2. \A y \in MatchIds \ {x} : y \in AtStake(m, d)' <=> y \in AtStake(m, d)
    BY DEF AtStake, Held
  <2> QED
    BY <2>1, <2>2, SumMoves
<1> QED
  BY <1>1, <1>2

LEMMA SumsTyped ==
    ASSUME BookInv
    PROVE  /\ \A m \in Mandates : Total(PriceOf, Open(m)) \in Nat
           /\ \A m \in Mandates, d \in Debtors : Total(PriceOf, AtStake(m, d)) \in Nat
<1>1. \A m \in Mandates : Open(m) \in SUBSET MatchIds
  BY DEF Open, Held
<1>2. \A m \in Mandates, d \in Debtors : AtStake(m, d) \in SUBSET MatchIds
  BY DEF AtStake, Held
<1> QED
  BY <1>1, <1>2, MatchesFinite, PricesTyped, TotalNat

LEMMA SumsInit == Init => Sums
<1> SUFFICES ASSUME Init PROVE Sums
  OBVIOUS
<1>1. BookInv
  BY BookInvInit
<1>2. \A x \in MatchIds : match[x].status = "uninitialised"
  BY DEF Init, Unstruck
<1>3. /\ \A m \in Mandates : Open(m) = {}
      /\ \A m \in Mandates, d \in Debtors : AtStake(m, d) = {}
  BY <1>2 DEF Open, AtStake, Held
<1>4. /\ \A m \in Mandates : Total(PriceOf, Open(m)) = 0
      /\ \A m \in Mandates, d \in Debtors : Total(PriceOf, AtStake(m, d)) = 0
  BY <1>3, TotalEmpty
<1>5. /\ exposure = [m \in Mandates |-> [d \in Debtors |-> 0]]
      /\ \A m \in Mandates : mandate[m].allocated = 0 /\ mandate[m].committed = 0
                             /\ mandate[m].cap = 0
  BY DEF Init, Unposted
<1>6. StruckOnPosted
  BY <1>2 DEF StruckOnPosted, Struck
<1>7. AllocatedIsOpen
  BY <1>4, <1>5 DEF AllocatedIsOpen, Open
<1>8. ExposureExact
  BY <1>4, <1>5 DEF ExposureExact
<1> QED
  BY <1>5, <1>6, <1>7, <1>8 DEF Sums

(* What leaves matches and exposures alone.                                 *)
LEMMA SumsKept ==
    ASSUME BookInv, Sums, UNCHANGED <<match, exposure>>,
           \A m \in Mandates : /\ Posted(m) => Posted(m)'
                               /\ mandate'[m].allocated = mandate[m].allocated
                               /\ mandate'[m].allocated <= mandate'[m].committed
                               /\ \A d \in Debtors : exposure[m][d] <= mandate'[m].cap
    PROVE  Sums'
<1>1. PriceOf' = PriceOf
  BY DEF PriceOf
<1>2. \A m \in Mandates : (Open(m)' = Open(m)) /\ \A d \in Debtors : AtStake(m, d)' = AtStake(m, d)
  BY DEF Open, AtStake, Held
<1>3. StruckOnPosted'
  <2>1. \A x \in MatchIds : Struck(x) => match[x].mandate \in Mandates
    BY DEF BookInv, StruckAsListed
  <2> QED
    BY <2>1 DEF Sums, StruckOnPosted, Struck, Posted
<1>4. AllocatedIsOpen'
  BY <1>1, <1>2 DEF Sums, AllocatedIsOpen, Open
<1>5. ExposureExact'
  BY <1>1, <1>2 DEF Sums, ExposureExact
<1> QED
  BY <1>3, <1>4, <1>5 DEF Sums

(* A mandate that is not posted has nothing.                                *)
LEMMA NothingUnposted ==
    ASSUME Sums, NEW m \in Mandates, ~Posted(m)
    PROVE  mandate[m].allocated = 0 /\ \A d \in Debtors : exposure[m][d] = 0
<1>1. Open(m) = {} /\ \A d \in Debtors : AtStake(m, d) = {}
  BY DEF Sums, StruckOnPosted, Struck, Open, AtStake, Held
<1>2. Total(PriceOf, {}) = 0
  BY TotalEmpty
<1>3. mandate[m].allocated = Total(PriceOf, Open(m))
  BY DEF Sums, AllocatedIsOpen, Open
<1>4. \A d \in Debtors : exposure[m][d] = Total(PriceOf, AtStake(m, d))
  BY DEF Sums, ExposureExact
<1> QED
  BY <1>1, <1>2, <1>3, <1>4

Worth(status, statuses, price) == IF status \in statuses THEN price ELSE 0

(* Match x of mandate m on debtor d moves, and the totals of m by as much.  *)
LEMMA SumsMove ==
    ASSUME BookInv, BookInv', Sums,
           NEW x \in MatchIds, NEW m \in Mandates, NEW d \in Debtors, NEW p \in Nat,
           \A y \in MatchIds \ {x} : match'[y] = match[y],
           match'[x].price = p, match'[x].mandate = m, DebtorOf[match'[x].receivable] = d,
           Struck(x) => /\ match[x].price = p /\ match[x].mandate = m
                        /\ DebtorOf[match[x].receivable] = d,
           Posted(m), \A k \in Mandates : mandate'[k].cap = mandate[k].cap,
           \A k \in Mandates : mandate'[k].status = mandate[k].status,
           \A k \in Mandates \ {m} : mandate'[k] = mandate[k],
           mandate'[m].allocated = mandate[m].allocated
                                       + Worth(match'[x].status, {"open"}, p)
                                       - Worth(match[x].status, {"open"}, p),
           mandate'[m].allocated <= mandate'[m].committed,
           exposure' \in [Mandates -> [Debtors -> Int]],
           \A k \in Mandates, e \in Debtors :
               k # m \/ e # d => exposure'[k][e] = exposure[k][e],
           exposure'[m][d] = exposure[m][d]
                                 + Worth(match'[x].status, {"open", "settled"}, p)
                                 - Worth(match[x].status, {"open", "settled"}, p),
           exposure'[m][d] <= mandate[m].cap
    PROVE  Sums'
<1>1. /\ StruckOnPosted
      /\ \A k \in Mandates : mandate[k].allocated = Total(PriceOf, Open(k))
                             /\ mandate[k].allocated <= mandate[k].committed
      /\ \A k \in Mandates, e \in Debtors : exposure[k][e] = Total(PriceOf, AtStake(k, e))
                                            /\ exposure[k][e] <= mandate[k].cap
  BY DEF Sums, AllocatedIsOpen, ExposureExact, Open
<1>2. /\ x \in Open(m)' <=> match'[x].status \in {"open"}
      /\ x \in Open(m) <=> match[x].status \in {"open"}
      /\ \A k \in Mandates \ {m} : x \notin Open(k)' /\ x \notin Open(k)
  BY DEF Open, Held, Struck
<1>3. /\ x \in AtStake(m, d)' <=> match'[x].status \in {"open", "settled"}
      /\ x \in AtStake(m, d) <=> match[x].status \in {"open", "settled"}
      /\ \A k \in Mandates, e \in Debtors :
             k # m \/ e # d => x \notin AtStake(k, e)' /\ x \notin AtStake(k, e)
  BY DEF AtStake, Held, Struck
<1>4. /\ match[x].status \in {"open", "settled"} => match[x].price = p
      /\ match[x].status \in {"open"} => match[x].price = p
  BY DEF Struck
<1>5. /\ \A k \in Mandates : Total(PriceOf, Open(k)) \in Nat
      /\ \A k \in Mandates, e \in Debtors : Total(PriceOf, AtStake(k, e)) \in Nat
  BY SumsTyped
<1>6. \A k \in Mandates : mandate'[k].allocated = Total(PriceOf, Open(k))'
  <2> TAKE k \in Mandates
  <2>1. Total(PriceOf, Open(k))' = Total(PriceOf, Open(k))
                          + (IF x \in Open(k)' THEN match'[x].price ELSE 0)
                          - (IF x \in Open(k) THEN match[x].price ELSE 0)
    BY TotalsMoved
  <2>2. CASE k = m
    BY <1>1, <1>2, <1>4, <1>5, <2>1, <2>2 DEF Worth
  <2>3. CASE k # m
    BY <1>1, <1>2, <1>5, <2>1, <2>3
  <2> QED
    BY <2>2, <2>3
<1>7. \A k \in Mandates, e \in Debtors : exposure'[k][e] = Total(PriceOf, AtStake(k, e))'
  <2> TAKE k \in Mandates, e \in Debtors
  <2>1. Total(PriceOf, AtStake(k, e))' = Total(PriceOf, AtStake(k, e))
                          + (IF x \in AtStake(k, e)' THEN match'[x].price ELSE 0)
                          - (IF x \in AtStake(k, e) THEN match[x].price ELSE 0)
    BY TotalsMoved
  <2>2. CASE k = m /\ e = d
    BY <1>1, <1>3, <1>4, <1>5, <2>1, <2>2 DEF Worth
  <2>3. CASE k # m \/ e # d
    BY <1>1, <1>3, <1>5, <2>1, <2>3
  <2> QED
    BY <2>2, <2>3
<1>8. AllocatedIsOpen'
  BY <1>1, <1>6 DEF AllocatedIsOpen, Open
<1>9. ExposureExact'
  <2>1. \A k \in Mandates, e \in Debtors : exposure'[k][e] <= mandate'[k].cap
    BY <1>1
  <2> QED
    BY <1>7, <2>1 DEF ExposureExact
<1>10. StruckOnPosted'
  <2> SUFFICES ASSUME NEW y \in MatchIds, Struck(y)'
               PROVE  Posted(match[y].mandate)'
    BY DEF StruckOnPosted
  <2>1. mandate'[m].status = mandate[m].status
    OBVIOUS
  <2>2. CASE y = x
    BY <2>1, <2>2 DEF Posted
  <2>3. CASE y # x
    <3>1. match'[y] = match[y] /\ Struck(y)
      BY <2>3 DEF Struck
    <3>2. match[y].mandate \in Mandates
      BY <3>1 DEF BookInv, StruckAsListed
    <3> QED
      BY <1>1, <3>1, <3>2 DEF StruckOnPosted, Posted
  <2> QED
    BY <2>2, <2>3
<1> QED
  BY <1>8, <1>9, <1>10 DEF Sums

(* What an assignment to the two totals of a mandate leaves alone.          *)
Counted(m, a, c) == [mandate EXCEPT ![m] = [@ EXCEPT !.allocated = a, !.committed = c]]

LEMMA OnlyTotals ==
    ASSUME BookInv, NEW m \in Mandates, NEW a \in Int, NEW c \in Int,
           mandate' = Counted(m, a, c)
    PROVE  /\ mandate'[m].allocated = a /\ mandate'[m].committed = c
           /\ \A k \in Mandates : mandate'[k].cap = mandate[k].cap
           /\ \A k \in Mandates : mandate'[k].status = mandate[k].status
           /\ \A k \in Mandates \ {m} : mandate'[k] = mandate[k]
<1>1. mandate \in [Mandates -> Bids] /\ mandate[m] \in Bids
  BY DEF BookInv, Shaped
<1> DEFINE new == [mandate[m] EXCEPT !.allocated = a, !.committed = c]
<1>2. /\ new.allocated = a /\ new.committed = c
      /\ new.cap = mandate[m].cap /\ new.status = mandate[m].status
  BY <1>1 DEF Bids
<1>3. mandate' = [mandate EXCEPT ![m] = new]
  BY DEF Counted
<1> HIDE DEF new
<1> QED
  BY <1>1, <1>2, <1>3

Exposed(m, d, g) == [exposure EXCEPT ![m][d] = g]

LEMMA OnlyExposure ==
    ASSUME Sums, NEW m \in Mandates, NEW d \in Debtors, NEW g \in Int,
           exposure' = Exposed(m, d, g)
    PROVE  /\ exposure' \in [Mandates -> [Debtors -> Int]]
           /\ exposure'[m][d] = g
           /\ \A k \in Mandates, e \in Debtors :
                  k # m \/ e # d => exposure'[k][e] = exposure[k][e]
<1>1. exposure \in [Mandates -> [Debtors -> Int]] /\ exposure[m] \in [Debtors -> Int]
  BY DEF Sums
<1> DEFINE row == [exposure[m] EXCEPT ![d] = g]
<1>2. exposure' = [exposure EXCEPT ![m] = row]
  BY <1>1 DEF Exposed
<1>3. row \in [Debtors -> Int] /\ row[d] = g /\ \A e \in Debtors \ {d} : row[e] = exposure[m][e]
  BY <1>1
<1> HIDE DEF row
<1> QED
  BY <1>1, <1>2, <1>3

LEMMA SumsCommitted ==
    ASSUME BookInv, Sums, UNCHANGED <<match, exposure>>,
           NEW m \in Mandates, NEW c \in Int, mandate[m].allocated <= c,
           mandate' = Counted(m, mandate[m].allocated, c)
    PROVE  Sums'
<1>1. /\ mandate \in [Mandates -> Bids] /\ \A k \in Mandates : mandate[k] \in Bids
      /\ \A k \in Mandates : mandate[k].allocated <= mandate[k].committed
      /\ \A k \in Mandates : \A d \in Debtors : exposure[k][d] <= mandate[k].cap
  BY DEF BookInv, Shaped, Sums, AllocatedIsOpen, ExposureExact
<1>2. mandate[m].allocated \in Int
  BY <1>1 DEF Bids
<1>3. /\ mandate'[m].allocated = mandate[m].allocated /\ mandate'[m].committed = c
      /\ \A k \in Mandates : mandate'[k].cap = mandate[k].cap
      /\ \A k \in Mandates : mandate'[k].status = mandate[k].status
      /\ \A k \in Mandates \ {m} : mandate'[k] = mandate[k]
  BY <1>2, OnlyTotals
<1>4. \A k \in Mandates : /\ Posted(k) => Posted(k)'
                          /\ mandate'[k].allocated = mandate[k].allocated
                          /\ mandate'[k].allocated <= mandate'[k].committed
                          /\ \A d \in Debtors : exposure[k][d] <= mandate'[k].cap
  BY <1>1, <1>3 DEF Posted
<1> QED
  BY <1>4, SumsKept

LEMMA SumsCredit ==
    ASSUME BookInv, Sums, NEW m \in Mandates, NEW n \in Nat, NEW ref,
           CreditFunding(m, n, ref)
    PROVE  Sums'
<1>1. /\ mandate \in [Mandates -> Bids] /\ mandate[m] \in Bids
      /\ mandate[m].allocated <= mandate[m].committed
  BY DEF BookInv, Shaped, Sums, AllocatedIsOpen
<1>2. /\ UNCHANGED <<match, exposure>>
      /\ mandate' = Counted(m, mandate[m].allocated, mandate[m].committed + n)
  BY <1>1 DEF CreditFunding, Bids, Counted
<1>3. mandate[m].committed + n \in Int /\ mandate[m].allocated <= mandate[m].committed + n
  BY <1>1 DEF Bids
<1> QED
  BY <1>2, <1>3, SumsCommitted

LEMMA SumsBid ==
    ASSUME BookInv, Sums, Credited \/ \E u \in Users, m \in Mandates : Bid(u, m)
    PROVE  Sums'
<1>1. UNCHANGED <<match, exposure>>
  BY DEF Bid, Credited, PostMandate, AuthoriseRelease, SetMandateStatus, CreditFunding
<1>2. /\ mandate \in [Mandates -> Bids] /\ \A m \in Mandates : mandate[m] \in Bids
      /\ \A m \in Mandates : mandate[m].allocated <= mandate[m].committed
      /\ \A m \in Mandates : \A d \in Debtors : exposure[m][d] <= mandate[m].cap
  BY DEF BookInv, Shaped, Sums, AllocatedIsOpen, ExposureExact
<1>3. ASSUME NEW t \in Terms, NEW u \in Users, NEW m \in Mandates, PostMandate(u, m, t)
      PROVE  Sums'
  <2> DEFINE new == [buyer |-> u, floor |-> t.floor, tenor |-> t.tenor, yield |-> t.yield,
                     cap |-> t.cap, committed |-> 0, allocated |-> 0, status |-> "active"]
  <2>1. mandate' = [mandate EXCEPT ![m] = new] /\ ~Posted(m) /\ t.cap > 0
    BY <1>3 DEF PostMandate, Posted
  <2>2. mandate[m].allocated = 0 /\ \A d \in Debtors : exposure[m][d] = 0
    BY <2>1, NothingUnposted
  <2>3. new.allocated = 0 /\ new.committed = 0 /\ new.cap > 0 /\ new.cap \in Nat
        /\ new.status = "active"
    BY <2>1
  <2> HIDE DEF new
  <2>4. /\ mandate'[m] = new
        /\ \A k \in Mandates \ {m} : mandate'[k] = mandate[k]
    BY <1>2, <2>1
  <2>5. Posted(m)' /\ mandate'[m].allocated = mandate[m].allocated
        /\ mandate'[m].allocated <= mandate'[m].committed
        /\ \A d \in Debtors : exposure[m][d] <= mandate'[m].cap
    BY <2>2, <2>3, <2>4 DEF Posted
  <2>6. \A k \in Mandates : /\ Posted(k) => Posted(k)'
                            /\ mandate'[k].allocated = mandate[k].allocated
                            /\ mandate'[k].allocated <= mandate'[k].committed
                            /\ \A d \in Debtors : exposure[k][d] <= mandate'[k].cap
    BY <1>2, <2>4, <2>5 DEF Posted
  <2> QED
    BY <1>1, <2>6, SumsKept
<1>5. ASSUME NEW n \in Amounts, NEW u \in Users, NEW m \in Mandates,
             AuthoriseRelease(u, m, n)
      PROVE  Sums'
  <2>1. mandate[m].committed \in Int /\ mandate[m].allocated \in Int
    BY <1>2 DEF Bids
  <2>2. /\ n <= mandate[m].committed - mandate[m].allocated
        /\ mandate' = Counted(m, mandate[m].allocated, mandate[m].committed - n)
    BY <1>2, <1>5 DEF AuthoriseRelease, Unallocated, Bids, Counted
  <2>3. mandate[m].committed - n \in Int /\ mandate[m].allocated <= mandate[m].committed - n
    <3>1. n \in Nat /\ n <= mandate[m].committed - mandate[m].allocated
      BY <2>2
    <3> QED
      BY <2>1, <3>1
  <2> QED
    BY <1>1, <2>2, <2>3, SumsCommitted
<1>6. ASSUME NEW m \in Mandates, NEW n \in Amounts, NEW ref \in Refs, CreditFunding(m, n, ref)
      PROVE  Sums'
  BY <1>6, SumsCredit
<1>7. ASSUME NEW s \in {"active", "paused", "closed"}, NEW u \in Users, NEW m \in Mandates,
             SetMandateStatus(u, m, s)
      PROVE  Sums'
  <2>1. mandate' = [mandate EXCEPT ![m].status = s]
    BY <1>7 DEF SetMandateStatus
  <2>2. \A k \in Mandates : /\ mandate'[k].allocated = mandate[k].allocated
                            /\ mandate'[k].committed = mandate[k].committed
                            /\ mandate'[k].cap = mandate[k].cap
                            /\ k # m => mandate'[k].status = mandate[k].status
    BY <1>2, <2>1 DEF Bids
  <2>3. mandate'[m].status = s
    BY <1>2, <2>1 DEF Bids
  <2>4. \A k \in Mandates : /\ Posted(k) => Posted(k)'
                            /\ mandate'[k].allocated = mandate[k].allocated
                            /\ mandate'[k].allocated <= mandate'[k].committed
                            /\ \A d \in Debtors : exposure[k][d] <= mandate'[k].cap
    BY <1>2, <2>2, <2>3 DEF Posted
  <2> QED
    BY <1>1, <2>4, SumsKept
<1> QED
  BY <1>3, <1>5, <1>6, <1>7 DEF Bid, Credited

LEMMA SumsMatch ==
    ASSUME BookInv, BookInv', Sums,
           NEW i \in Invoices, NEW m \in Mandates, MatchInvoice(i, m)
    PROVE  Sums'
<1> DEFINE x == <<i, attempts[i] + 1>>
           d == DebtorOfInvoice(i)
           p == Price(i, m)
           new == [status |-> "open", mandate |-> m, receivable |-> invoice[i].receivable,
                   bond |-> invoice[i].bond, buyer |-> mandate[m].buyer, price |-> p,
                   tenor |-> Tenor(i), at |-> now]
<1>1. /\ attempts[i] < Attempts /\ Quotable(i, m)
      /\ p <= Unallocated(m) /\ exposure[m][d] + p <= mandate[m].cap
      /\ mandate' = [mandate EXCEPT ![m].allocated = @ + p]
      /\ exposure' = [exposure EXCEPT ![m][d] = @ + p]
      /\ match' = [match EXCEPT ![x] = new]
  BY DEF MatchInvoice, Evaluates
<1>2. Listed(i) /\ Posted(m)
  BY <1>1 DEF Quotable, Listed, Posted
<1>3. p \in Nat
  BY <1>1, PriceBounds
<1>4. attempts[i] \in Nat /\ x \in MatchIds /\ ~Struck(x)
  <2>1. attempts[i] \in Nat /\ x \in MatchIds
    BY <1>1 DEF BookInv, Shaped, MatchIds
  <2> QED
    BY <2>1 DEF BookInv, StruckAsListed
<1>5. d \in Debtors
  BY <1>2 DEF BookInv, ListedOnce, DebtorOfInvoice, Debtors
<1>6. /\ new.status = "open" /\ new.mandate = m /\ new.price = p
      /\ DebtorOf[new.receivable] = d
  BY DEF DebtorOfInvoice
<1>7. mandate \in [Mandates -> Bids] /\ mandate[m] \in Bids /\ match \in [MatchIds -> Match]
  BY DEF BookInv, Shaped
<1> HIDE DEF x, d, p, new
<1>8. /\ mandate[m].committed \in Int /\ mandate[m].allocated \in Int
      /\ mandate[m].allocated + p \in Int
  BY <1>3, <1>7 DEF Bids
<1>9. mandate' = Counted(m, mandate[m].allocated + p, mandate[m].committed)
  BY <1>1, <1>7, <1>8 DEF Bids, Counted
<1>10. /\ mandate'[m].allocated = mandate[m].allocated + p
       /\ mandate'[m].committed = mandate[m].committed
       /\ \A k \in Mandates : mandate'[k].cap = mandate[k].cap
       /\ \A k \in Mandates : mandate'[k].status = mandate[k].status
       /\ \A k \in Mandates \ {m} : mandate'[k] = mandate[k]
  BY <1>8, <1>9, OnlyTotals
<1>11. exposure[m][d] \in Int /\ exposure' = Exposed(m, d, exposure[m][d] + p)
  BY <1>1, <1>5 DEF Sums, Exposed
<1>12. /\ exposure' \in [Mandates -> [Debtors -> Int]]
       /\ exposure'[m][d] = exposure[m][d] + p
       /\ \A k \in Mandates, e \in Debtors : k # m \/ e # d => exposure'[k][e] = exposure[k][e]
  <2>1. exposure[m][d] + p \in Int
    BY <1>3, <1>11
  <2> QED
    BY <1>5, <1>11, <2>1, OnlyExposure
<1>13. match'[x] = new /\ \A y \in MatchIds \ {x} : match'[y] = match[y]
  BY <1>1, <1>4, <1>7
<1>14. /\ Worth(match'[x].status, {"open"}, p) = p
       /\ Worth(match'[x].status, {"open", "settled"}, p) = p
       /\ Worth(match[x].status, {"open"}, p) = 0
       /\ Worth(match[x].status, {"open", "settled"}, p) = 0
  BY <1>4, <1>6, <1>13 DEF Worth, Struck
<1>15. /\ mandate'[m].allocated = mandate[m].allocated
                                      + Worth(match'[x].status, {"open"}, p)
                                      - Worth(match[x].status, {"open"}, p)
       /\ mandate'[m].allocated <= mandate'[m].committed
  BY <1>1, <1>3, <1>8, <1>10, <1>14 DEF Unallocated
<1>16. /\ exposure'[m][d] = exposure[m][d]
                                + Worth(match'[x].status, {"open", "settled"}, p)
                                - Worth(match[x].status, {"open", "settled"}, p)
       /\ exposure'[m][d] <= mandate[m].cap
  BY <1>1, <1>3, <1>11, <1>12, <1>14
<1>17. /\ match'[x].price = p /\ match'[x].mandate = m
       /\ DebtorOf[match'[x].receivable] = d
  BY <1>6, <1>13
<1> QED
  BY <1>2, <1>3, <1>4, <1>5, <1>10, <1>12, <1>13, <1>15, <1>16, <1>17, SumsMove

LEMMA SumsSettle ==
    ASSUME BookInv, BookInv', Sums, NEW x \in MatchIds, Settle(x)
    PROVE  Sums'
<1> DEFINE m == match[x].mandate
           d == DebtorOf[match[x].receivable]
           p == match[x].price
<1>1. Struck(x)
  BY DEF Settle, ConfirmSettlement, CancelMatch, ConfirmMaturity, Struck
<1>2. /\ m \in Mandates /\ p \in Nat
      /\ mandate \in [Mandates -> Bids] /\ match \in [MatchIds -> Match]
  BY <1>1 DEF BookInv, Shaped, StruckAsListed, Match
<1>3. d \in Debtors
  BY <1>1 DEF BookInv, StruckAsListed, ListedOnce, Debtors, MatchIds
<1>4. /\ mandate[m].allocated \in Int /\ mandate[m].committed \in Int
      /\ mandate[m].allocated <= mandate[m].committed
      /\ exposure \in [Mandates -> [Debtors -> Int]] /\ exposure[m][d] \in Int
      /\ exposure[m][d] <= mandate[m].cap /\ mandate[m].cap \in Nat
  BY <1>2, <1>3 DEF Sums, AllocatedIsOpen, ExposureExact, Bids
<1> HIDE DEF m, d, p
<1>. m \in Mandates /\ d \in Debtors /\ p \in Nat /\ Posted(m)
  BY <1>1, <1>2, <1>3 DEF Sums, StruckOnPosted, m
<1>5. ASSUME NEW s \in {"settled", "cancelled", "matured"},
             match' = [match EXCEPT ![x].status = s]
      PROVE  /\ match'[x].status = s
             /\ \A y \in MatchIds \ {x} : match'[y] = match[y]
             /\ match'[x].price = p /\ match'[x].mandate = m
             /\ DebtorOf[match'[x].receivable] = d
             /\ match[x].price = p /\ match[x].mandate = m
             /\ DebtorOf[match[x].receivable] = d
  BY <1>2, <1>5 DEF Match, m, d, p
<1>6. ASSUME NEW l \in LockIds, ConfirmSettlement(x, l)
      PROVE  Sums'
  <2>1. /\ match[x].status = "open" /\ match' = [match EXCEPT ![x].status = "settled"]
        /\ mandate' = [mandate EXCEPT ![m].allocated = @ - p, ![m].committed = @ - p]
        /\ exposure' = exposure
    BY <1>6 DEF ConfirmSettlement, m, p
  <2>2. mandate' = Counted(m, mandate[m].allocated - p, mandate[m].committed - p)
    BY <1>2, <1>4, <2>1 DEF Bids, Counted
  <2>3. mandate[m].allocated - p \in Int /\ mandate[m].committed - p \in Int
    BY <1>2, <1>4
  <2>4. /\ mandate'[m].allocated = mandate[m].allocated - p
        /\ mandate'[m].committed = mandate[m].committed - p
        /\ \A k \in Mandates : mandate'[k].cap = mandate[k].cap
        /\ \A k \in Mandates : mandate'[k].status = mandate[k].status
        /\ \A k \in Mandates \ {m} : mandate'[k] = mandate[k]
    BY <2>2, <2>3, OnlyTotals
  <2>5. /\ match'[x].status = "settled"
        /\ \A y \in MatchIds \ {x} : match'[y] = match[y]
        /\ match'[x].price = p /\ match'[x].mandate = m
        /\ DebtorOf[match'[x].receivable] = d
        /\ match[x].price = p /\ match[x].mandate = m
        /\ DebtorOf[match[x].receivable] = d
    BY <1>5, <2>1
  <2>6. /\ Worth(match'[x].status, {"open"}, p) = 0
        /\ Worth(match'[x].status, {"open", "settled"}, p) = p
        /\ Worth(match[x].status, {"open"}, p) = p
        /\ Worth(match[x].status, {"open", "settled"}, p) = p
    BY <2>1, <2>5 DEF Worth
  <2>7. /\ mandate'[m].allocated = mandate[m].allocated
                                       + Worth(match'[x].status, {"open"}, p)
                                       - Worth(match[x].status, {"open"}, p)
        /\ mandate'[m].allocated <= mandate'[m].committed
    BY <1>2, <1>4, <2>4, <2>6
  <2>8. /\ exposure'[m][d] = exposure[m][d]
                                 + Worth(match'[x].status, {"open", "settled"}, p)
                                 - Worth(match[x].status, {"open", "settled"}, p)
        /\ exposure'[m][d] <= mandate[m].cap
    BY <1>2, <1>4, <2>1, <2>6
  <2>9. /\ exposure' \in [Mandates -> [Debtors -> Int]]
        /\ \A k \in Mandates, e \in Debtors : exposure'[k][e] = exposure[k][e]
    BY <1>4, <2>1
  <2> QED
    BY <2>4, <2>5, <2>7, <2>8, <2>9, SumsMove
<1>7. ASSUME NEW u \in Users, CancelMatch(u, x)
      PROVE  Sums'
  <2>1. /\ match[x].status = "open" /\ match' = [match EXCEPT ![x].status = "cancelled"]
        /\ mandate' = [mandate EXCEPT ![m].allocated = @ - p]
        /\ exposure' = [exposure EXCEPT ![m][d] = @ - p]
    BY <1>7 DEF CancelMatch, m, d, p
  <2>2. mandate' = Counted(m, mandate[m].allocated - p, mandate[m].committed)
    BY <1>2, <1>4, <2>1 DEF Bids, Counted
  <2>3. mandate[m].allocated - p \in Int /\ exposure[m][d] - p \in Int
    BY <1>2, <1>4
  <2>4. /\ mandate'[m].allocated = mandate[m].allocated - p
        /\ mandate'[m].committed = mandate[m].committed
        /\ \A k \in Mandates : mandate'[k].cap = mandate[k].cap
        /\ \A k \in Mandates : mandate'[k].status = mandate[k].status
        /\ \A k \in Mandates \ {m} : mandate'[k] = mandate[k]
    BY <1>4, <2>2, <2>3, OnlyTotals
  <2>5. /\ match'[x].status = "cancelled"
        /\ \A y \in MatchIds \ {x} : match'[y] = match[y]
        /\ match'[x].price = p /\ match'[x].mandate = m
        /\ DebtorOf[match'[x].receivable] = d
        /\ match[x].price = p /\ match[x].mandate = m
        /\ DebtorOf[match[x].receivable] = d
    BY <1>5, <2>1
  <2>6. /\ Worth(match'[x].status, {"open"}, p) = 0
        /\ Worth(match'[x].status, {"open", "settled"}, p) = 0
        /\ Worth(match[x].status, {"open"}, p) = p
        /\ Worth(match[x].status, {"open", "settled"}, p) = p
    BY <2>1, <2>5 DEF Worth
  <2>7. exposure' = Exposed(m, d, exposure[m][d] - p)
    BY <1>2, <1>3, <1>4, <2>1 DEF Exposed
  <2>8. /\ exposure' \in [Mandates -> [Debtors -> Int]]
        /\ exposure'[m][d] = exposure[m][d] - p
        /\ \A k \in Mandates, e \in Debtors : k # m \/ e # d => exposure'[k][e] = exposure[k][e]
    BY <1>2, <1>3, <2>3, <2>7, OnlyExposure
  <2>9. /\ mandate'[m].allocated = mandate[m].allocated
                                       + Worth(match'[x].status, {"open"}, p)
                                       - Worth(match[x].status, {"open"}, p)
        /\ mandate'[m].allocated <= mandate'[m].committed
    BY <1>2, <1>4, <2>4, <2>6
  <2>10. /\ exposure'[m][d] = exposure[m][d]
                                  + Worth(match'[x].status, {"open", "settled"}, p)
                                  - Worth(match[x].status, {"open", "settled"}, p)
         /\ exposure'[m][d] <= mandate[m].cap
    BY <1>2, <1>4, <2>6, <2>8
  <2> QED
    BY <2>4, <2>5, <2>8, <2>9, <2>10, SumsMove
<1>8. ASSUME NEW h \in Users \cup {Escrow}, ConfirmMaturity(x, h)
      PROVE  Sums'
  <2>1. /\ match[x].status = "settled" /\ match' = [match EXCEPT ![x].status = "matured"]
        /\ mandate' = mandate /\ exposure' = [exposure EXCEPT ![m][d] = @ - p]
    BY <1>8 DEF ConfirmMaturity, m, d, p
  <2>2. exposure[m][d] - p \in Int
    BY <1>2, <1>4
  <2>3. /\ match'[x].status = "matured"
        /\ \A y \in MatchIds \ {x} : match'[y] = match[y]
        /\ match'[x].price = p /\ match'[x].mandate = m
        /\ DebtorOf[match'[x].receivable] = d
        /\ match[x].price = p /\ match[x].mandate = m
        /\ DebtorOf[match[x].receivable] = d
    BY <1>5, <2>1
  <2>4. /\ Worth(match'[x].status, {"open"}, p) = 0
        /\ Worth(match'[x].status, {"open", "settled"}, p) = 0
        /\ Worth(match[x].status, {"open"}, p) = 0
        /\ Worth(match[x].status, {"open", "settled"}, p) = p
    BY <2>1, <2>3 DEF Worth
  <2>5. exposure' = Exposed(m, d, exposure[m][d] - p)
    BY <1>2, <1>3, <1>4, <2>1 DEF Exposed
  <2>6. /\ exposure' \in [Mandates -> [Debtors -> Int]]
        /\ exposure'[m][d] = exposure[m][d] - p
        /\ \A k \in Mandates, e \in Debtors : k # m \/ e # d => exposure'[k][e] = exposure[k][e]
    BY <1>2, <1>3, <2>2, <2>5, OnlyExposure
  <2>7. /\ mandate'[m].allocated = mandate[m].allocated
                                       + Worth(match'[x].status, {"open"}, p)
                                       - Worth(match[x].status, {"open"}, p)
        /\ mandate'[m].allocated <= mandate'[m].committed
    BY <1>4, <2>1, <2>4
  <2>8. /\ exposure'[m][d] = exposure[m][d]
                                 + Worth(match'[x].status, {"open", "settled"}, p)
                                 - Worth(match[x].status, {"open", "settled"}, p)
        /\ exposure'[m][d] <= mandate[m].cap
    BY <1>2, <1>4, <2>4, <2>6
  <2>9. /\ \A k \in Mandates : mandate'[k].cap = mandate[k].cap
        /\ \A k \in Mandates : mandate'[k].status = mandate[k].status
        /\ \A k \in Mandates \ {m} : mandate'[k] = mandate[k]
    BY <2>1
  <2> QED
    BY <2>3, <2>6, <2>7, <2>8, <2>9, SumsMove
<1> QED
  BY <1>6, <1>7, <1>8 DEF Settle

LEMMA SumsStep == BookInv /\ BookInv' /\ Sums /\ [Next]_vars => Sums'
<1> SUFFICES ASSUME BookInv, BookInv', Sums, [Next]_vars PROVE Sums'
  OBVIOUS
<1>1. ASSUME UNCHANGED <<mandate, match, exposure>>
      PROVE  Sums'
  BY <1>1, SumsKept DEF Posted, Sums, AllocatedIsOpen, ExposureExact
<1>2. CASE Registered
  BY <1>1, <1>2 DEF Registered, bookVars
<1>3. ASSUME NEW u \in Users, NEW m \in Mandates, Bid(u, m)
      PROVE  Sums'
  BY <1>3, SumsBid
<1>4. ASSUME NEW i \in Invoices, NEW m \in Mandates, MatchInvoice(i, m)
      PROVE  Sums'
  BY <1>4, SumsMatch
<1>5. ASSUME NEW x \in MatchIds, Settle(x)
      PROVE  Sums'
  BY <1>5, SumsSettle
<1>6. ASSUME NEW u \in Users, Deliver(u)
      PROVE  Sums'
  BY <1>1, <1>6 DEF Deliver, OpenLock, ClaimLock, RefundLock, TransferPaper, bookVars
<1>7. CASE Tick
  BY <1>1, <1>7 DEF Tick, bookVars
<1>8. CASE Credited
  BY <1>8, SumsBid
<1>9. CASE UNCHANGED vars
  BY <1>1, <1>9 DEF vars
<1> QED
  BY <1>2, <1>3, <1>4, <1>5, <1>6, <1>7, <1>8, <1>9 DEF Next, Step

LEMMA SumsAlways == Spec => []Sums
BY SumsInit, SumsStep, BookInvAlways, PTL DEF Spec

(* matchInvoice, confirmSettlement, cancelMatch and authoriseRelease: what  *)
(* a mandate has allocated is the price of its open matches and is covered  *)
(* by what it has committed, for any number of mandates and matches.        *)
THEOREM AllocatedExact == Spec => []AllocatedIsOpen
<1>1. Sums => AllocatedIsOpen
  BY DEF Sums
<1> QED
  BY <1>1, SumsAlways, PTL

(* The same functions and confirmMaturity: exposure to a debtor is the price *)
(* of the matches at stake with them, and never above the cap.              *)
THEOREM ExposureWithinCap == Spec => []ExposureExact
<1>1. Sums => ExposureExact
  BY DEF Sums
<1> QED
  BY <1>1, SumsAlways, PTL

-----------------------------------------------------------------------------
(* The two legs.                                                            *)

LegsShaped ==
    /\ auth \in Seq(Auth)
    /\ fund \in [Mandates -> Int]
    /\ deposit \in [Refs -> Deposit]
    /\ credited \in SUBSET Refs /\ \A r \in credited : Made(r)
    /\ IsFiniteSet({r \in Refs : Made(r)})
    /\ relayed \in SUBSET (1..Len(auth)) /\ paying \in SUBSET relayed

(* Nothing is counted for a mandate before it is posted, when posting it    *)
(* would forget what was.                                                   *)
NothingBefore == \A m \in Mandates : ~Posted(m) => mandate[m].committed = 0

LegsInv == BookInv /\ Sums /\ LegsShaped /\ NothingBefore /\ Conserved

LEMMA DepositsTyped ==
    ASSUME LegsShaped, NEW m \in Mandates
    PROVE  /\ Uncredited(m) \in SUBSET Refs /\ IsFiniteSet(Uncredited(m))
           /\ \A r \in Refs : /\ deposit[r] \in Deposit /\ deposit[r].amount \in Nat
                              /\ AmountOf[r] = deposit[r].amount
           /\ Total(AmountOf, Uncredited(m)) \in Nat
<1>1. \A r \in Refs : /\ deposit[r] \in Deposit /\ deposit[r].amount \in Nat
                      /\ AmountOf[r] = deposit[r].amount
  <2>1. \A r \in Refs : deposit[r] \in Deposit
    BY DEF LegsShaped
  <2> QED
    BY <2>1 DEF Deposit, AmountOf
<1>2. Uncredited(m) \subseteq {r \in Refs : Made(r)}
  BY LegsAssumption DEF Uncredited, Made
<1>3. IsFiniteSet(Uncredited(m))
  BY <1>2, FS_Subset DEF LegsShaped
<1>4. Uncredited(m) \in SUBSET Refs
  BY DEF Uncredited
<1>5. Total(AmountOf, Uncredited(m)) \in Nat
  BY <1>1, <1>3, <1>4, TotalNat
<1> QED
  BY <1>1, <1>3, <1>4, <1>5

LEMMA AuthsTyped ==
    ASSUME LegsShaped, NEW m \in Mandates
    PROVE  /\ Unrelayed(m) \in SUBSET (1..Len(auth)) /\ IsFiniteSet(Unrelayed(m))
           /\ Len(auth) \in Nat
           /\ \A k \in 1..Len(auth) : /\ auth[k] \in Auth /\ auth[k].mandate \in Mandates
                                      /\ auth[k].amount \in Nat
                                      /\ AuthAmount[k] = auth[k].amount
           /\ Total(AuthAmount, Unrelayed(m)) \in Nat
<1>1. auth \in Seq(Auth) /\ Len(auth) \in Nat
  BY DEF LegsShaped
<1>2. \A k \in 1..Len(auth) : auth[k] \in Auth
  BY <1>1
<1>3. \A k \in 1..Len(auth) : /\ auth[k].mandate \in Mandates /\ auth[k].amount \in Nat
                              /\ AuthAmount[k] = auth[k].amount
  BY <1>2 DEF Auth, AuthAmount
<1>4. Unrelayed(m) \in SUBSET (1..Len(auth))
  BY DEF Unrelayed
<1>5. IsFiniteSet(1..Len(auth))
  BY <1>1, FS_Interval
<1>6. IsFiniteSet(Unrelayed(m))
  BY <1>4, <1>5, FS_Subset
<1>7. Total(AuthAmount, Unrelayed(m)) \in Nat
  BY <1>3, <1>4, <1>6, TotalNat
<1> QED
  BY <1>1, <1>2, <1>3, <1>4, <1>6, <1>7

LEMMA LegsInvInit == LegsInit => LegsInv
<1> SUFFICES ASSUME LegsInit PROVE LegsInv
  OBVIOUS
<1>1. BookInv /\ Sums
  BY BookInvInit, SumsInit DEF LegsInit
<1>2. /\ fund = [m \in Mandates |-> 0] /\ deposit = [r \in Refs |-> NoDeposit]
      /\ relayed = {} /\ paying = {} /\ credited = {} /\ auth = <<>>
      /\ \A m \in Mandates : mandate[m].committed = 0
  BY DEF LegsInit, Init, Unposted
<1>3. NoDeposit \in Deposit /\ NoDeposit.mandate = Null
  BY DEF NoDeposit, Deposit
<1>4. {r \in Refs : Made(r)} = {}
  BY <1>2, <1>3 DEF Made
<1>5. IsFiniteSet({r \in Refs : Made(r)})
  BY <1>4, FS_EmptySet
<1>6. LegsShaped
  BY <1>2, <1>3, <1>5 DEF LegsShaped
<1>7. \A m \in Mandates : Uncredited(m) = {} /\ Unrelayed(m) = {}
  BY <1>2, <1>3, LegsAssumption DEF Uncredited, Unrelayed
<1>8. Total(AmountOf, {}) = 0 /\ Total(AuthAmount, {}) = 0
  BY TotalEmpty
<1>9. Conserved
  <2> SUFFICES ASSUME NEW m \in Mandates
               PROVE  fund[m] = mandate[m].committed
                                    + Total(AmountOf, Uncredited(m))
                                    + Total(AuthAmount, Unrelayed(m))
    BY DEF Conserved
  <2>1. Total(AmountOf, Uncredited(m)) = 0 /\ Total(AuthAmount, Unrelayed(m)) = 0
    BY <1>7, <1>8
  <2>2. fund[m] = 0 /\ mandate[m].committed = 0
    BY <1>2
  <2> QED
    BY <2>1, <2>2
<1> QED
  BY <1>1, <1>2, <1>6, <1>9 DEF LegsInv, NothingBefore

(* What moves no count and no money.                                        *)
LEMMA LegsKept ==
    ASSUME LegsInv, BookInv', Sums',
           UNCHANGED <<auth, credited, fund, deposit, relayed>>,
           paying' \in SUBSET relayed,
           \A m \in Mandates : /\ Posted(m) => Posted(m)'
                               /\ mandate'[m].committed = mandate[m].committed
    PROVE  LegsInv'
<1>1. LegsShaped'
  BY DEF LegsInv, LegsShaped, Made
<1>2. AmountOf' = AmountOf /\ AuthAmount' = AuthAmount
  BY DEF AmountOf, AuthAmount
<1>3. \A m \in Mandates : Uncredited(m)' = Uncredited(m) /\ Unrelayed(m)' = Unrelayed(m)
  BY DEF Uncredited, Unrelayed
<1>4. Conserved'
  BY <1>2, <1>3 DEF LegsInv, Conserved
<1>5. NothingBefore'
  BY DEF LegsInv, NothingBefore
<1> QED
  BY <1>1, <1>4, <1>5 DEF LegsInv

(* The book gives up n of m's capital, and authorises the vault to pay it.  *)
LEMMA LegsIssued ==
    ASSUME LegsInv, BookInv', Sums', NEW a \in Auth, auth' = Append(auth, a),
           UNCHANGED <<credited, fund, deposit, relayed, paying>>,
           mandate'[a.mandate].committed = mandate[a.mandate].committed - a.amount,
           \A m \in Mandates \ {a.mandate} :
               mandate'[m].committed = mandate[m].committed,
           Posted(a.mandate), \A m \in Mandates : Posted(m) => Posted(m)'
    PROVE  LegsInv'
<1> DEFINE n == Len(auth) + 1
<1>1. /\ BookInv /\ LegsShaped /\ NothingBefore /\ Conserved
      /\ a.mandate \in Mandates /\ a.amount \in Nat
  BY DEF LegsInv, Auth
<1>2. auth \in Seq(Auth) /\ Len(auth) \in Nat
  BY <1>1 DEF LegsShaped
<1>3. /\ Len(auth)' = n /\ auth' \in Seq(Auth) /\ auth'[n] = a
      /\ \A k \in 1..Len(auth) : auth'[k] = auth[k]
  BY <1>2
<1>4. n \in Nat /\ n \notin 1..Len(auth) /\ 1..n = (1..Len(auth)) \cup {n}
  BY <1>2
<1>5. relayed \in SUBSET (1..Len(auth)) /\ paying \in SUBSET relayed
  BY <1>1 DEF LegsShaped
<1> HIDE DEF n
<1>6. LegsShaped'
  <2>1. relayed' \in SUBSET (1..Len(auth)')
    BY <1>3, <1>4, <1>5
  <2> QED
    BY <1>1, <1>3, <1>5, <2>1 DEF LegsShaped, Made
<1>7. /\ \A k \in 1..Len(auth) : AuthAmount'[k] = AuthAmount[k] /\ AuthAmount[k] \in Int
      /\ AuthAmount'[n] = a.amount
  <2>1. \A k \in 1..Len(auth) : AuthAmount[k] = auth[k].amount /\ auth[k].amount \in Nat
    BY <1>1, AuthsTyped
  <2>2. AuthAmount' = [k \in 1..n |-> auth'[k].amount]
    BY <1>3 DEF AuthAmount
  <2> QED
    BY <1>3, <1>4, <2>1, <2>2
<1>8. NothingBefore'
  BY <1>1 DEF NothingBefore
<1>9. Conserved'
  <2> SUFFICES ASSUME NEW m \in Mandates
               PROVE  fund'[m] = mandate'[m].committed
                                     + Total(AmountOf', Uncredited(m)')
                                     + Total(AuthAmount', Unrelayed(m)')
    BY DEF Conserved
  <2>1. Total(AmountOf', Uncredited(m)') = Total(AmountOf, Uncredited(m))
    <3>1. AmountOf' = AmountOf /\ Uncredited(m)' = Uncredited(m)
      BY DEF AmountOf, Uncredited
    <3> QED
      BY <3>1
  <2>2. /\ Unrelayed(m) \in SUBSET (1..Len(auth)) /\ IsFiniteSet(Unrelayed(m))
        /\ Total(AuthAmount, Unrelayed(m)) \in Nat
        /\ Total(AmountOf, Uncredited(m)) \in Nat
    BY <1>1, AuthsTyped, DepositsTyped
  <2>3. fund[m] = mandate[m].committed + Total(AmountOf, Uncredited(m))
                      + Total(AuthAmount, Unrelayed(m))
    BY <1>1 DEF Conserved
  <2>4. mandate[m].committed \in Int
    BY <1>1 DEF BookInv, Shaped, Bids
  <2>5. CASE m = a.mandate
    <3>1. Unrelayed(m)' = Unrelayed(m) \cup {n}
      BY <1>3, <1>4, <1>5, <2>5 DEF Unrelayed
    <3>2. \A k \in Unrelayed(m) : AuthAmount[k] \in Int /\ AuthAmount'[k] = AuthAmount[k]
      BY <1>7, <2>2
    <3>3. n \notin Unrelayed(m) /\ AuthAmount'[n] \in Int
      BY <1>1, <1>4, <1>7, <2>2
    <3>4. Total(AuthAmount', Unrelayed(m) \cup {n})
              = Total(AuthAmount, Unrelayed(m)) + AuthAmount'[n]
      <4>1. PICK f, e, S : f = AuthAmount /\ e = AuthAmount' /\ S = Unrelayed(m)
        OBVIOUS
      <4>2. /\ IsFiniteSet(S) /\ n \notin S /\ e[n] \in Int
            /\ \A k \in S : f[k] \in Int /\ e[k] = f[k]
        BY <2>2, <3>2, <3>3, <4>1
      <4>3. Total(e, S \cup {n}) = Total(f, S) + e[n]
        BY <4>2, TotalEnter
      <4> QED
        BY <4>1, <4>3
    <3>5. Total(AuthAmount', Unrelayed(m)') = Total(AuthAmount, Unrelayed(m)) + a.amount
      BY <1>7, <3>1, <3>4
    <3>6. mandate'[m].committed = mandate[m].committed - a.amount
      BY <2>5
    <3> QED
      BY <1>1, <2>1, <2>2, <2>3, <2>4, <3>5, <3>6
  <2>6. CASE m # a.mandate
    <3>1. Unrelayed(m)' = Unrelayed(m)
      BY <1>3, <1>4, <1>5, <2>6 DEF Unrelayed
    <3>2. \A k \in Unrelayed(m) : AuthAmount[k] = AuthAmount'[k]
      BY <1>7, <2>2
    <3>3. Total(AuthAmount, Unrelayed(m)) = Total(AuthAmount', Unrelayed(m))
      BY <2>2, <3>2, TotalSame
    <3> QED
      BY <2>1, <2>3, <2>6, <3>1, <3>3
  <2> QED
    BY <2>5, <2>6
<1> QED
  BY <1>1, <1>6, <1>8, <1>9 DEF LegsInv

(* The attester relays a deposit.                                           *)
LEMMA LegsCredited ==
    ASSUME LegsInv, NEW r \in Refs, RelayDeposit(r)
    PROVE  LegsInv'
<1> DEFINE m == deposit[r].mandate
           n == deposit[r].amount
<1>1. /\ BookInv /\ Sums /\ LegsShaped /\ NothingBefore /\ Conserved
  BY DEF LegsInv
<1>2. /\ Made(r) /\ CreditFunding(m, n, r)
      /\ UNCHANGED <<fund, deposit, relayed, paying>>
  BY DEF RelayDeposit, arcVars
<1>3. m \in Mandates /\ n \in Nat
  <2>1. deposit[r] \in Deposit
    BY <1>1 DEF LegsShaped
  <2> QED
    BY <1>2, <2>1 DEF Deposit, Made
<1> HIDE DEF m, n
<1>4. BookInv' /\ Sums'
  BY <1>1, <1>2, <1>3, CreditStep, SumsCredit
<1>5. /\ r \notin credited /\ credited' = credited \cup {r} /\ auth' = auth /\ Posted(m)
      /\ mandate' = [mandate EXCEPT ![m].committed = @ + n]
  BY <1>2 DEF CreditFunding, Posted
<1>6. LegsShaped'
  BY <1>1, <1>2, <1>5 DEF LegsShaped, Made
<1>7. mandate \in [Mandates -> Bids] /\ \A k \in Mandates : mandate[k] \in Bids
  BY <1>1 DEF BookInv, Shaped
<1>8. /\ mandate'[m].committed = mandate[m].committed + n
      /\ mandate'[m].status = mandate[m].status
      /\ \A k \in Mandates \ {m} : mandate'[k] = mandate[k]
      /\ \A k \in Mandates : mandate[k].committed \in Int
  BY <1>3, <1>5, <1>7 DEF Bids
<1>9. NothingBefore'
  BY <1>1, <1>5, <1>8 DEF NothingBefore, Posted
<1>10. Conserved'
  <2> SUFFICES ASSUME NEW k \in Mandates
               PROVE  fund'[k] = mandate'[k].committed
                                     + Total(AmountOf', Uncredited(k)')
                                     + Total(AuthAmount', Unrelayed(k)')
    BY DEF Conserved
  <2>1. Total(AuthAmount', Unrelayed(k)') = Total(AuthAmount, Unrelayed(k))
    <3>1. AuthAmount' = AuthAmount /\ Unrelayed(k)' = Unrelayed(k)
      BY <1>2, <1>5 DEF AuthAmount, Unrelayed
    <3> QED
      BY <3>1
  <2>2. /\ IsFiniteSet(Uncredited(k)) /\ Total(AmountOf, Uncredited(k)) \in Nat
        /\ Total(AuthAmount, Unrelayed(k)) \in Nat
        /\ \A q \in Uncredited(k) : AmountOf[q] \in Int
        /\ AmountOf[r] = n
    BY <1>1, AuthsTyped, DepositsTyped DEF n
  <2>3. fund[k] = mandate[k].committed + Total(AmountOf, Uncredited(k))
                      + Total(AuthAmount, Unrelayed(k))
    BY <1>1 DEF Conserved
  <2>4. AmountOf' = AmountOf
    BY <1>2 DEF AmountOf
  <2>5. CASE k = m
    <3>1. r \in Uncredited(k) /\ Uncredited(k)' = Uncredited(k) \ {r}
      BY <1>2, <1>5, <2>5 DEF Uncredited, m
    <3>2. Total(AmountOf, Uncredited(k)) = AmountOf[r] + Total(AmountOf, Uncredited(k) \ {r})
      BY <2>2, <3>1, TotalRemove
    <3>3. Total(AmountOf, Uncredited(k) \ {r}) \in Int
      <4>1. IsFiniteSet(Uncredited(k) \ {r})
        BY <2>2, FS_RemoveElement
      <4> QED
        BY <2>2, <4>1, TotalInt
    <3>4. Total(AmountOf', Uncredited(k)') = Total(AmountOf, Uncredited(k) \ {r})
      BY <2>4, <3>1
    <3> QED
      BY <1>2, <1>3, <1>8, <2>1, <2>2, <2>3, <2>5, <3>2, <3>3, <3>4
  <2>6. CASE k # m
    <3>1. Uncredited(k)' = Uncredited(k)
      BY <1>2, <1>5, <2>6 DEF Uncredited, m
    <3> QED
      BY <1>2, <1>8, <2>1, <2>3, <2>4, <2>6, <3>1
  <2> QED
    BY <2>5, <2>6
<1> QED
  BY <1>4, <1>6, <1>9, <1>10 DEF LegsInv

(* Money comes into the vault under a reference of its own.                 *)
LEMMA LegsDeposited ==
    ASSUME LegsInv, NEW r \in Refs, ~Made(r), NEW m \in Mandates, NEW n \in Nat,
           deposit' = [deposit EXCEPT ![r] = [mandate |-> m, amount |-> n]],
           fund' = [fund EXCEPT ![m] = @ + n],
           UNCHANGED <<vars, relayed>>, paying' \in SUBSET paying
    PROVE  LegsInv'
<1>1. /\ BookInv /\ Sums /\ LegsShaped /\ NothingBefore /\ Conserved
  BY DEF LegsInv
<1>2. BookInv' /\ Sums'
  BY <1>1, BookInvStep, SumsStep
<1>3. UNCHANGED <<mandate, auth, credited, relayed>>
  BY DEF vars
<1> DEFINE new == [mandate |-> m, amount |-> n]
<1>4. new \in Deposit /\ new.mandate = m /\ new.amount = n /\ m # Null
  BY LegsAssumption DEF Deposit
<1>5. deposit \in [Refs -> Deposit] /\ fund \in [Mandates -> Int]
  BY <1>1 DEF LegsShaped
<1> HIDE DEF new
<1>6. /\ deposit' = [deposit EXCEPT ![r] = new]
      /\ deposit'[r] = new /\ \A q \in Refs \ {r} : deposit'[q] = deposit[q]
  BY <1>5 DEF new
<1>7. {q \in Refs : Made(q)}' = {q \in Refs : Made(q)} \cup {r}
  BY <1>4, <1>6 DEF Made
<1>8. LegsShaped'
  <2>1. IsFiniteSet({q \in Refs : Made(q)}')
    <3>1. PICK M : M = {q \in Refs : Made(q)}
      OBVIOUS
    <3>2. IsFiniteSet(M)
      BY <1>1, <3>1 DEF LegsShaped
    <3>3. IsFiniteSet(M \cup {r})
      BY <3>2, FS_AddElement
    <3> QED
      BY <1>7, <3>1, <3>3
  <2>2. deposit' \in [Refs -> Deposit] /\ fund' \in [Mandates -> Int]
    BY <1>4, <1>5, <1>6
  <2>3. \A q \in credited' : Made(q)'
    BY <1>1, <1>3, <1>6 DEF LegsShaped, Made
  <2> QED
    BY <1>1, <1>3, <2>1, <2>2, <2>3 DEF LegsShaped
<1>9. NothingBefore'
  BY <1>1, <1>3 DEF NothingBefore, Posted
<1>10. r \notin credited
  BY <1>1 DEF LegsShaped
<1>11. Conserved'
  <2> SUFFICES ASSUME NEW k \in Mandates
               PROVE  fund'[k] = mandate'[k].committed
                                     + Total(AmountOf', Uncredited(k)')
                                     + Total(AuthAmount', Unrelayed(k)')
    BY DEF Conserved
  <2>1. Total(AuthAmount', Unrelayed(k)') = Total(AuthAmount, Unrelayed(k))
    <3>1. AuthAmount' = AuthAmount /\ Unrelayed(k)' = Unrelayed(k)
      BY <1>3 DEF AuthAmount, Unrelayed
    <3> QED
      BY <3>1
  <2>2. /\ IsFiniteSet(Uncredited(k)) /\ Total(AmountOf, Uncredited(k)) \in Nat
        /\ Total(AuthAmount, Unrelayed(k)) \in Nat
        /\ Uncredited(k) \in SUBSET Refs
        /\ \A q \in Refs : AmountOf[q] = deposit[q].amount /\ AmountOf[q] \in Int
    BY <1>1, AuthsTyped, DepositsTyped
  <2>3. fund[k] = mandate[k].committed + Total(AmountOf, Uncredited(k))
                      + Total(AuthAmount, Unrelayed(k))
    BY <1>1 DEF Conserved
  <2>4. /\ AmountOf'[r] = n
        /\ \A q \in Refs \ {r} : AmountOf'[q] = AmountOf[q]
    BY <1>4, <1>6 DEF AmountOf
  <2>5. r \notin Uncredited(k)
    BY LegsAssumption DEF Uncredited, Made
  <2>6. mandate[k].committed \in Int /\ fund[k] \in Int
    BY <1>1, <1>5 DEF BookInv, Shaped, Bids
  <2>7. \A q \in Uncredited(k) : AmountOf[q] \in Int /\ AmountOf'[q] = AmountOf[q]
    BY <2>2, <2>4, <2>5
  <2>8. CASE k = m
    <3>1. Uncredited(k)' = Uncredited(k) \cup {r}
      BY <1>3, <1>4, <1>6, <1>10, <2>8 DEF Uncredited
    <3>2. Total(AmountOf', Uncredited(k) \cup {r}) = Total(AmountOf, Uncredited(k)) + AmountOf'[r]
      BY <2>2, <2>4, <2>5, <2>7, TotalEnter
    <3>3. fund'[k] = fund[k] + n
      BY <1>5, <2>8
    <3>4. Total(AmountOf', Uncredited(k)') = Total(AmountOf, Uncredited(k)) + n
      BY <2>4, <3>1, <3>2
    <3> QED
      BY <1>3, <2>1, <2>2, <2>3, <2>6, <3>3, <3>4
  <2>9. CASE k # m
    <3>1. Uncredited(k)' = Uncredited(k)
      BY <1>3, <1>4, <1>6, <2>5, <2>9 DEF Uncredited
    <3>2. Total(AmountOf, Uncredited(k)) = Total(AmountOf', Uncredited(k))
      BY <2>2, <2>7, TotalSame
    <3>3. fund'[k] = fund[k]
      BY <1>5, <2>9
    <3> QED
      BY <1>3, <2>1, <2>3, <3>1, <3>2, <3>3
  <2> QED
    BY <2>8, <2>9
<1> QED
  BY <1>2, <1>8, <1>9, <1>11 DEF LegsInv

(* The vault honours an authorisation.                                      *)
LEMMA LegsHonoured ==
    ASSUME LegsInv, NEW k \in 1..Len(auth), Honour(k), UNCHANGED <<vars, deposit>>,
           paying' \in SUBSET (paying \cup {k})
    PROVE  LegsInv'
<1>1. /\ BookInv /\ Sums /\ LegsShaped /\ NothingBefore /\ Conserved
  BY DEF LegsInv
<1>2. BookInv' /\ Sums'
  BY <1>1, BookInvStep, SumsStep
<1>3. UNCHANGED <<mandate, auth, credited, deposit>>
  BY DEF vars
<1>4. /\ k \notin relayed /\ relayed' = relayed \cup {k}
      /\ fund' = [fund EXCEPT ![auth[k].mandate] = @ - auth[k].amount]
  BY DEF Honour
<1> DEFINE m == auth[k].mandate
           n == auth[k].amount
<1>5. m \in Mandates /\ n \in Nat /\ AuthAmount[k] = n
  <2>1. auth[k] \in Auth
    BY <1>1 DEF LegsShaped
  <2> QED
    BY <2>1 DEF Auth, AuthAmount
<1>6. fund \in [Mandates -> Int] /\ fund' = [fund EXCEPT ![m] = @ - n]
  BY <1>1, <1>4 DEF LegsShaped
<1> HIDE DEF n
<1>7. LegsShaped'
  <2>1. fund' \in [Mandates -> Int]
    BY <1>5, <1>6
  <2>2. relayed' \in SUBSET (1..Len(auth)') /\ paying' \in SUBSET relayed'
    BY <1>1, <1>3, <1>4 DEF LegsShaped
  <2>3. {r \in Refs : Made(r)}' = {r \in Refs : Made(r)}
    BY <1>3 DEF Made
  <2>4. IsFiniteSet({r \in Refs : Made(r)}')
    BY <1>1, <2>3 DEF LegsShaped
  <2>5. \A r \in credited' : Made(r)'
    BY <1>1, <1>3 DEF LegsShaped, Made
  <2> QED
    BY <1>1, <1>3, <2>1, <2>2, <2>4, <2>5 DEF LegsShaped
<1>8. NothingBefore'
  BY <1>1, <1>3 DEF NothingBefore, Posted
<1>9. Conserved'
  <2> SUFFICES ASSUME NEW j \in Mandates
               PROVE  fund'[j] = mandate'[j].committed
                                     + Total(AmountOf', Uncredited(j)')
                                     + Total(AuthAmount', Unrelayed(j)')
    BY DEF Conserved
  <2>1. Total(AmountOf', Uncredited(j)') = Total(AmountOf, Uncredited(j))
    <3>1. AmountOf' = AmountOf /\ Uncredited(j)' = Uncredited(j)
      BY <1>3 DEF AmountOf, Uncredited
    <3> QED
      BY <3>1
  <2>2. /\ IsFiniteSet(Unrelayed(j)) /\ Total(AmountOf, Uncredited(j)) \in Nat
        /\ Total(AuthAmount, Unrelayed(j)) \in Nat
        /\ \A i \in Unrelayed(j) : AuthAmount[i] \in Int
    BY <1>1, AuthsTyped, DepositsTyped
  <2>3. fund[j] = mandate[j].committed + Total(AmountOf, Uncredited(j))
                      + Total(AuthAmount, Unrelayed(j))
    BY <1>1 DEF Conserved
  <2>4. AuthAmount' = AuthAmount
    BY <1>3 DEF AuthAmount
  <2>5. mandate[j].committed \in Int /\ fund[j] \in Int
    BY <1>1, <1>6 DEF BookInv, Shaped, Bids
  <2>6. CASE j = m
    <3>1. k \in Unrelayed(j) /\ Unrelayed(j)' = Unrelayed(j) \ {k}
      BY <1>3, <1>4, <2>6 DEF Unrelayed, m
    <3>2. Total(AuthAmount, Unrelayed(j))
              = AuthAmount[k] + Total(AuthAmount, Unrelayed(j) \ {k})
      <4>1. PICK f, S : f = AuthAmount /\ S = Unrelayed(j)
        OBVIOUS
      <4>2. IsFiniteSet(S) /\ k \in S /\ \A i \in S : f[i] \in Int
        BY <2>2, <3>1, <4>1
      <4>3. Total(f, S) = f[k] + Total(f, S \ {k})
        BY <4>2, TotalRemove
      <4> QED
        BY <4>1, <4>3
    <3>3. Total(AuthAmount, Unrelayed(j) \ {k}) \in Int
      <4>1. IsFiniteSet(Unrelayed(j) \ {k})
        BY <2>2, FS_RemoveElement
      <4> QED
        BY <2>2, <4>1, TotalInt
    <3>4. Total(AuthAmount', Unrelayed(j)') = Total(AuthAmount, Unrelayed(j) \ {k})
      BY <2>4, <3>1
    <3>5. fund'[j] = fund[j] - n
      BY <1>6, <2>6
    <3>6. Total(AuthAmount', Unrelayed(j)') = Total(AuthAmount, Unrelayed(j)) - n
      BY <1>5, <2>2, <3>2, <3>3, <3>4
    <3>7. mandate'[j].committed = mandate[j].committed
      BY <1>3
    <3>8. Total(AmountOf, Uncredited(j)) \in Int /\ Total(AuthAmount, Unrelayed(j)) \in Int
      BY <2>2
    <3> QED
      BY <1>5, <2>1, <2>3, <2>5, <3>5, <3>6, <3>7, <3>8
  <2>7. CASE j # m
    <3>1. Unrelayed(j)' = Unrelayed(j)
      BY <1>3, <1>4, <2>7 DEF Unrelayed, m
    <3>2. fund'[j] = fund[j]
      BY <1>6, <2>7
    <3> QED
      BY <1>3, <2>1, <2>3, <2>4, <3>1, <3>2
  <2> QED
    BY <2>6, <2>7
<1> QED
  BY <1>2, <1>7, <1>8, <1>9 DEF LegsInv

LEMMA LegsStep == LegsInv /\ Step /\ UNCHANGED arcVars => LegsInv'
<1> SUFFICES ASSUME LegsInv, Step, UNCHANGED arcVars PROVE LegsInv'
  OBVIOUS
<1>1. BookInv /\ Sums /\ LegsShaped /\ NothingBefore
  BY DEF LegsInv
<1>2. BookInv' /\ Sums'
  BY <1>1, BookInvStep, SumsStep DEF Next
<1>3. UNCHANGED <<fund, deposit, relayed, paying>> /\ paying \in SUBSET relayed
  BY <1>1 DEF arcVars, LegsShaped
<1>4. mandate \in [Mandates -> Bids] /\ \A m \in Mandates : mandate[m] \in Bids
  BY <1>1 DEF BookInv, Shaped
<1>5. ASSUME UNCHANGED <<auth, credited>>,
             \A m \in Mandates : /\ Posted(m) => Posted(m)'
                                 /\ mandate'[m].committed = mandate[m].committed
      PROVE  LegsInv'
  BY <1>2, <1>3, <1>5, LegsKept
<1>6. CASE Registered
  BY <1>5, <1>6 DEF Registered, bookVars, Posted
<1>7. ASSUME NEW u \in Users, NEW m \in Mandates, NEW t \in Terms, PostMandate(u, m, t)
      PROVE  LegsInv'
  <2>1. /\ UNCHANGED <<auth, credited>> /\ ~Posted(m)
        /\ \A k \in Mandates \ {m} : mandate'[k] = mandate[k]
        /\ mandate'[m].committed = 0 /\ mandate'[m].status = "active"
    BY <1>4, <1>7 DEF PostMandate, Posted
  <2>2. mandate[m].committed = 0
    BY <1>1, <2>1 DEF NothingBefore
  <2> QED
    BY <1>5, <2>1, <2>2 DEF Posted
<1>8. ASSUME NEW u \in Users, NEW m \in Mandates, NEW n \in Amounts, AuthoriseRelease(u, m, n)
      PROVE  LegsInv'
  <2> DEFINE a == [kind |-> "release", mandate |-> m, amount |-> n, ref |-> <<>>]
  <2>1. a \in Auth /\ a.mandate = m /\ a.amount = n
    BY DEF Auth
  <2>2. /\ auth' = Append(auth, a) /\ credited' = credited /\ Posted(m)
        /\ mandate' = [mandate EXCEPT ![m].committed = @ - n]
    BY <1>8 DEF AuthoriseRelease, Issue, Posted
  <2> HIDE DEF a
  <2>3. /\ mandate'[m].committed = mandate[m].committed - n
        /\ mandate'[m].status = mandate[m].status
        /\ \A k \in Mandates \ {m} : mandate'[k] = mandate[k]
    BY <1>4, <2>2 DEF Bids
  <2>4. \A k \in Mandates : Posted(k) => Posted(k)'
    BY <2>3 DEF Posted
  <2> QED
    BY <1>2, <1>3, <2>1, <2>2, <2>3, <2>4, LegsIssued
<1>9. ASSUME NEW u \in Users, NEW m \in Mandates, NEW s \in {"active", "paused", "closed"},
             SetMandateStatus(u, m, s)
      PROVE  LegsInv'
  <2>1. /\ UNCHANGED <<auth, credited>> /\ mandate' = [mandate EXCEPT ![m].status = s]
    BY <1>9 DEF SetMandateStatus
  <2>2. \A k \in Mandates : /\ mandate'[k].committed = mandate[k].committed
                            /\ k # m => mandate'[k].status = mandate[k].status
    BY <1>4, <2>1 DEF Bids
  <2>3. mandate'[m].status = s
    BY <1>4, <2>1 DEF Bids
  <2> QED
    BY <1>5, <2>1, <2>2, <2>3 DEF Posted
<1>10. ASSUME NEW i \in Invoices, NEW m \in Mandates, MatchInvoice(i, m)
       PROVE  LegsInv'
  <2>1. /\ UNCHANGED <<auth, credited>>
        /\ mandate' = [mandate EXCEPT ![m].allocated = @ + Price(i, m)]
    BY <1>10 DEF MatchInvoice
  <2>2. \A k \in Mandates : /\ mandate'[k].committed = mandate[k].committed
                            /\ mandate'[k].status = mandate[k].status
    BY <1>4, <2>1 DEF Bids
  <2> QED
    BY <1>5, <2>1, <2>2 DEF Posted
<1>11. ASSUME NEW x \in MatchIds, NEW l \in LockIds, ConfirmSettlement(x, l)
       PROVE  LegsInv'
  <2> DEFINE m == match[x].mandate
             n == match[x].price
             a == [kind |-> "payout", mandate |-> m, amount |-> n, ref |-> x]
  <2>1. /\ match[x].status = "open" /\ auth' = Append(auth, a) /\ credited' = credited
        /\ mandate' = [mandate EXCEPT ![m].allocated = @ - n, ![m].committed = @ - n]
    BY <1>11 DEF ConfirmSettlement, Issue
  <2>2. m \in Mandates /\ n \in Nat
    BY <1>1, <2>1 DEF BookInv, Shaped, StruckAsListed, Struck, Match
  <2>3. Posted(m)
    BY <1>1, <2>1 DEF Sums, StruckOnPosted, Struck
  <2>4. a \in Auth /\ a.mandate = m /\ a.amount = n
    BY <2>2 DEF Auth
  <2> HIDE DEF m, n, a
  <2>5. /\ mandate'[m].committed = mandate[m].committed - n
        /\ mandate'[m].status = mandate[m].status
        /\ \A k \in Mandates \ {m} : mandate'[k] = mandate[k]
    BY <1>4, <2>1, <2>2 DEF Bids
  <2>6. \A k \in Mandates : Posted(k) => Posted(k)'
    BY <2>5 DEF Posted
  <2> QED
    BY <1>2, <1>3, <2>1, <2>3, <2>4, <2>5, <2>6, LegsIssued
<1>12. ASSUME NEW x \in MatchIds, NEW u \in Users, CancelMatch(u, x)
       PROVE  LegsInv'
  <2>1. /\ UNCHANGED <<auth, credited>>
        /\ mandate' = [mandate EXCEPT ![match[x].mandate].allocated = @ - match[x].price]
    BY <1>12 DEF CancelMatch
  <2>2. \A k \in Mandates : /\ mandate'[k].committed = mandate[k].committed
                            /\ mandate'[k].status = mandate[k].status
    BY <1>4, <2>1 DEF Bids
  <2> QED
    BY <1>5, <2>1, <2>2 DEF Posted
<1>13. ASSUME NEW x \in MatchIds, NEW h \in Users \cup {Escrow}, ConfirmMaturity(x, h)
       PROVE  LegsInv'
  BY <1>5, <1>13 DEF ConfirmMaturity, Posted
<1>14. ASSUME NEW u \in Users, Deliver(u)
       PROVE  LegsInv'
  BY <1>5, <1>14 DEF Deliver, OpenLock, ClaimLock, RefundLock, TransferPaper, bookVars, Posted
<1>15. CASE Tick
  BY <1>5, <1>15 DEF Tick, bookVars, Posted
<1> QED
  BY <1>6, <1>7, <1>8, <1>9, <1>10, <1>11, <1>12, <1>13, <1>14, <1>15 DEF Step, Bid, Settle

LEMMA OnArcStep == LegsInv /\ OnArc => LegsInv'
<1> SUFFICES ASSUME LegsInv, OnArc PROVE LegsInv'
  OBVIOUS
<1>1. BookInv /\ Sums /\ LegsShaped
  BY DEF LegsInv
<1>2. Unissued # {} => Min(Unissued) \in Refs /\ ~Made(Min(Unissued))
  <2>1. Unissued \in SUBSET Nat
    BY LegsAssumption DEF Unissued
  <2> QED
    BY <2>1, Least DEF Unissued
<1>3. \A k \in 1..Len(auth) : auth[k].mandate \in Mandates /\ auth[k].amount \in Nat
  <2>1. \A k \in 1..Len(auth) : auth[k] \in Auth
    BY <1>1 DEF LegsShaped
  <2> QED
    BY <2>1 DEF Auth
<1>4. ASSUME NEW m \in Mandates, NEW n \in Amounts, MakeDeposit(m, n)
      PROVE  LegsInv'
  <2>1. PICK r \in Refs : r = Min(Unissued) /\ ~Made(r)
    BY <1>2, <1>4 DEF MakeDeposit
  <2>2. /\ deposit' = [deposit EXCEPT ![r] = [mandate |-> m, amount |-> n]]
        /\ fund' = [fund EXCEPT ![m] = @ + n]
        /\ UNCHANGED <<vars, relayed>> /\ paying' \in SUBSET paying
    BY <1>4, <2>1 DEF MakeDeposit
  <2>3. n \in Nat
    OBVIOUS
  <2> QED
    BY <2>1, <2>2, <2>3, LegsDeposited
<1>5. ASSUME NEW k \in 1..Len(auth), RelayRelease(k) \/ RelayPayout(k)
      PROVE  LegsInv'
  <2>1. Honour(k) /\ UNCHANGED <<vars, deposit>> /\ paying' \in SUBSET (paying \cup {k})
    BY <1>5 DEF RelayRelease, RelayPayout
  <2> QED
    BY <2>1, LegsHonoured
<1>6. ASSUME NEW k \in 1..Len(auth), ClaimPayout(k)
      PROVE  LegsInv'
  <2>1. /\ UNCHANGED <<vars, fund, deposit, relayed>> /\ paying' \in SUBSET relayed
    BY <1>1, <1>6 DEF ClaimPayout, LegsShaped
  <2>2. BookInv' /\ Sums'
    BY <1>1, <2>1, BookInvStep, SumsStep
  <2>3. UNCHANGED <<auth, credited, mandate>>
    BY <2>1 DEF vars
  <2> QED
    BY <2>1, <2>2, <2>3, LegsKept DEF Posted
<1>7. ASSUME NEW k \in 1..Len(auth), ReclaimPayout(k)
      PROVE  LegsInv'
  <2>1. PICK r \in Refs : r = Min(Unissued) /\ ~Made(r)
    BY <1>2, <1>7 DEF ReclaimPayout
  <2>2. PICK m \in Mandates, n \in Nat : m = auth[k].mandate /\ n = auth[k].amount
    BY <1>3
  <2>3. /\ deposit' = [deposit EXCEPT ![r] = [mandate |-> m, amount |-> n]]
        /\ fund' = [fund EXCEPT ![m] = @ + n]
        /\ UNCHANGED <<vars, relayed>> /\ paying' \in SUBSET paying
    BY <1>7, <2>1, <2>2 DEF ReclaimPayout
  <2> QED
    BY <2>1, <2>3, LegsDeposited
<1> QED
  BY <1>4, <1>5, <1>6, <1>7 DEF OnArc

LEMMA LegsInvStep == LegsInv /\ [LegsNext]_legVars => LegsInv'
<1> SUFFICES ASSUME LegsInv, [LegsNext]_legVars PROVE LegsInv'
  OBVIOUS
<1>1. CASE Step /\ UNCHANGED arcVars
  BY <1>1, LegsStep
<1>2. ASSUME NEW r \in Refs, RelayDeposit(r) PROVE LegsInv'
  BY <1>2, LegsCredited
<1>3. CASE OnArc
  BY <1>3, OnArcStep
<1>4. CASE UNCHANGED legVars
  <2>1. /\ UNCHANGED <<vars, auth, credited, fund, deposit, relayed, paying, mandate>>
        /\ paying \in SUBSET relayed
    BY <1>4 DEF legVars, vars, LegsInv, LegsShaped
  <2>2. BookInv' /\ Sums'
    BY <2>1, BookInvStep, SumsStep DEF LegsInv
  <2> QED
    BY <2>1, <2>2, LegsKept DEF Posted
<1> QED
  BY <1>1, <1>2, <1>3, <1>4 DEF LegsNext

LEMMA LegsInvAlways == LegsSpec => []LegsInv
BY LegsInvInit, LegsInvStep, PTL DEF LegsSpec

(* MandateVault and MandateBook with the relay between them: for any number *)
(* of mandates, deposits and matches, and relays in any order and at any    *)
(* time, no unit is counted twice or lost between the chains.               *)
THEOREM LegsConserve == LegsSpec => []Conserved
<1>1. LegsInv => Conserved
  BY DEF LegsInv
<1> QED
  BY <1>1, LegsInvAlways, PTL

(* What the vault was authorised to pay and has not paid is there to pay:   *)
(* an authorisation never reverts for want of funds, whatever was           *)
(* authorised, deposited and relayed before it.                             *)
RelayCovered ==
    \A k \in 1..Len(auth) : k \notin relayed => auth[k].amount <= fund[auth[k].mandate]

THEOREM RelayNeverReverts == LegsSpec => []RelayCovered
<1>1. LegsInv => RelayCovered
  <2> SUFFICES ASSUME LegsInv, NEW k \in 1..Len(auth), k \notin relayed
               PROVE  auth[k].amount <= fund[auth[k].mandate]
    BY DEF RelayCovered
  <2>1. BookInv /\ Sums /\ LegsShaped /\ Conserved
    BY DEF LegsInv
  <2>2. PICK m \in Mandates, n \in Nat : m = auth[k].mandate /\ n = auth[k].amount
                                         /\ AuthAmount[k] = n
    <3>1. auth[k] \in Auth
      BY <2>1 DEF LegsShaped
    <3> QED
      BY <3>1 DEF Auth, AuthAmount
  <2>3. /\ IsFiniteSet(Unrelayed(m)) /\ \A j \in Unrelayed(m) : AuthAmount[j] \in Nat
        /\ Total(AmountOf, Uncredited(m)) \in Nat
    BY <2>1, AuthsTyped, DepositsTyped
  <2>4. k \in Unrelayed(m)
    BY <2>2 DEF Unrelayed
  <2>5. Total(AuthAmount, Unrelayed(m)) = n + Total(AuthAmount, Unrelayed(m) \ {k})
    <3>1. PICK f, S : f = AuthAmount /\ S = Unrelayed(m)
      OBVIOUS
    <3>2. IsFiniteSet(S) /\ k \in S /\ \A j \in S : f[j] \in Int
      BY <2>3, <2>4, <3>1
    <3>3. Total(f, S) = f[k] + Total(f, S \ {k})
      BY <3>2, TotalRemove
    <3> QED
      BY <2>2, <3>1, <3>3
  <2>6. Total(AuthAmount, Unrelayed(m) \ {k}) \in Nat
    <3>1. IsFiniteSet(Unrelayed(m) \ {k})
      BY <2>3, FS_RemoveElement
    <3> QED
      BY <2>3, <3>1, TotalNat
  <2>7. mandate[m].committed \in Nat
    <3>1. mandate[m].allocated = Total(PriceOf, Open(m))
          /\ mandate[m].allocated <= mandate[m].committed
      BY <2>1 DEF Sums, AllocatedIsOpen, Open
    <3>2. Total(PriceOf, Open(m)) \in Nat /\ mandate[m].committed \in Int
      BY <2>1, SumsTyped DEF BookInv, Shaped, Bids
    <3> QED
      BY <3>1, <3>2
  <2>8. fund[m] = mandate[m].committed + Total(AmountOf, Uncredited(m))
                      + Total(AuthAmount, Unrelayed(m))
    BY <2>1 DEF Conserved
  <2> QED
    BY <2>2, <2>3, <2>5, <2>6, <2>7, <2>8
<1> QED
  BY <1>1, LegsInvAlways, PTL

(* The same with the vault beside the book: deposits that are relayed late  *)
(* or twice disturb no window.                                              *)
THEOREM LegsCancelsUndelivered ==
    ASSUME Diligent, Settlers = {}
    PROVE  LegsSpec => []CancelledMeansUndelivered
<1>1. LegsInit => Deadlines
  BY DeadlinesInit DEF LegsInit
<1>2. LegsInv /\ LegsInv' /\ Deadlines /\ [LegsNext]_legVars => Deadlines'
  <2> SUFFICES ASSUME LegsInv, LegsInv', Deadlines, [LegsNext]_legVars PROVE Deadlines'
    OBVIOUS
  <2>1. BookInv /\ BookInv'
    BY DEF LegsInv
  <2>2. ASSUME NEW r \in Refs, RelayDeposit(r) PROVE Deadlines'
    <3>1. UNCHANGED <<match, lock, now>>
      BY <2>2 DEF RelayDeposit, CreditFunding, deliveryVars
    <3>2. \A l \in LockIds, x \in MatchIds : InTime(l, x)'
      BY <2>1, <3>1, InTimeKept DEF Deadlines
    <3> QED
      BY <3>2 DEF Deadlines
  <2>3. ASSUME [Next]_vars PROVE Deadlines'
    BY <2>1, <2>3, DeadlinesStep
  <2>4. CASE Step /\ UNCHANGED arcVars
    BY <2>3, <2>4 DEF Next
  <2>5. CASE OnArc
    BY <2>3, <2>5 DEF OnArc, MakeDeposit, RelayRelease, RelayPayout, ClaimPayout, ReclaimPayout
  <2>6. CASE UNCHANGED legVars
    BY <2>3, <2>6 DEF legVars, vars
  <2> QED
    BY <2>2, <2>4, <2>5, <2>6 DEF LegsNext
<1>3. Deadlines => CancelledMeansUndelivered
  BY DEF Deadlines, InTime, CancelledMeansUndelivered
<1> QED
  BY <1>1, <1>2, <1>3, LegsInvAlways, PTL DEF LegsSpec
=============================================================================

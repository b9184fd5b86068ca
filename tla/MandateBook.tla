---------------------------- MODULE MandateBook ----------------------------
(***************************************************************************)
(* The book on Hedera: standing bids, and the matches struck against them. *)
(* Capital sits on Arc and the book holds an attested count of it; paper   *)
(* is delivered through the escrow on Hedera, and a claimed delivery lock  *)
(* is the proof that settles a match.  A call is one transaction, so one   *)
(* step; a refused match changes nothing and is no step.                   *)
(*                                                                         *)
(* Refs, amounts and order of what the attester relays are free here.      *)
(* TwoLegs composes the book with the vault it counts the capital of.      *)
(***************************************************************************)
EXTENDS InvoiceRegistry, Sequences, Totals

CONSTANTS
    Users,         \* wallets on Hedera
    SellerOf,      \* the seller each receivable is listed for
    DebtorOf,      \* the debtor of each receivable
    FaceOf,        \* the face of each receivable
    Facets,        \* what a bond answers about a buyer: [Bonds -> [Users -> Facet]]
    Mandates,      \* bids that may be posted
    Terms,         \* terms a buyer may post
    Statuses,      \* invoice statuses the attester relays
    Refs,          \* deposit references the attester may relay
    Amounts,       \* amounts a caller may name
    Settlers,      \* users who may cancel before the window elapses
    LockIds,
    Attempts,      \* bound: matches ever struck on one invoice, 1..Attempts
    MaxAuths,      \* bound: authorisations issued before a release is asked for
    MatchBy,       \* bound: the last instant a match is struck at
    Day,           \* instants in a day
    YearBps,       \* 365 days at 100%, in basis points times days
    MaxYield, MaxTenor,
    MinLock, MaxLock,
    SettlementWindow,
    Diligent       \* sellers lock in time and confirm a delivery at once

ASSUME BookAssumption ==
    /\ Null \notin Users
    /\ SellerOf \in [Receivables -> Users]
    /\ FaceOf \in [Receivables -> Nat \ {0}]
    /\ Terms \subseteq [floor : Grades, tenor : Nat, yield : Nat, cap : Nat]
    /\ Statuses \subseteq InvoiceStatus
    /\ Amounts \subseteq Nat /\ Settlers \subseteq Users
    /\ Attempts \in Nat /\ MaxAuths \in Nat /\ MatchBy \in Nat
    /\ Day \in Nat \ {0} /\ YearBps \in Nat \ {0}
    /\ MaxYield \in Nat /\ MaxTenor \in Nat
    /\ MinLock \in Nat /\ MaxLock \in Nat
    /\ SettlementWindow \in Nat /\ SettlementWindow > MaxLock
    /\ Diligent \in BOOLEAN
ASSUME FiniteBook == IsFiniteSet(Invoices)

Escrow == "escrow"
Debtors == {DebtorOf[h] : h \in Receivables}
Sellers == {SellerOf[h] : h \in Receivables}
MatchIds == Invoices \X (1..Attempts)

VARIABLES
    mandate,   \* mandate id |-> its record
    match,     \* match id |-> its record
    exposure,  \* mandate id |-> debtor |-> what it has at stake with them
    matchOf,   \* invoice |-> the attempt that holds it, 0 when none does
    attempts,  \* invoice |-> matches struck on it so far
    credited,  \* deposit references already credited
    auth,      \* authorisations issued so far, by nonce
    paper,     \* holder of each bond: a user or the escrow
    lock       \* locks of the escrow on Hedera

bookVars == <<mandate, match, exposure, matchOf, attempts, credited, auth>>
deliveryVars == <<paper, lock>>
vars == <<bondOf, invoice, now, mandate, match, exposure, matchOf, attempts,
          credited, auth, paper, lock>>

Mandate == [buyer : Users \cup {Null}, floor : Grades \cup {0}, tenor : Nat,
            yield : Nat, cap : Nat, committed : Nat, allocated : Nat,
            status : {"uninitialised", "active", "paused", "closed"}]
Unposted == [buyer |-> Null, floor |-> 0, tenor |-> 0, yield |-> 0, cap |-> 0,
             committed |-> 0, allocated |-> 0, status |-> "uninitialised"]

(* Settlement and maturity read what was struck, never the registry again.  *)
Match == [status : {"uninitialised", "open", "settled", "cancelled", "matured"},
          mandate : Mandates \cup {Null}, receivable : Receivables \cup {Null},
          bond : Bonds \cup {Null}, buyer : Users \cup {Null}, price : Nat,
          tenor : Nat, at : Nat]
Unstruck == [status |-> "uninitialised", mandate |-> Null, receivable |-> Null,
             bond |-> Null, buyer |-> Null, price |-> 0, tenor |-> 0, at |-> 0]

Auth == [kind : {"release", "payout"}, mandate : Mandates, amount : Nat,
         ref : MatchIds \cup {<<>>}]

Lock == [status : {"none", "locked", "claimed", "refunded"},
         ref : MatchIds \cup {<<>>}, kind : {"delivery", "payment"},
         bond : Bonds \cup {Null}, depositor : Users \cup {Null},
         beneficiary : Users \cup {Null}, timeout : Nat]
NoLock == [status |-> "none", ref |-> <<>>, kind |-> "payment", bond |-> Null,
           depositor |-> Null, beneficiary |-> Null, timeout |-> 0]

TypeOK ==
    /\ RegistryTypeOK
    /\ mandate \in [Mandates -> Mandate]
    /\ match \in [MatchIds -> Match]
    /\ exposure \in [Mandates -> [Debtors -> Nat]]
    /\ matchOf \in [Invoices -> 0..Attempts]
    /\ attempts \in [Invoices -> 0..Attempts]
    /\ credited \subseteq Refs
    /\ auth \in Seq(Auth)
    /\ paper \in [Bonds -> Users \cup {Escrow}]
    /\ lock \in [LockIds -> Lock]

Init ==
    /\ RegistryInit
    /\ mandate = [m \in Mandates |-> Unposted]
    /\ match = [x \in MatchIds |-> Unstruck]
    /\ exposure = [m \in Mandates |-> [d \in Debtors |-> 0]]
    /\ matchOf = [i \in Invoices |-> 0]
    /\ attempts = [i \in Invoices |-> 0]
    /\ credited = {}
    /\ auth = <<>>
    /\ paper \in [Bonds -> Sellers]
    /\ lock = [l \in LockIds |-> NoLock]

-----------------------------------------------------------------------------
(* Mandates.                                                                *)

(* Mutated form: terms may discount a receivable to nothing.                *)
PostAnyTerms(u, m, t) ==
    /\ mandate[m].status = "uninitialised"
    /\ t.tenor \in 1..MaxTenor /\ t.yield \in 1..MaxYield /\ t.cap > 0
    /\ mandate' = [mandate EXCEPT ![m] =
                      [buyer |-> u, floor |-> t.floor, tenor |-> t.tenor, yield |-> t.yield,
                       cap |-> t.cap, committed |-> 0, allocated |-> 0, status |-> "active"]]
    /\ UNCHANGED <<registryVars, now, match, exposure, matchOf, attempts, credited,
                   auth, deliveryVars>>

PostMandate(u, m, t) ==
    /\ mandate[m].status = "uninitialised"
    /\ t.tenor \in 1..MaxTenor /\ t.yield \in 1..MaxYield /\ t.cap > 0
    /\ t.yield * t.tenor < YearBps
    /\ mandate' = [mandate EXCEPT ![m] =
                      [buyer |-> u, floor |-> t.floor, tenor |-> t.tenor, yield |-> t.yield,
                       cap |-> t.cap, committed |-> 0, allocated |-> 0, status |-> "active"]]
    /\ UNCHANGED <<registryVars, now, match, exposure, matchOf, attempts, credited,
                   auth, deliveryVars>>

CreditFunding(m, n, ref) ==
    /\ n > 0
    /\ mandate[m].status # "uninitialised"
    /\ ref \notin credited
    /\ credited' = credited \cup {ref}
    /\ mandate' = [mandate EXCEPT ![m].committed = @ + n]
    /\ UNCHANGED <<registryVars, now, match, exposure, matchOf, attempts, auth, deliveryVars>>

Issue(kind, m, n, x) ==
    auth' = Append(auth, [kind |-> kind, mandate |-> m, amount |-> n, ref |-> x])

Unallocated(m) == mandate[m].committed - mandate[m].allocated

(* Mutated form: capital allocated to open matches may be released.         *)
ReleaseCommitted(u, m, n) ==
    /\ n > 0
    /\ mandate[m].status # "uninitialised"
    /\ u = mandate[m].buyer
    /\ Len(auth) < MaxAuths
    /\ n <= mandate[m].committed
    /\ mandate' = [mandate EXCEPT ![m].committed = @ - n]
    /\ Issue("release", m, n, <<>>)
    /\ UNCHANGED <<registryVars, now, match, exposure, matchOf, attempts, credited,
                   deliveryVars>>

(* The claim on the capital is given up before the vault is opened by it.   *)
AuthoriseRelease(u, m, n) ==
    /\ n > 0
    /\ mandate[m].status # "uninitialised"
    /\ u = mandate[m].buyer
    /\ Len(auth) < MaxAuths
    /\ n <= Unallocated(m)
    /\ mandate' = [mandate EXCEPT ![m].committed = @ - n]
    /\ Issue("release", m, n, <<>>)
    /\ UNCHANGED <<registryVars, now, match, exposure, matchOf, attempts, credited,
                   deliveryVars>>

SetMandateStatus(u, m, status) ==
    /\ mandate[m].status # "uninitialised"
    /\ u = mandate[m].buyer
    /\ mandate' = [mandate EXCEPT ![m].status = status]
    /\ UNCHANGED <<registryVars, now, match, exposure, matchOf, attempts, credited,
                   auth, deliveryVars>>

-----------------------------------------------------------------------------
(* Matching.                                                                *)

(* A bond's answers, each of which may be unreadable; and the gate's        *)
(* verdict on them (AtsComplianceGate), which no probe can make revert.     *)
Facet == [paused : {"yes", "no", "unreadable"}, list : {"allow", "block", "unreadable"},
          member : {"yes", "no", "unreadable"}, kyc : {"granted", "other", "unreadable"}]
CanReceive(b, u) ==
    LET f == Facets[b][u] IN
    /\ f.paused = "no"
    /\ \/ f.list = "allow" /\ f.member = "yes"
       \/ f.list = "block" /\ f.member = "no"
    /\ f.kyc = "granted"

(* Whole days to maturity, the last one begun counted in full.              *)
Tenor(i) == (invoice[i].due - now + Day - 1) \div Day
Discount(face, tenor, yield) == (face * yield * tenor) \div YearBps
Price(i, m) ==
    FaceOf[invoice[i].receivable]
        - Discount(FaceOf[invoice[i].receivable], Tenor(i), mandate[m].yield)
DebtorOfInvoice(i) == DebtorOf[invoice[i].receivable]

(* Checks 1 to 4 of _evaluate, before anything is priced.                   *)
Quotable(i, m) ==
    /\ mandate[m].status = "active"
    /\ invoice[i].status = "confirmed"
    /\ matchOf[i] = 0
    /\ invoice[i].rating >= mandate[m].floor
    /\ invoice[i].due > now
    /\ Tenor(i) <= mandate[m].tenor

(* Checks 5 to 7; what passes them is what previewMatch reports as `ok`.    *)
Evaluates(i, m) ==
    /\ Quotable(i, m)
    /\ Price(i, m) <= Unallocated(m)
    /\ exposure[m][DebtorOfInvoice(i)] + Price(i, m) <= mandate[m].cap
    /\ CanReceive(invoice[i].bond, mandate[m].buyer)

(* Both entry points: tryMatch and matchInvoice differ only in how they     *)
(* refuse.                                                                  *)
MatchInvoice(i, m) ==
    LET x == <<i, attempts[i] + 1>>
        price == Price(i, m) IN
    /\ now <= MatchBy /\ attempts[i] < Attempts
    /\ Evaluates(i, m)
    /\ attempts' = [attempts EXCEPT ![i] = @ + 1]
    /\ mandate' = [mandate EXCEPT ![m].allocated = @ + price]
    /\ exposure' = [exposure EXCEPT ![m][DebtorOfInvoice(i)] = @ + price]
    /\ matchOf' = [matchOf EXCEPT ![i] = attempts[i] + 1]
    /\ match' = [match EXCEPT ![x] =
                    [status |-> "open", mandate |-> m, receivable |-> invoice[i].receivable,
                     bond |-> invoice[i].bond, buyer |-> mandate[m].buyer, price |-> price,
                     tenor |-> Tenor(i), at |-> now]]
    /\ UNCHANGED <<registryVars, now, credited, auth, deliveryVars>>

-----------------------------------------------------------------------------
(* Settlement.                                                              *)

(* The lock is a claimed delivery of this match's bond, from its seller to  *)
(* its buyer.                                                               *)
Proves(l, x) ==
    /\ lock[l].status = "claimed"
    /\ lock[l].ref = x /\ lock[l].kind = "delivery"
    /\ lock[l].depositor = SellerOf[match[x].receivable]
    /\ lock[l].beneficiary = match[x].buyer
    /\ lock[l].bond = match[x].bond

(* Mutated form: the settlement is recorded and no payout authorised.       *)
ConfirmWithoutPayout(x, l) ==
    LET m == match[x].mandate IN
    /\ match[x].status = "open"
    /\ Proves(l, x)
    /\ match' = [match EXCEPT ![x].status = "settled"]
    /\ mandate' = [mandate EXCEPT ![m].allocated = @ - match[x].price,
                                  ![m].committed = @ - match[x].price]
    /\ UNCHANGED <<registryVars, now, exposure, matchOf, attempts, credited, auth, deliveryVars>>

(* Mutated form: the exposure to the debtor is released at settlement.      *)
ConfirmAndForget(x, l) ==
    LET m == match[x].mandate IN
    /\ match[x].status = "open"
    /\ Proves(l, x)
    /\ match' = [match EXCEPT ![x].status = "settled"]
    /\ mandate' = [mandate EXCEPT ![m].allocated = @ - match[x].price,
                                  ![m].committed = @ - match[x].price]
    /\ exposure' = [exposure EXCEPT ![m][DebtorOf[match[x].receivable]] = @ - match[x].price]
    /\ Issue("payout", m, match[x].price, x)
    /\ UNCHANGED <<registryVars, now, matchOf, attempts, credited, deliveryVars>>

ConfirmSettlement(x, l) ==
    LET m == match[x].mandate IN
    /\ match[x].status = "open"
    /\ Proves(l, x)
    /\ match' = [match EXCEPT ![x].status = "settled"]
    /\ mandate' = [mandate EXCEPT ![m].allocated = @ - match[x].price,
                                  ![m].committed = @ - match[x].price]
    /\ Issue("payout", m, match[x].price, x)
    /\ UNCHANGED <<registryVars, now, exposure, matchOf, attempts, credited, deliveryVars>>

(* Mutated form: a window no longer than the locks it must outlast.         *)
WindowCutShort(x) == now >= match[x].at + MaxLock - 1

WindowElapsed(x) == now >= match[x].at + SettlementWindow

(* Mutated form: only a settler may cancel.                                 *)
CancelBySettler(u, x) ==
    LET m == match[x].mandate IN
    /\ match[x].status = "open"
    /\ u \in Settlers
    /\ match' = [match EXCEPT ![x].status = "cancelled"]
    /\ mandate' = [mandate EXCEPT ![m].allocated = @ - match[x].price]
    /\ exposure' = [exposure EXCEPT ![m][DebtorOf[match[x].receivable]] = @ - match[x].price]
    /\ matchOf' = [matchOf EXCEPT ![x[1]] = 0]
    /\ UNCHANGED <<registryVars, now, attempts, credited, auth, deliveryVars>>

(* A settler at any time, anybody once the window has elapsed.              *)
CancelMatch(u, x) ==
    LET m == match[x].mandate IN
    /\ match[x].status = "open"
    /\ u \in Settlers \/ WindowElapsed(x)
    /\ match' = [match EXCEPT ![x].status = "cancelled"]
    /\ mandate' = [mandate EXCEPT ![m].allocated = @ - match[x].price]
    /\ exposure' = [exposure EXCEPT ![m][DebtorOf[match[x].receivable]] = @ - match[x].price]
    /\ matchOf' = [matchOf EXCEPT ![x[1]] = 0]
    /\ UNCHANGED <<registryVars, now, attempts, credited, auth, deliveryVars>>

(* Issued bonds have one unit, so whoever has the paper is its sole holder. *)
ConfirmMaturity(x, holder) ==
    LET m == match[x].mandate IN
    /\ match[x].status = "settled"
    /\ now >= match[x].at + match[x].tenor * Day
    /\ paper[match[x].bond] = holder
    /\ match' = [match EXCEPT ![x].status = "matured"]
    /\ exposure' = [exposure EXCEPT ![m][DebtorOf[match[x].receivable]] = @ - match[x].price]
    /\ UNCHANGED <<registryVars, now, mandate, matchOf, attempts, credited, auth, deliveryVars>>

-----------------------------------------------------------------------------
(* Delivery: the escrow on Hedera, whose locks hold paper.                  *)

(* A diligent seller opens a lock only for an open match, and lets none      *)
(* outlive its window.                                                      *)
Careful(u, ref, timeout) ==
    \A x \in MatchIds :
        ref = x /\ u \in Sellers =>
            /\ match[x].status = "open"
            /\ timeout <= match[x].at + SettlementWindow

OpenLock(u, l, b, ref, kind, to, timeout) ==
    /\ lock[l].status = "none"
    /\ now + MinLock <= timeout /\ timeout <= now + MaxLock
    /\ Diligent => Careful(u, ref, timeout)
    /\ paper[b] = u
    /\ paper' = [paper EXCEPT ![b] = Escrow]
    /\ lock' = [lock EXCEPT ![l] =
                   [status |-> "locked", ref |-> ref, kind |-> kind, bond |-> b,
                    depositor |-> u, beneficiary |-> to, timeout |-> timeout]]
    /\ UNCHANGED <<registryVars, now, bookVars>>

ClaimLock(u, l) ==
    /\ lock[l].status = "locked" /\ u = lock[l].beneficiary
    /\ now < lock[l].timeout
    /\ paper' = [paper EXCEPT ![lock[l].bond] = u]
    /\ lock' = [lock EXCEPT ![l].status = "claimed"]
    /\ UNCHANGED <<registryVars, now, bookVars>>

RefundLock(u, l) ==
    /\ lock[l].status = "locked" /\ u = lock[l].depositor
    /\ now >= lock[l].timeout
    /\ paper' = [paper EXCEPT ![lock[l].bond] = u]
    /\ lock' = [lock EXCEPT ![l].status = "refunded"]
    /\ UNCHANGED <<registryVars, now, bookVars>>

(* Paper changes hands outside the venue.                                   *)
TransferPaper(u, b, v) ==
    /\ paper[b] = u /\ u # v
    /\ paper' = [paper EXCEPT ![b] = v]
    /\ UNCHANGED <<registryVars, now, bookVars, lock>>

(* A diligent seller confirms a delivery within the instant it is made.     *)
Delivered(x, l) == match[x].status = "open" /\ Proves(l, x)

Tick ==
    /\ now < MaxTime
    /\ Diligent => ~\E x \in MatchIds, l \in LockIds : Delivered(x, l)
    /\ now' = now + 1
    /\ UNCHANGED <<registryVars, bookVars, deliveryVars>>

-----------------------------------------------------------------------------

Registered ==
    /\ \/ \E h \in Receivables, b \in Bonds : BindBond(h, b)
       \/ \E i \in Invoices, b \in Bonds, h \in Receivables, r \in Grades, d \in DueDates :
              List(i, b, h, r, d)
       \/ \E i \in Invoices : \/ \E s \in Statuses : SetStatus(i, s)
                             \/ \E r \in Grades : SetRating(i, r)
                             \/ \E d \in DueDates : AmendDueDate(i, d)
    /\ UNCHANGED <<bookVars, deliveryVars>>

(* What a buyer does with a mandate of their own.                           *)
Bid(u, m) ==
    \/ \E t \in Terms : PostMandate(u, m, t)
    \/ \E n \in Amounts : AuthoriseRelease(u, m, n)
    \/ \E s \in {"active", "paused", "closed"} : SetMandateStatus(u, m, s)

Credited == \E m \in Mandates, n \in Amounts, ref \in Refs : CreditFunding(m, n, ref)

Settle(x) ==
    \/ \E l \in LockIds : ConfirmSettlement(x, l)
    \/ \E u \in Users : CancelMatch(u, x)
    \/ \E h \in Users \cup {Escrow} : ConfirmMaturity(x, h)

Deliver(u) ==
    \/ \E l \in LockIds, b \in Bonds, ref \in MatchIds,
          k \in {"delivery", "payment"}, v \in Users, t \in now..(now + MaxLock) :
              OpenLock(u, l, b, ref, k, v, t)
    \/ \E l \in LockIds : ClaimLock(u, l) \/ RefundLock(u, l)
    \/ \E b \in Bonds, v \in Users : TransferPaper(u, b, v)

(* Everything but the attester's credits, which TwoLegs restricts.          *)
Step ==
    \/ Registered
    \/ \E u \in Users, m \in Mandates : Bid(u, m)
    \/ \E i \in Invoices, m \in Mandates : MatchInvoice(i, m)
    \/ \E x \in MatchIds : Settle(x)
    \/ \E u \in Users : Deliver(u)
    \/ Tick

Next == Step \/ Credited

Spec == Init /\ [][Next]_vars

-----------------------------------------------------------------------------
(* Safety.                                                                  *)

PriceOf == [x \in MatchIds |-> match[x].price]
Held(m, statuses) ==
    {x \in MatchIds : match[x].mandate = m /\ match[x].status \in statuses}
AtStake(m, d) ==
    {x \in Held(m, {"open", "settled"}) : DebtorOf[match[x].receivable] = d}

(* What a mandate has allocated is the price of its open matches, and never *)
(* more than it is committed to: an open match is the only thing that holds *)
(* capital back, and releases, settlements and cancellations in any order   *)
(* neither leak nor double-spend any.                                       *)
AllocatedIsOpen ==
    \A m \in Mandates :
        /\ mandate[m].allocated = Total(PriceOf, Held(m, {"open"}))
        /\ mandate[m].allocated <= mandate[m].committed

(* The exposure to a debtor is what the mandate has open or holds of their  *)
(* paper, and stays within the cap the mandate was posted with.             *)
ExposureExact ==
    \A m \in Mandates, d \in Debtors :
        /\ exposure[m][d] = Total(PriceOf, AtStake(m, d))
        /\ exposure[m][d] <= mandate[m].cap

(* One receivable, one bond, one sale: whatever is listed, cancelled and    *)
(* listed again, at most one match of it is live or was ever settled.       *)
OneSalePerReceivable ==
    \A x, y \in MatchIds :
        /\ match[x].status \in {"open", "settled", "matured"}
        /\ match[y].status \in {"open", "settled", "matured"}
        /\ match[x].bond = match[y].bond \/ match[x].receivable = match[y].receivable
        => x = y

(* Capital goes back to a mandate only when its buyer did not get the       *)
(* paper.  With no settler, and diligent sellers, the window alone sees to  *)
(* it: it is longer than any lock they open.                                *)
CancelledMeansUndelivered ==
    \A x \in MatchIds, l \in LockIds :
        match[x].status = "cancelled" => ~Proves(l, x)

(* Evaluating a match never reverts: whatever a mandate's terms and an      *)
(* invoice's dates, what passes the tenor check is discounted to more than  *)
(* nothing.                                                                 *)
PreviewNeverReverts ==
    \A i \in Invoices, m \in Mandates :
        Quotable(i, m) => Price(i, m) > 0

(* No match is open for ever: it is settled by a delivery or cancelled by   *)
(* anybody once the window has elapsed, with no settler needed.             *)
NothingStranded ==
    \A x \in MatchIds : match[x].status = "open" ~> match[x].status # "open"
=============================================================================

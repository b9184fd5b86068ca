------------------------------- MODULE Market -------------------------------
(***************************************************************************)
(* How a standing bid becomes a trade: the backend prices invoices against *)
(* the mandates of all buyers and arms trades; each buyer's agent reads    *)
(* its own mandates and the book, decides what to take, and arms and pays  *)
(* for it, one invoice after the other.                                    *)
(*                                                                         *)
(* Arming re-prices and awaits the compliance gate and the rail, so other  *)
(* requests run in between.  What happens to the two legs once a rail is   *)
(* chosen is modelled in Settlement, and how capital enters and leaves a   *)
(* mandate in MandateCapital: here a rail settles, fails, or leaves a      *)
(* challenge to be paid, and every mandate is funded from the start.       *)
(***************************************************************************)
EXTENDS Integers, FiniteSets, FiniteSetsExt, Functions, Totals

CONSTANTS
    Agents,     \* buyers operated by an agent
    Keyed,      \* agents that hold a Hedera key
    Mandates,   \* numbered in the order of their ids
    BuyerOf,    \* mandate -> buyer
    Yield,      \* mandate -> annualised yield in basis points
    Limit,      \* mandate -> exposure limit
    DebtorCap,  \* mandate -> limit per debtor
    MaxTenor,   \* mandate -> longest tenor in days
    Takes,      \* mandate -> debtors whose rating is at or above its floor
    Escrowed,   \* mandates whose capital is in the vault
    Invoices,
    Debtors,
    DebtorOf,   \* invoice -> debtor
    Face,       \* invoice -> face value
    Due,        \* invoice -> the day it falls due
    Barred,     \* invoice -> mandates whose buyer its instrument will not admit
    Days,       \* the days the clock shows
    Funded,     \* mandate -> the capital it was funded with
    Quotes,     \* bound: quotes ever materialised, numbered
    Trades,     \* bound: trades ever armed, numbered
    Requests    \* bound: arming requests served at one time

ASSUME MarketAssumption ==
    /\ Keyed \subseteq Agents /\ "a browser" \notin Agents
    /\ Mandates \subseteq Nat /\ IsFiniteSet(Mandates)
    /\ BuyerOf \in [Mandates -> Agents \cup {"another buyer"}]
    /\ Yield \in [Mandates -> Nat]
    /\ Limit \in [Mandates -> Nat]
    /\ DebtorCap \in [Mandates -> Nat]
    /\ MaxTenor \in [Mandates -> Nat]
    /\ Takes \in [Mandates -> SUBSET Debtors]
    /\ Escrowed \subseteq Mandates
    /\ DebtorOf \in [Invoices -> Debtors]
    /\ Face \in [Invoices -> Nat]
    /\ Due \in [Invoices -> Nat]
    /\ Barred \in [Invoices -> SUBSET Mandates]
    /\ Days \subseteq Nat /\ Days # {}
    /\ Funded \in [Mandates -> Nat \ {0}]
    /\ Quotes = 1..Cardinality(Quotes) /\ Trades = 1..Cardinality(Trades)
    /\ IsFiniteSet(Trades)

VARIABLES
    day,      \* the clock, in days
    status,   \* invoice rows
    capital,  \* mandate rows
    quote,    \* quote rows
    trade,    \* trade rows
    request,  \* what each arming request awaits
    agent     \* what each agent does

book == <<status, capital, quote, trade>>
vars == <<day, status, capital, quote, trade, request, agent>>

None == "none"
NoMandate == -1
Browser == "a browser"  \* or a client that stopped waiting: nothing follows its answer
Mine(a) == {m \in Mandates : BuyerOf[m] = a}

Offer == [mandate : Mandates, proceeds : Nat]
NoOffer == [mandate |-> NoMandate, proceeds |-> 0]
(* A quote that was superseded, accepted or has expired is over: only a     *)
(* live one can be filled.                                                  *)
Quote == [invoice : Invoices, mandate : Mandates, proceeds : Nat,
          status : {"live", "over"}]
NoQuote == [status |-> "absent"]
(* `raced` marks a trade priced before, and reserved after, another         *)
(* reservation on its mandate; `payer` is whose key signed.                 *)
Trade == [invoice : Invoices, mandate : Mandates, proceeds : Nat, quote : Quotes,
          status : {"preparing", "awaiting_payment", "settled", "unwound", "failed"},
          raced : BOOLEAN, payer : Agents \cup {None}]
NoTrade == [status |-> "absent"]
Request == [at : {"gate", "rail"}, from : Agents \cup {Browser}, invoice : Invoices,
            quote : Quotes, offer : Offer, raced : BOOLEAN, trade : {0} \cup Trades]
IdleRequest == [at |-> "idle"]

(* A bid as pricing reads it.                                               *)
Bid == [status : {"active", "exhausted"}, committed : Nat, allocated : Nat,
        exposure : [Debtors -> Nat]]
Nothing == [allocated |-> 0, exposure |-> [d \in Debtors |-> 0]]
Taken == [allocated : Nat, exposure : [Debtors -> Nat]]
IdleAgent == [at |-> "idle"]
Tick(a) == [at : {"book", "choose", "quote", "arm", "answer", "pay"},
            read : [Mine(a) -> Bid], payable : SUBSET Mandates,
            rows : SUBSET Invoices, offered : SUBSET Invoices, day : Days,
            took : [Mine(a) -> Taken], invoice : Invoices \cup {None},
            offer : Offer \cup {NoOffer}, quote : {0} \cup Quotes]

TypeOK ==
    /\ day \in Days
    /\ status \in [Invoices -> {"confirmed", "listed", "sold"}]
    /\ capital \in [Mandates -> [status : {"active", "exhausted"},
                                 funded : Nat, allocated : Nat]]
    /\ \A m \in Mandates : capital[m].allocated <= capital[m].funded
    /\ quote \in [Quotes -> Quote \cup {NoQuote}]
    /\ trade \in [Trades -> Trade \cup {NoTrade}]
    /\ request \in [Requests -> Request \cup {IdleRequest}]
    /\ \A a \in Agents : agent[a] = IdleAgent \/ agent[a] \in Tick(a)

Init ==
    /\ day = Min(Days)
    /\ status = [i \in Invoices |-> "confirmed"]
    /\ capital = [m \in Mandates |->
                     [status |-> "active", funded |-> Funded[m], allocated |-> 0]]
    /\ quote = [q \in Quotes |-> NoQuote]
    /\ trade = [t \in Trades |-> NoTrade]
    /\ request = [r \in Requests |-> IdleRequest]
    /\ agent = [a \in Agents |-> IdleAgent]

-----------------------------------------------------------------------------
(* Prices.                                                                 *)

AtLeast0(n) == IF n > 0 THEN n ELSE 0
Lesser(n, k) == IF n < k THEN n ELSE k
CeilDiv(n, d) == (n + d - 1) \div d
Tenor(i) == AtLeast0(Due[i] - day)

(* The discount is rounded up, in the buyer's favour, and never above face. *)
Discount(face, bps, days) == Lesser(face, CeilDiv(face * bps * days, 10000 * 365))
Proceeds(i, m, days) == Face[i] - Discount(Face[i], Yield[m], days)

Exposing == {"preparing", "awaiting_payment", "settled"}
ProceedsOf == [t \in Trades |-> IF trade[t] = NoTrade THEN 0 ELSE trade[t].proceeds]
Against(m, d, statuses) ==
    Total(ProceedsOf, {t \in Trades : /\ trade[t].status \in statuses
                                      /\ trade[t].mandate = m
                                      /\ DebtorOf[trade[t].invoice] = d})

(* Mutated form: a trade is exposure once it has settled.                   *)
SettledExposure(m, d) == Against(m, d, {"settled"})

Exposure(m, d) == Against(m, d, Exposing)

BidOf(m) == [status |-> capital[m].status,
             committed |-> Lesser(capital[m].funded, Limit[m]),
             allocated |-> capital[m].allocated,
             exposure |-> [d \in Debtors |-> Exposure(m, d)]]
Bids == [m \in Mandates |-> BidOf(m)]

Unallocated(bid) == AtLeast0(bid.committed - bid.allocated)
Room(m, bid, d) == AtLeast0(DebtorCap[m] - bid.exposure[d])

Screened(i, m, bid, days) ==
    /\ bid.status = "active"
    /\ DebtorOf[i] \in Takes[m]
    /\ days <= MaxTenor[m]

(* A screened bid as a candidate for an invoice.                            *)
Candidate(i, m, bid, days) ==
    [mandate |-> m, proceeds |-> Proceeds(i, m, days), yield |-> Yield[m],
     depth |-> Unallocated(bid), room |-> Room(m, bid, DebtorOf[i])]

Fits(c) == c.proceeds <= c.depth /\ c.proceeds <= c.room

Matches(i, bids, days) ==
    LET screened == {m \in DOMAIN bids : Screened(i, m, bids[m], days)}
    IN  {c \in {Candidate(i, m, bids[m], days) : m \in screened} : Fits(c)}

(* The order of the venue: the lowest yield, the deepest bid, the most room *)
(* for the debtor, the lowest id.                                           *)
Better(c, e) ==
    \/ c.yield < e.yield
    \/ c.yield = e.yield /\ c.depth > e.depth
    \/ c.yield = e.yield /\ c.depth = e.depth /\ c.room > e.room
    \/ c.yield = e.yield /\ c.depth = e.depth /\ c.room = e.room /\ c.mandate <= e.mandate

BestQuote(pool) == {c \in pool : \A e \in pool : Better(c, e)}

MaxComplianceFallthrough == 3

(* The winner is asked of the instrument, and dropped if barred, three      *)
(* times at most: the fourth stands.                                        *)
Pool(matches, barred) ==
    LET ahead(c) == {e \in matches \ {c} : Better(e, c)}
    IN  {c \in matches : \/ c.mandate \notin barred
                        \/ Cardinality(ahead(c)) >= MaxComplianceFallthrough}

(* What the venue may offer for an invoice; an instrument that cannot be    *)
(* read moves no price.                                                     *)
Offers(i) ==
    LET matches == Matches(i, Bids, Tenor(i))
        best == UNION {BestQuote(Pool(matches, barred)) : barred \in {Barred[i], {}}}
    IN  {[mandate |-> c.mandate, proceeds |-> c.proceeds] : c \in best}

-----------------------------------------------------------------------------
(* Buyers, sellers and the clock.                                          *)

Reopened(c) == IF c.status = "exhausted" /\ c.allocated < c.funded
               THEN [c EXCEPT !.status = "active"] ELSE c
Allocated(c, n) ==
    LET after == [c EXCEPT !.allocated = @ + n]
    IN  IF after.allocated >= c.funded THEN [after EXCEPT !.status = "exhausted"] ELSE after
Released(c, n) == Reopened([c EXCEPT !.allocated = AtLeast0(@ - n)])

List(i) ==
    /\ status[i] = "confirmed"
    /\ status' = [status EXCEPT ![i] = "listed"]
    /\ UNCHANGED <<day, capital, quote, trade, request, agent>>

(* A quote lives for minutes: none outlives the day it was priced on.       *)
Expired(q) == IF q.status = "live" THEN [q EXCEPT !.status = "over"] ELSE q

NextDay ==
    /\ \E d \in Days : d > day
    /\ day' = Min({d \in Days : d > day})
    /\ quote' = [q \in Quotes |-> Expired(quote[q])]
    /\ UNCHANGED <<status, capital, trade, request, agent>>

Live(i) == {q \in Quotes : quote[q].status = "live" /\ quote[q].invoice = i}
Fresh(rows, absent) == {n \in DOMAIN rows : /\ rows[n] = absent
                                           /\ \A k \in DOMAIN rows : rows[k] = absent => n <= k}

(* An identical live quote is given out again; any other is superseded.     *)
Materialise(i, offer, q) ==
    LET row == [invoice |-> i, mandate |-> offer.mandate, proceeds |-> offer.proceeds,
                status |-> "live"]
    IN  \/ /\ q \in Live(i) /\ quote[q] = row
           /\ UNCHANGED quote
        \/ /\ \A p \in Live(i) : quote[p] # row
           /\ q \in Fresh(quote, NoQuote)
           /\ quote' = [p \in Quotes |-> IF p = q THEN row
                                         ELSE IF p \in Live(i)
                                              THEN [quote[p] EXCEPT !.status = "over"]
                                              ELSE quote[p]]

(* A seller opens an invoice and is shown a price.                          *)
Look(i) ==
    /\ status[i] # "sold"
    /\ \E offer \in Offers(i), q \in Quotes : Materialise(i, offer, q)
    /\ UNCHANGED <<day, status, capital, trade, request, agent>>

-----------------------------------------------------------------------------
(* Arming a trade.                                                         *)

Fillable(i, q) == /\ status[i] = "listed"
                  /\ quote[q].status = "live" /\ quote[q].invoice = i

(* Mutated form: whatever the book pays now is taken.                       *)
TakesAnyPrice(q, offer) == TRUE

(* A seller who allowed no slippage is filled at what was accepted or more. *)
WithinTolerance(q, offer) == offer.proceeds >= quote[q].proceeds

(* The invoice is priced anew; the gate is asked about the buyer it found.  *)
Arm(r, from, i, q) ==
    /\ request[r] = IdleRequest
    /\ Fillable(i, q)
    /\ \E offer \in Offers(i) :
         /\ WithinTolerance(q, offer)
         /\ request' = [request EXCEPT ![r] =
                [at |-> "gate", from |-> from, invoice |-> i, quote |-> q,
                 offer |-> offer, raced |-> FALSE, trade |-> 0]]

SellerArms(r, i, q) ==
    /\ Arm(r, Browser, i, q)
    /\ UNCHANGED <<day, book, agent>>

NextRow(a) == agent' = [agent EXCEPT ![a] = [@ EXCEPT !.at = "choose", !.invoice = None,
                                                     !.offer = NoOffer, !.quote = 0]]

(* An agent that waits for an answer goes on to the next row, or to pay.    *)
Answered(r, at) ==
    LET a == request[r].from
    IN  IF a \notin Agents THEN UNCHANGED agent
        ELSE IF at = "pay" THEN agent' = [agent EXCEPT ![a].at = at] ELSE NextRow(a)
Ends(r) == request' = [request EXCEPT ![r] = IdleRequest]

(* The gate bars the buyer or cannot read the instrument, or the capital    *)
(* has gone since.                                                          *)
GateRefuses(r) ==
    /\ request[r].at = "gate"
    /\ Ends(r)
    /\ Answered(r, "choose")
    /\ UNCHANGED <<day, book>>

Racing(r, m) == [s \in Requests |->
    IF s # r /\ request[s].at = "gate" /\ request[s].offer.mandate = m
    THEN [request[s] EXCEPT !.raced = TRUE] ELSE request[s]]

Affords(m, n) == n <= AtLeast0(capital[m].funded - capital[m].allocated)

(* Only the mandate's balance is checked again before it is reserved.       *)
Reserve(r, t) ==
    LET req == request[r]
        m == req.offer.mandate
    IN  /\ req.at = "gate"
        /\ m \notin Barred[req.invoice]
        /\ Affords(m, req.offer.proceeds)
        /\ t \in Fresh(trade, NoTrade)
        /\ capital' = [capital EXCEPT ![m] = Allocated(@, req.offer.proceeds)]
        /\ trade' = [trade EXCEPT ![t] =
               [invoice |-> req.invoice, mandate |-> m, proceeds |-> req.offer.proceeds,
                quote |-> req.quote, status |-> "preparing",
                raced |-> req.raced, payer |-> None]]
        /\ request' = [Racing(r, m) EXCEPT ![r] = [req EXCEPT !.at = "rail", !.trade = t]]
        /\ UNCHANGED <<day, status, quote, agent>>

Held(i) == \E t \in Trades : /\ trade[t].status \in {"awaiting_payment", "settled"}
                             /\ trade[t].invoice = i

GiveBack(t, ending) ==
    /\ capital' = [capital EXCEPT ![trade[t].mandate] = Released(@, trade[t].proceeds)]
    /\ trade' = [trade EXCEPT ![t].status = ending]

(* The position is held by another trade already, or a chain fails.         *)
RailFails(r) ==
    /\ request[r].at = "rail"
    /\ GiveBack(request[r].trade, "failed")
    /\ Ends(r)
    /\ Answered(r, "choose")
    /\ UNCHANGED <<day, status, quote>>

Settle(t, payer) ==
    /\ trade' = [trade EXCEPT ![t] = [@ EXCEPT !.status = "settled", !.payer = payer]]
    /\ status' = [status EXCEPT ![trade[t].invoice] = "sold"]
    /\ quote' = [quote EXCEPT ![trade[t].quote].status = "over"]

(* The vault is read to hold the mandate's capital and pays: 200.           *)
VaultSettles(r) ==
    LET t == request[r].trade
    IN  /\ request[r].at = "rail"
        /\ trade[t].mandate \in Escrowed
        /\ ~Held(request[r].invoice)
        /\ Settle(t, None)
        /\ Ends(r)
        /\ Answered(r, "choose")
        /\ UNCHANGED <<day, capital>>

(* The vault holds nothing for it or cannot be read: 402, and a challenge.  *)
Challenges(r) ==
    LET t == request[r].trade
    IN  /\ request[r].at = "rail"
        /\ ~Held(request[r].invoice)
        /\ trade' = [trade EXCEPT ![t].status = "awaiting_payment"]
        /\ Ends(r)
        /\ Answered(r, "pay")
        /\ UNCHANGED <<day, status, capital, quote>>

Unwind(t) ==
    /\ GiveBack(t, "unwound")
    /\ quote' = [quote EXCEPT ![trade[t].quote].status = "over"]

(* A challenge nobody paid runs out and its capital is reclaimed.           *)
Reclaim(t) ==
    /\ trade[t].status = "awaiting_payment"
    /\ Unwind(t)
    /\ UNCHANGED <<day, status, request, agent>>

-----------------------------------------------------------------------------
(* An agent's tick.                                                        *)

(* A mandate can be paid for if the vault is read to back it, or by a key   *)
(* whose account has something in it; either read may fail.                 *)
ReadMandates(a) ==
    /\ agent[a] = IdleAgent
    /\ \E payable \in (IF a \in Keyed THEN {Mine(a)} ELSE {}) \cup SUBSET (Escrowed \cap Mine(a)) :
         agent' = [agent EXCEPT ![a] =
             [at |-> "book", read |-> [m \in Mine(a) |-> BidOf(m)], payable |-> payable,
              rows |-> {}, offered |-> {}, day |-> day,
              took |-> [m \in Mine(a) |-> Nothing], invoice |-> None,
              offer |-> NoOffer, quote |-> 0]]
    /\ UNCHANGED <<day, book, request>>

ReadBook(a) ==
    /\ agent[a].at = "book"
    /\ agent' = [agent EXCEPT ![a] =
          [@ EXCEPT !.at = "choose", !.day = day,
                    !.rows = {i \in Invoices : status[i] # "sold"},
                    !.offered = {i \in Invoices : status[i] = "listed"}]]
    /\ UNCHANGED <<day, book, request>>

RowTenor(a, i) == AtLeast0(Due[i] - agent[a].day)

(* Mutated form: what the tick took is forgotten.                           *)
AsRead(a, m) == agent[a].read[m]

(* The mandate as the tick sees it: as it was read, less what was taken.    *)
Current(a, m) ==
    [agent[a].read[m] EXCEPT
        !.allocated = @ + agent[a].took[m].allocated,
        !.exposure = [d \in Debtors |-> @[d] + agent[a].took[m].exposure[d]]]

(* The agent's own screens, in the order and with the bounds of the venue.  *)
Decides(a, i, m) ==
    LET bid == Current(a, m)
        required == Proceeds(i, m, RowTenor(a, i))
    IN  /\ bid.status = "active"
        /\ DebtorOf[i] \in Takes[m]
        /\ RowTenor(a, i) <= MaxTenor[m]
        /\ Unallocated(bid) >= required
        /\ Room(m, bid, DebtorOf[i]) >= required
Accepts(a, i) == {m \in Mine(a) : Decides(a, i, m)}

(* Mutated form: a tie on price goes to the lowest id at once.              *)
PrefersLowest(a, m, n) ==
    \/ Yield[m] < Yield[n]
    \/ Yield[m] = Yield[n] /\ m <= n

(* The lowest yield, the deepest bid, the lowest id.                        *)
Prefers(a, m, n) ==
    LET depth(k) == Unallocated(Current(a, k))
    IN  \/ Yield[m] < Yield[n]
        \/ Yield[m] = Yield[n] /\ depth(m) > depth(n)
        \/ Yield[m] = Yield[n] /\ depth(m) = depth(n) /\ m <= n
PickBest(a, i) == CHOOSE m \in Accepts(a, i) : \A n \in Accepts(a, i) : Prefers(a, m, n)

(* What was taken, and n more of a debtor.                                  *)
Plus(taken, d, n) == [allocated |-> taken.allocated + n,
                      exposure |-> [taken.exposure EXCEPT ![d] = @ + n]]
RowDone(tick, i) == [tick EXCEPT !.rows = @ \ {i}, !.offered = @ \ {i}]

(* No mandate takes the row, or no rail could pay for it.                   *)
Pass(a, i) ==
    /\ agent[a].at = "choose"
    /\ i \in agent[a].rows
    /\ Accepts(a, i) # {} => PickBest(a, i) \notin agent[a].payable
    /\ agent' = [agent EXCEPT ![a] = RowDone(@, i)]
    /\ UNCHANGED <<day, book, request>>

(* The tick commits to the row, whatever the venue will answer, and asks    *)
(* for its price if it is offered for sale.                                 *)
Take(a, i) ==
    LET m == PickBest(a, i)
        n == Proceeds(i, m, RowTenor(a, i))
    IN  /\ agent[a].at = "choose"
        /\ i \in agent[a].rows
        /\ Accepts(a, i) # {}
        /\ m \in agent[a].payable
        /\ LET after == [RowDone(agent[a], i) EXCEPT !.took[m] = Plus(@, DebtorOf[i], n)]
           IN  agent' = [agent EXCEPT ![a] =
                  IF i \notin agent[a].offered THEN after
                  ELSE [after EXCEPT !.at = "quote", !.invoice = i,
                                     !.offer = [mandate |-> m, proceeds |-> n]]]
        /\ UNCHANGED <<day, book, request>>

(* Mutated form: whoever's bid the venue quotes, at whatever price.         *)
TakesAnyQuote(a, q) ==
    /\ agent[a].at = "quote"
    /\ \E offer \in Offers(agent[a].invoice) : Materialise(agent[a].invoice, offer, q)
    /\ agent' = [agent EXCEPT ![a] = [@ EXCEPT !.at = "arm", !.quote = q]]
    /\ UNCHANGED <<day, status, capital, trade, request>>

(* The venue's price is the agent's own bid, and for no more than it gave.  *)
QuoteAgrees(a, q) ==
    /\ agent[a].at = "quote"
    /\ \E offer \in Offers(agent[a].invoice) :
         /\ offer.mandate = agent[a].offer.mandate
         /\ offer.proceeds <= agent[a].offer.proceeds
         /\ Materialise(agent[a].invoice, offer, q)
    /\ agent' = [agent EXCEPT ![a] = [@ EXCEPT !.at = "arm", !.quote = q]]
    /\ UNCHANGED <<day, status, capital, trade, request>>

(* It is another's bid, or dearer, or none, or the request fails.           *)
QuoteDiffers(a) ==
    /\ agent[a].at = "quote"
    /\ \/ UNCHANGED quote
       \/ \E offer \in Offers(agent[a].invoice), q \in Quotes :
            Materialise(agent[a].invoice, offer, q)
    /\ NextRow(a)
    /\ UNCHANGED <<day, status, capital, trade, request>>

AgentArms(a, r) ==
    /\ agent[a].at = "arm"
    /\ Arm(r, a, agent[a].invoice, agent[a].quote)
    /\ agent' = [agent EXCEPT ![a].at = "answer"]
    /\ UNCHANGED <<day, book>>

(* The venue refuses before it asks the gate, or cannot be reached.         *)
ArmRefused(a) ==
    /\ agent[a].at = "arm"
    /\ NextRow(a)
    /\ UNCHANGED <<day, book, request>>

(* A timeout is not a rollback: the venue goes on with the request.         *)
GivesUp(a) ==
    /\ agent[a].at = "answer"
    /\ NextRow(a)
    /\ request' = [r \in Requests |->
          IF request[r] # IdleRequest /\ request[r].from = a
          THEN [request[r] EXCEPT !.from = Browser] ELSE request[r]]
    /\ UNCHANGED <<day, book>>

IsNewest(t, i) == /\ trade[t] # NoTrade /\ trade[t].invoice = i
                  /\ \A u \in Trades : trade[u] # NoTrade /\ trade[u].invoice = i => u <= t

(* The payment is for the newest trade of the invoice.                      *)
Payment(a, t) == /\ agent[a].at = "pay" /\ a \in Keyed
                 /\ IsNewest(t, agent[a].invoice)
                 /\ trade[t].quote = agent[a].quote
                 /\ trade[t].status = "awaiting_payment"

AgentPays(a, t) ==
    /\ Payment(a, t)
    /\ Settle(t, a)
    /\ NextRow(a)
    /\ UNCHANGED <<day, capital, request>>

PaymentDeclined(a, t) ==
    /\ Payment(a, t)
    /\ Unwind(t)
    /\ NextRow(a)
    /\ UNCHANGED <<day, status, request>>

(* No key, not enough in the account, no such trade now, or no answer.      *)
DoesNotPay(a) ==
    /\ agent[a].at = "pay"
    /\ NextRow(a)
    /\ UNCHANGED <<day, book, request>>

EndTick(a) ==
    /\ agent[a].at = "choose" /\ agent[a].rows = {}
    /\ agent' = [agent EXCEPT ![a] = IdleAgent]
    /\ UNCHANGED <<day, book, request>>

(* A read fails and the tick with it, or the process is restarted.          *)
TickFails(a) ==
    /\ agent[a] # IdleAgent
    /\ agent' = [agent EXCEPT ![a] = IdleAgent]
    /\ request' = [r \in Requests |->
          IF request[r] # IdleRequest /\ request[r].from = a
          THEN [request[r] EXCEPT !.from = Browser] ELSE request[r]]
    /\ UNCHANGED <<day, book>>

Ticks(a) ==
    \/ ReadMandates(a) \/ ReadBook(a) \/ EndTick(a)
    \/ \E i \in Invoices : Pass(a, i) \/ Take(a, i)
    \/ \E q \in Quotes : QuoteAgrees(a, q)
    \/ QuoteDiffers(a)
    \/ \E r \in Requests : AgentArms(a, r)
    \/ ArmRefused(a) \/ GivesUp(a)
    \/ \E t \in Trades : AgentPays(a, t) \/ PaymentDeclined(a, t)
    \/ DoesNotPay(a)

Serves(r) ==
    \/ \E i \in Invoices, q \in Quotes : SellerArms(r, i, q)
    \/ GateRefuses(r)
    \/ \E t \in Trades : Reserve(r, t)
    \/ RailFails(r) \/ VaultSettles(r) \/ Challenges(r)

Next ==
    \/ \E i \in Invoices : List(i) \/ Look(i)
    \/ NextDay
    \/ \E r \in Requests : Serves(r)
    \/ \E t \in Trades : Reclaim(t)
    \/ \E a \in Agents : Ticks(a) \/ TickFails(a)

Spec == Init /\ [][Next]_vars

-----------------------------------------------------------------------------
(* Properties.                                                             *)

(* What one tick takes, on top of what the venue said was taken, stays      *)
(* within the mandate's capital and its cap for each debtor, however the    *)
(* venue answers: the agent's running allocations in `tick`.                *)
TickWithinMandates ==
    \A a \in Agents : agent[a] # IdleAgent =>
        \A m \in Mine(a) : agent[a].took[m] # Nothing =>
            LET told == agent[a].read[m]
                took == agent[a].took[m]
            IN  /\ told.allocated + took.allocated <= told.committed
                /\ \A d \in Debtors : took.exposure[d] > 0 =>
                       told.exposure[d] + took.exposure[d] <= DebtorCap[m]

(* Where they part, the agent's choice has the same yield and the same depth *)
(* as the venue's, and less room for the debtor.                            *)
PartByRoom(i, picked, best) ==
    /\ Yield[picked] = best.yield
    /\ Unallocated(BidOf(picked)) = best.depth
    /\ Room(picked, BidOf(picked), DebtorOf[i]) < best.room

(* While what the tick believes of its mandates is what the venue holds,    *)
(* both screen the same bids and the agent takes a row on the bid the venue *)
(* ranks first among them, with one exception.  The comment on `pickBest`   *)
(* says that it mirrors `bestQuote` exactly, but `compareCandidates` breaks *)
(* a tie of yield and depth by the room for the debtor before the id, and   *)
(* `pickBest` does not: there the agent commits to a bid that the venue     *)
(* does not quote, and gives the row up (QuoteDiffers).                     *)
PartsOnlyByRoom ==
    \A a \in Agents : agent[a].at \in {"book", "choose"} /\ agent[a].day = day =>
        \A i \in Invoices :
            LET mine == Matches(i, [m \in Mine(a) |-> BidOf(m)], Tenor(i))
            IN  (\A m \in Mine(a) : Current(a, m) = BidOf(m)) =>
                /\ Accepts(a, i) = {c.mandate : c \in mine}
                /\ \A best \in BestQuote(mine) :
                     LET picked == PickBest(a, i)
                     IN  picked = best.mandate \/ PartByRoom(i, picked, best)

(* No trade is armed for less than the quote that was accepted for it, the  *)
(* book, the buyer and the day having changed as they may in between:       *)
(* re-pricing in `prepareTrade`.                                            *)
NeverBelowAccepted ==
    \A t \in Trades : trade[t] # NoTrade =>
        trade[t].proceeds >= quote[trade[t].quote].proceeds

(* A mandate holds more than its limit, or more of one debtor than its cap, *)
(* only after two armings overlapped, one priced before the other reserved: *)
(* `allocate` looks at neither again.                                       *)
LimitsBrokenOnlyByRaces ==
    \A m \in Mandates :
        \/ /\ capital[m].allocated <= Limit[m]
           /\ \A d \in Debtors : Against(m, d, Exposing) <= DebtorCap[m]
        \/ \E t \in Trades : trade[t] # NoTrade /\ trade[t].mandate = m /\ trade[t].raced

(* What an agent pays for was accepted at a quote on a mandate of its own,  *)
(* whoever armed the trade, gave up on it or armed another meanwhile: it    *)
(* buys for another only when arming moved the trade off that quote's       *)
(* mandate, which nothing it looks at before it signs would show.           *)
PaysUnderItsOwnQuote ==
    \A t \in Trades : trade[t] # NoTrade /\ trade[t].payer # None =>
        BuyerOf[quote[trade[t].quote].mandate] = trade[t].payer
=============================================================================

---------------------------- MODULE MarketProofs ----------------------------
(* Market for any agents, mandates, invoices and requests: what a price     *)
(* that was agreed on binds, what breaks a limit, that a tick stays within  *)
(* what it read, and that agent and venue rank bids alike, however armings, *)
(* ticks, payments and the clock interleave.                                *)
EXTENDS Market, TotalProofs, TLAPS

(* What a row, a request or a tick is made of, as far as it matters here.   *)
QuoteFields == {"invoice", "mandate", "proceeds", "status"}
TradeFields == {"invoice", "mandate", "proceeds", "quote", "status", "raced", "payer"}
RequestFields == {"at", "from", "invoice", "quote", "offer", "raced", "trade"}
TickFields == {"at", "read", "payable", "rows", "offered", "day", "took", "invoice",
               "offer", "quote"}

Priced(q) == q \in Quotes /\ quote[q].status # "absent"
Armed(t) == t \in Trades /\ trade[t].status # "absent"

QuotesShaped ==
    /\ DOMAIN quote = Quotes
    /\ \A q \in Quotes : "status" \in DOMAIN quote[q]
    /\ \A q \in Quotes : quote[q].status # "absent" => DOMAIN quote[q] = QuoteFields

TradesShaped ==
    /\ DOMAIN trade = Trades
    /\ \A t \in Trades : "status" \in DOMAIN trade[t]
    /\ \A t \in Trades : trade[t].status # "absent" => DOMAIN trade[t] = TradeFields
    /\ \A t \in Trades : trade[t].status = "absent" => trade[t] = NoTrade

RequestsShaped ==
    /\ DOMAIN request = Requests
    /\ \A r \in Requests : request[r].at # "idle" => DOMAIN request[r] = RequestFields
    /\ \A r \in Requests : request[r].at = "idle" => request[r] = IdleRequest

AgentsShaped ==
    /\ DOMAIN agent = Agents
    /\ \A a \in Agents : agent[a].at # "idle" => DOMAIN agent[a] = TickFields
    /\ \A a \in Agents : agent[a].at = "idle" => agent[a] = IdleAgent

Shaped == QuotesShaped /\ TradesShaped /\ RequestsShaped /\ AgentsShaped

(* A trade costs the buyer what its seller accepted or more, and whoever    *)
(* paid for it accepted at a mandate of their own.                          *)
TradesHonour ==
    \A t \in Trades : trade[t].status # "absent" =>
        /\ Priced(trade[t].quote)
        /\ trade[t].proceeds >= quote[trade[t].quote].proceeds
        /\ trade[t].payer # None => BuyerOf[quote[trade[t].quote].mandate] = trade[t].payer

RequestsHonour ==
    \A r \in Requests : request[r].at # "idle" =>
        /\ Priced(request[r].quote)
        /\ request[r].offer.proceeds >= quote[request[r].quote].proceeds
        /\ request[r].at = "rail" => Armed(request[r].trade)

(* An agent arms and pays only under a quote on a mandate of its own.       *)
AgentsHonour ==
    \A a \in Agents :
        /\ agent[a].at # "idle" => agent[a].payable \subseteq Mine(a)
        /\ agent[a].at = "quote" => agent[a].offer.mandate \in Mine(a)
        /\ agent[a].at \in {"arm", "answer", "pay"} =>
               /\ Priced(agent[a].quote)
               /\ BuyerOf[quote[agent[a].quote].mandate] = a

(* An agent has one request at the venue at most, and waits for its answer. *)
Asks(r, a) == request[r].at # "idle" /\ request[r].from = a
Waiting ==
    \A a \in Agents, r \in Requests : Asks(r, a) =>
        agent[a].at = "answer" /\ \A s \in Requests : Asks(s, a) => s = r

MarketInv == Shaped /\ TradesHonour /\ RequestsHonour /\ AgentsHonour /\ Waiting

LEMMA MarketInvInit == Init => MarketInv
<1> SUFFICES ASSUME Init PROVE MarketInv
  OBVIOUS
<1>1. QuotesShaped
  BY DEF Init, QuotesShaped, NoQuote
<1>2. TradesShaped /\ TradesHonour
  BY DEF Init, TradesShaped, TradesHonour, NoTrade
<1>3. RequestsShaped /\ RequestsHonour
  BY DEF Init, RequestsShaped, RequestsHonour, IdleRequest
<1>5. Waiting
  BY DEF Init, Waiting, Asks, IdleRequest
<1>4. AgentsShaped /\ AgentsHonour
  BY DEF Init, AgentsShaped, AgentsHonour, IdleAgent
<1> QED
  BY <1>1, <1>2, <1>3, <1>4, <1>5 DEF MarketInv, Shaped

(* Quotes are only added to and marked over: what was priced stands.        *)
Stands ==
    /\ QuotesShaped'
    /\ \A q \in Quotes : quote[q].status # "absent" =>
           /\ quote'[q].status # "absent"
           /\ quote'[q].mandate = quote[q].mandate
           /\ quote'[q].proceeds = quote[q].proceeds

LEMMA StandsUnchanged ==
    ASSUME QuotesShaped, UNCHANGED quote PROVE Stands
BY DEF Stands, QuotesShaped

LEMMA StandsOver ==
    ASSUME QuotesShaped, NEW q \in Quotes, quote[q].status # "absent",
           quote' = [quote EXCEPT ![q].status = "over"]
    PROVE  Stands
<1>1. /\ DOMAIN quote' = Quotes
      /\ \A p \in Quotes : p # q => quote'[p] = quote[p]
      /\ quote'[q] = [quote[q] EXCEPT !.status = "over"]
  BY DEF QuotesShaped
<1>2. /\ DOMAIN quote'[q] = QuoteFields
      /\ quote'[q].status = "over"
      /\ quote'[q].mandate = quote[q].mandate
      /\ quote'[q].proceeds = quote[q].proceeds
  BY <1>1 DEF QuotesShaped, QuoteFields
<1>3. QuotesShaped'
  BY <1>1, <1>2 DEF QuotesShaped, QuoteFields
<1> QED
  BY <1>1, <1>2, <1>3 DEF Stands

LEMMA StandsExpired ==
    ASSUME QuotesShaped, quote' = [q \in Quotes |-> Expired(quote[q])]
    PROVE  Stands
<1>1. /\ DOMAIN quote' = Quotes
      /\ \A q \in Quotes : quote'[q] = Expired(quote[q])
  OBVIOUS
<1>2. ASSUME NEW q \in Quotes
      PROVE  /\ DOMAIN quote'[q] = DOMAIN quote[q]
             /\ quote[q].status = "absent" => quote'[q] = quote[q]
             /\ quote[q].status # "absent" =>
                   /\ quote'[q].status # "absent"
                   /\ quote'[q].mandate = quote[q].mandate
                   /\ quote'[q].proceeds = quote[q].proceeds
  <2>1. CASE quote[q].status # "live"
    BY <1>1, <2>1 DEF Expired
  <2>2. CASE quote[q].status = "live"
    <3>1. quote'[q] = [quote[q] EXCEPT !.status = "over"]
      BY <1>1, <2>2 DEF Expired
    <3>2. DOMAIN quote[q] = QuoteFields
      BY <2>2 DEF QuotesShaped
    <3> QED
      BY <2>2, <3>1, <3>2 DEF QuoteFields
  <2> QED
    BY <2>1, <2>2
<1>3. QuotesShaped'
  BY <1>1, <1>2 DEF QuotesShaped
<1> QED
  BY <1>2, <1>3 DEF Stands

LEMMA StandsMaterialised ==
    ASSUME QuotesShaped, NEW i, NEW offer, NEW q, Materialise(i, offer, q)
    PROVE  /\ Stands
           /\ Priced(q)'
           /\ quote'[q].mandate = offer.mandate
<1> DEFINE row == [invoice |-> i, mandate |-> offer.mandate,
                   proceeds |-> offer.proceeds, status |-> "live"]
<1>1. CASE q \in Live(i) /\ quote[q] = row /\ UNCHANGED quote
  BY <1>1, StandsUnchanged DEF Live, Priced, Stands
<1>2. CASE /\ q \in Fresh(quote, NoQuote)
           /\ quote' = [p \in Quotes |-> IF p = q THEN row
                                         ELSE IF p \in Live(i)
                                              THEN [quote[p] EXCEPT !.status = "over"]
                                              ELSE quote[p]]
  <2>1. q \in Quotes /\ quote[q] = NoQuote
    BY <1>2 DEF Fresh, QuotesShaped
  <2>2. quote[q].status = "absent"
    BY <2>1 DEF NoQuote
  <2>3. /\ quote'[q] = row
        /\ DOMAIN quote'[q] = QuoteFields /\ quote'[q].status = "live"
        /\ quote'[q].mandate = offer.mandate
    BY <1>2, <2>1 DEF QuoteFields
  <2>4. ASSUME NEW p \in Quotes, p # q
        PROVE  /\ DOMAIN quote'[p] = DOMAIN quote[p]
               /\ quote[p].status = "absent" => quote'[p] = quote[p]
               /\ quote[p].status # "absent" =>
                     /\ quote'[p].status # "absent"
                     /\ quote'[p].mandate = quote[p].mandate
                     /\ quote'[p].proceeds = quote[p].proceeds
    <3>1. CASE p \notin Live(i)
      BY <1>2, <2>4, <3>1
    <3>2. CASE p \in Live(i)
      <4>1. quote'[p] = [quote[p] EXCEPT !.status = "over"]
        BY <1>2, <2>4, <3>2
      <4>2. quote[p].status = "live" /\ DOMAIN quote[p] = QuoteFields
        BY <3>2 DEF Live, QuotesShaped
      <4> QED
        BY <4>1, <4>2 DEF QuoteFields
    <3> QED
      BY <3>1, <3>2
  <2>5. QuotesShaped'
    <3>1. DOMAIN quote' = Quotes
      BY <1>2
    <3> QED
      BY <2>3, <2>4, <3>1 DEF QuotesShaped, QuoteFields
  <2> QED
    BY <2>1, <2>2, <2>3, <2>4, <2>5 DEF Stands, Priced
<1> QED
  BY <1>1, <1>2 DEF Materialise

(* Every step: quotes stand.                                                *)
LEMMA NextStands == MarketInv /\ [Next]_vars => Stands
<1> SUFFICES ASSUME MarketInv, [Next]_vars PROVE Stands
  OBVIOUS
<1>0. QuotesShaped /\ TradesHonour /\ RequestsHonour /\ TradesShaped
  BY DEF MarketInv, Shaped
<1>1. UNCHANGED quote => Stands
  BY <1>0, StandsUnchanged
<1>2. ASSUME NEW t \in Trades, trade[t].status # "absent",
             quote' = [quote EXCEPT ![trade[t].quote].status = "over"]
      PROVE  Stands
  <2>1. Priced(trade[t].quote)
    BY <1>0, <1>2 DEF TradesHonour
  <2> QED
    BY <1>0, <1>2, <2>1, StandsOver DEF Priced
<1>3. ASSUME NEW i \in Invoices, List(i) \/ Look(i) PROVE Stands
  BY <1>0, <1>1, <1>3, StandsMaterialised DEF List, Look
<1>4. CASE NextDay
  BY <1>0, <1>4, StandsExpired DEF NextDay
<1>5. ASSUME NEW r \in Requests, Serves(r) PROVE Stands
  <2>1. CASE VaultSettles(r)
    <3>1. /\ request[r].trade \in Trades /\ trade[request[r].trade].status # "absent"
      BY <1>0, <2>1 DEF VaultSettles, RequestsHonour, Armed
    <3> QED
      BY <1>2, <2>1, <3>1 DEF VaultSettles, Settle
  <2>2. CASE ~VaultSettles(r)
    BY <1>1, <1>5, <2>2
    DEF Serves, SellerArms, GateRefuses, Reserve, RailFails, Challenges, book
  <2> QED
    BY <2>1, <2>2
<1>6. ASSUME NEW t \in Trades, Reclaim(t) PROVE Stands
  BY <1>2, <1>6 DEF Reclaim, Unwind
<1>7. ASSUME NEW a \in Agents, Ticks(a) PROVE Stands
  <2>1. ASSUME NEW q \in Quotes, QuoteAgrees(a, q) PROVE Stands
    BY <1>0, <2>1, StandsMaterialised DEF QuoteAgrees
  <2>2. CASE QuoteDiffers(a)
    BY <1>0, <1>1, <2>2, StandsMaterialised DEF QuoteDiffers
  <2>3. ASSUME NEW t \in Trades, AgentPays(a, t) \/ PaymentDeclined(a, t) PROVE Stands
    BY <1>2, <2>3 DEF AgentPays, PaymentDeclined, Payment, Settle, Unwind
  <2>4. ASSUME ReadMandates(a) \/ ReadBook(a) \/ EndTick(a)
               \/ (\E i \in Invoices : Pass(a, i) \/ Take(a, i))
               \/ (\E r \in Requests : AgentArms(a, r))
               \/ ArmRefused(a) \/ GivesUp(a) \/ DoesNotPay(a)
        PROVE  Stands
    BY <1>1, <2>4 DEF ReadMandates, ReadBook, EndTick, Pass, Take, AgentArms, ArmRefused,
                      GivesUp, DoesNotPay, book
  <2> QED
    BY <1>7, <2>1, <2>2, <2>3, <2>4 DEF Ticks
<1>8. ASSUME NEW a \in Agents, TickFails(a) PROVE Stands
  BY <1>1, <1>8 DEF TickFails, book
<1>9. CASE UNCHANGED vars
  BY <1>1, <1>9 DEF vars
<1> QED
  BY <1>3, <1>4, <1>5, <1>6, <1>7, <1>8, <1>9 DEF Next

-----------------------------------------------------------------------------
(* Trades.                                                                  *)

(* What a step may do to one trade row that is there, as far as it matters. *)
RowStands(t) ==
    /\ trade'[t].status # "absent" /\ DOMAIN trade'[t] = TradeFields
    /\ trade'[t].quote = trade[t].quote
    /\ trade'[t].proceeds = trade[t].proceeds
    /\ \/ trade'[t].payer = trade[t].payer
       \/ trade'[t].payer = None
       \/ trade'[t].payer = BuyerOf[quote[trade[t].quote].mandate]

TradesStand ==
    /\ TradesShaped' /\ TradesHonour'
    /\ \A t \in Trades : trade[t].status # "absent" => trade'[t].status # "absent"

(* One row changes at most, and it stands or is filled under a quote.       *)
LEMMA OneTrade ==
    ASSUME MarketInv, Stands, NEW t, DOMAIN trade' = Trades,
           \A u \in Trades : u # t => trade'[u] = trade[u],
           t \in Trades =>
               \/ trade'[t] = trade[t]
               \/ trade[t].status # "absent" /\ RowStands(t)
               \/ /\ trade'[t].status # "absent" /\ DOMAIN trade'[t] = TradeFields
                  /\ Priced(trade'[t].quote)
                  /\ trade'[t].proceeds >= quote[trade'[t].quote].proceeds
                  /\ trade'[t].payer = None
    PROVE  TradesStand
<1>0. QuotesShaped /\ TradesHonour /\ TradesShaped
  BY DEF MarketInv, Shaped
<1>1. ASSUME NEW u \in Trades
      PROVE  /\ "status" \in DOMAIN trade'[u]
             /\ trade[u].status # "absent" => trade'[u].status # "absent"
             /\ trade'[u].status # "absent" => DOMAIN trade'[u] = TradeFields
             /\ trade'[u].status = "absent" => trade'[u] = NoTrade
  BY <1>0 DEF TradesShaped, RowStands, TradeFields
<1>2. ASSUME NEW u \in Trades, trade'[u].status # "absent"
      PROVE  /\ trade'[u].quote \in Quotes /\ quote'[trade'[u].quote].status # "absent"
             /\ trade'[u].proceeds >= quote'[trade'[u].quote].proceeds
             /\ trade'[u].payer # None =>
                    BuyerOf[quote'[trade'[u].quote].mandate] = trade'[u].payer
  <2>1. /\ Priced(trade'[u].quote)
        /\ trade'[u].proceeds >= quote[trade'[u].quote].proceeds
        /\ trade'[u].payer # None =>
               BuyerOf[quote[trade'[u].quote].mandate] = trade'[u].payer
    <3>1. CASE trade'[u] = trade[u]
      BY <1>0, <1>2, <3>1 DEF TradesHonour
    <3>2. CASE u = t /\ trade[t].status # "absent" /\ RowStands(t)
      BY <1>0, <1>2, <3>2 DEF TradesHonour, RowStands
    <3> QED
      BY <3>1, <3>2
  <2> QED
    BY <2>1 DEF Priced, Stands
<1> QED
  BY <1>1, <1>2 DEF TradesStand, TradesShaped, TradesHonour, Priced

LEMMA TradesUnchanged ==
    ASSUME MarketInv, Stands, UNCHANGED trade PROVE TradesStand
<1>1. /\ DOMAIN trade' = Trades
      /\ \A u \in Trades : trade'[u] = trade[u]
  BY DEF MarketInv, Shaped, TradesShaped
<1> QED
  BY <1>1, OneTrade

(* A trade's status changes, and it may be paid for.                        *)
LEMMA StatusMoves ==
    ASSUME MarketInv, Stands, NEW t \in Trades, trade[t].status # "absent",
           NEW s, s # "absent", trade' = [trade EXCEPT ![t].status = s]
    PROVE  TradesStand
<1>1. /\ DOMAIN trade' = Trades
      /\ \A u \in Trades : u # t => trade'[u] = trade[u]
      /\ trade'[t] = [trade[t] EXCEPT !.status = s]
      /\ DOMAIN trade[t] = TradeFields
  BY DEF MarketInv, Shaped, TradesShaped
<1>2. RowStands(t)
  BY <1>1 DEF RowStands, TradeFields
<1> QED
  BY <1>1, <1>2, OneTrade

LEMMA PaymentMoves ==
    ASSUME MarketInv, Stands, NEW t \in Trades, trade[t].status # "absent",
           NEW p, p = None \/ p = BuyerOf[quote[trade[t].quote].mandate],
           trade' = [trade EXCEPT ![t] = [@ EXCEPT !.status = "settled", !.payer = p]]
    PROVE  TradesStand
<1>1. /\ DOMAIN trade' = Trades
      /\ \A u \in Trades : u # t => trade'[u] = trade[u]
      /\ trade'[t] = [trade[t] EXCEPT !.status = "settled", !.payer = p]
      /\ DOMAIN trade[t] = TradeFields
  BY DEF MarketInv, Shaped, TradesShaped
<1>2. RowStands(t)
  BY <1>1 DEF RowStands, TradeFields
<1> QED
  BY <1>1, <1>2, OneTrade

LEMMA NextTrades == MarketInv /\ [Next]_vars => TradesStand
<1> SUFFICES ASSUME MarketInv, [Next]_vars PROVE TradesStand
  OBVIOUS
<1>0. /\ QuotesShaped /\ TradesHonour /\ RequestsHonour /\ TradesShaped /\ AgentsHonour
      /\ Stands
  BY NextStands DEF MarketInv, Shaped
<1>1. UNCHANGED trade => TradesStand
  BY <1>0, TradesUnchanged
<1>2. ASSUME NEW r \in Requests, request[r].at = "rail"
      PROVE  request[r].trade \in Trades /\ trade[request[r].trade].status # "absent"
  BY <1>0, <1>2 DEF RequestsHonour, Armed
<1>3. ASSUME NEW r \in Requests, Serves(r) PROVE TradesStand
  <2>1. ASSUME NEW t \in Trades, Reserve(r, t) PROVE TradesStand
    <3>1. /\ request[r].at = "gate" /\ DOMAIN trade' = Trades
          /\ \A u \in Trades : u # t => trade'[u] = trade[u]
          /\ trade'[t] = [invoice |-> request[r].invoice, mandate |-> request[r].offer.mandate,
                proceeds |-> request[r].offer.proceeds,
                quote |-> request[r].quote, status |-> "preparing",
                raced |-> request[r].raced, payer |-> None]
      BY <1>0, <2>1 DEF Reserve, TradesShaped
    <3>2. /\ Priced(request[r].quote)
          /\ request[r].offer.proceeds >= quote[request[r].quote].proceeds
      BY <1>0, <3>1 DEF RequestsHonour
    <3>3. /\ trade'[t].status # "absent" /\ DOMAIN trade'[t] = TradeFields
          /\ Priced(trade'[t].quote) /\ trade'[t].payer = None
          /\ trade'[t].proceeds >= quote[trade'[t].quote].proceeds
      BY <3>1, <3>2 DEF TradeFields
    <3> QED
      BY <1>0, <3>1, <3>3, OneTrade
  <2>2. CASE RailFails(r)
    BY <1>0, <1>2, <2>2, StatusMoves DEF RailFails, GiveBack
  <2>3. CASE VaultSettles(r)
    BY <1>0, <1>2, <2>3, PaymentMoves DEF VaultSettles, Settle
  <2>4. CASE Challenges(r)
    BY <1>0, <1>2, <2>4, StatusMoves DEF Challenges
  <2>5. ASSUME GateRefuses(r) \/ \E i \in Invoices, q \in Quotes : SellerArms(r, i, q)
        PROVE  TradesStand
    BY <1>1, <2>5 DEF GateRefuses, SellerArms, book
  <2> QED
    BY <1>3, <2>1, <2>2, <2>3, <2>4, <2>5 DEF Serves
<1>4. ASSUME NEW t \in Trades, Reclaim(t) PROVE TradesStand
  BY <1>0, <1>4, StatusMoves DEF Reclaim, Unwind, GiveBack
<1>5. ASSUME NEW a \in Agents, Ticks(a) PROVE TradesStand
  <2>1. ASSUME NEW t \in Trades, AgentPays(a, t) PROVE TradesStand
    <3>1. /\ trade[t].status # "absent" /\ trade[t].quote = agent[a].quote
          /\ agent[a].at = "pay"
          /\ trade' = [trade EXCEPT ![t] = [@ EXCEPT !.status = "settled", !.payer = a]]
      BY <2>1 DEF AgentPays, Payment, Settle
    <3>2. a = BuyerOf[quote[trade[t].quote].mandate]
      BY <1>0, <3>1 DEF AgentsHonour
    <3> QED
      BY <1>0, <3>1, <3>2, PaymentMoves
  <2>2. ASSUME NEW t \in Trades, PaymentDeclined(a, t) PROVE TradesStand
    BY <1>0, <2>2, StatusMoves DEF PaymentDeclined, Payment, Unwind, GiveBack
  <2>3. ASSUME ReadMandates(a) \/ ReadBook(a) \/ EndTick(a)
               \/ (\E i \in Invoices : Pass(a, i) \/ Take(a, i))
               \/ (\E q \in Quotes : QuoteAgrees(a, q)) \/ QuoteDiffers(a)
               \/ (\E r \in Requests : AgentArms(a, r))
               \/ ArmRefused(a) \/ GivesUp(a) \/ DoesNotPay(a)
        PROVE  TradesStand
    BY <1>1, <2>3 DEF ReadMandates, ReadBook, EndTick, Pass, Take, QuoteAgrees,
                      QuoteDiffers, AgentArms, ArmRefused, GivesUp, DoesNotPay, book
  <2> QED
    BY <1>5, <2>1, <2>2, <2>3 DEF Ticks
<1>6. ASSUME (\E i \in Invoices : List(i) \/ Look(i)) \/ NextDay
             \/ (\E a \in Agents : TickFails(a)) \/ UNCHANGED vars
      PROVE  TradesStand
  BY <1>1, <1>6 DEF List, Look, NextDay, TickFails, vars, book
<1> QED
  BY <1>3, <1>4, <1>5, <1>6 DEF Next

-----------------------------------------------------------------------------
(* Requests.                                                                *)

RequestFits(r) ==
    /\ request'[r].at # "idle" => DOMAIN request'[r] = RequestFields
    /\ request'[r].at = "idle" => request'[r] = IdleRequest
    /\ request'[r].at # "idle" =>
           /\ request'[r].quote \in Quotes /\ quote[request'[r].quote].status # "absent"
           /\ request'[r].offer.proceeds >= quote[request'[r].quote].proceeds
           /\ request'[r].at = "rail" =>
                  /\ request'[r].trade \in Trades
                  /\ trade'[request'[r].trade].status # "absent"

RequestsStand == RequestsShaped' /\ RequestsHonour'

LEMMA RequestsFit ==
    ASSUME Stands, DOMAIN request' = Requests, \A r \in Requests : RequestFits(r)
    PROVE  RequestsStand
<1>1. RequestsShaped'
  BY DEF RequestFits, RequestsShaped
<1>2. RequestsHonour'
  BY DEF RequestFits, RequestsHonour, Stands, Priced, Armed
<1> QED
  BY <1>1, <1>2 DEF RequestsStand

(* A request that stays, or that a client or a race marks, still fits.      *)
LEMMA RequestStays ==
    ASSUME MarketInv, TradesStand, NEW r \in Requests,
           \/ request'[r] = request[r]
           \/ /\ request[r].at # "idle"
              /\ \E x : \/ request'[r] = [request[r] EXCEPT !.raced = x]
                        \/ request'[r] = [request[r] EXCEPT !.from = x]
    PROVE  RequestFits(r)
<1>1. /\ RequestsShaped /\ RequestsHonour
  BY DEF MarketInv, Shaped
<1>2. CASE request'[r] = request[r]
  BY <1>1, <1>2 DEF RequestFits, RequestsShaped, RequestsHonour, TradesStand, Priced, Armed
<1>3. ASSUME request[r].at # "idle",
             NEW x, \/ request'[r] = [request[r] EXCEPT !.raced = x]
                    \/ request'[r] = [request[r] EXCEPT !.from = x]
      PROVE  RequestFits(r)
  <2>1. DOMAIN request[r] = RequestFields
    BY <1>1, <1>3 DEF RequestsShaped
  <2>2. /\ DOMAIN request'[r] = RequestFields /\ request'[r].at = request[r].at
        /\ request'[r].quote = request[r].quote /\ request'[r].offer = request[r].offer
        /\ request'[r].trade = request[r].trade
    BY <1>3, <2>1 DEF RequestFields
  <2> QED
    BY <1>1, <1>3, <2>2 DEF RequestFits, RequestsHonour, TradesStand, Priced, Armed
<1> QED
  BY <1>2, <1>3

LEMMA RequestEnds ==
    ASSUME NEW r \in Requests, request'[r] = IdleRequest
    PROVE  RequestFits(r)
BY DEF RequestFits, IdleRequest

(* One request moves, the others stay.                                      *)
LEMMA OneRequest ==
    ASSUME MarketInv, Stands, TradesStand, NEW r \in Requests, NEW v,
           request' = [request EXCEPT ![r] = v],
           v = IdleRequest \/ RequestFits(r)
    PROVE  RequestsStand
<1>1. /\ DOMAIN request' = Requests /\ request'[r] = v
      /\ \A s \in Requests : s # r => request'[s] = request[s]
  BY DEF MarketInv, Shaped, RequestsShaped
<1>2. \A s \in Requests : RequestFits(s)
  BY <1>1, RequestStays, RequestEnds
<1> QED
  BY <1>1, <1>2, RequestsFit

LEMMA RequestsArm ==
    ASSUME MarketInv, Stands, TradesStand, NEW r \in Requests, NEW from, NEW i,
           NEW q \in Quotes, Arm(r, from, i, q)
    PROVE  RequestsStand
<1>1. PICK offer \in Offers(i) :
        /\ WithinTolerance(q, offer)
        /\ request' = [request EXCEPT ![r] =
                [at |-> "gate", from |-> from, invoice |-> i, quote |-> q,
                 offer |-> offer, raced |-> FALSE, trade |-> 0]]
  BY DEF Arm
<1>2. DOMAIN request = Requests
  BY DEF MarketInv, Shaped, RequestsShaped
<1>3. /\ request'[r].at = "gate" /\ DOMAIN request'[r] = RequestFields
      /\ request'[r].quote = q /\ request'[r].offer = offer
  BY <1>1, <1>2 DEF RequestFields
<1>4. quote[q].status # "absent" /\ offer.proceeds >= quote[q].proceeds
  BY <1>1 DEF Arm, Fillable, WithinTolerance
<1>5. RequestFits(r)
  BY <1>3, <1>4 DEF RequestFits
<1> QED
  BY <1>1, <1>5, OneRequest

LEMMA NextRequests == MarketInv /\ [Next]_vars => RequestsStand
<1> SUFFICES ASSUME MarketInv, [Next]_vars PROVE RequestsStand
  OBVIOUS
<1>0. /\ Stands /\ TradesStand /\ RequestsShaped /\ RequestsHonour /\ AgentsHonour
  BY NextStands, NextTrades DEF MarketInv, Shaped
<1>1. ASSUME UNCHANGED request PROVE RequestsStand
  <2>1. DOMAIN request' = Requests
    BY <1>0, <1>1 DEF RequestsShaped
  <2>2. \A r \in Requests : RequestFits(r)
    BY <1>0, <1>1, RequestStays
  <2> QED
    BY <1>0, <2>1, <2>2, RequestsFit
(* Clients that stop waiting.                                               *)
<1>2. ASSUME NEW a,
             request' = [r \in Requests |->
                 IF request[r] # IdleRequest /\ request[r].from = a
                 THEN [request[r] EXCEPT !.from = Browser] ELSE request[r]]
      PROVE  RequestsStand
  <2>1. DOMAIN request' = Requests
    BY <1>2
  <2>2. ASSUME NEW r \in Requests PROVE RequestFits(r)
    <3>1. request[r] # IdleRequest => request[r].at # "idle"
      BY <1>0 DEF RequestsShaped
    <3>2. \/ request'[r] = request[r]
          \/ /\ request[r].at # "idle"
             /\ request'[r] = [request[r] EXCEPT !.from = Browser]
      BY <1>2, <3>1
    <3> QED
      BY <1>0, <3>2, RequestStays
  <2> QED
    BY <1>0, <2>1, <2>2, RequestsFit
<1>3. ASSUME NEW r \in Requests, Ends(r) PROVE RequestsStand
  BY <1>0, <1>3, OneRequest DEF Ends
<1>4. ASSUME NEW r \in Requests, Serves(r) PROVE RequestsStand
  <2>1. ASSUME NEW i \in Invoices, NEW q \in Quotes, SellerArms(r, i, q)
        PROVE  RequestsStand
    BY <1>0, <2>1, RequestsArm DEF SellerArms
  <2>2. ASSUME NEW t \in Trades, Reserve(r, t) PROVE RequestsStand
    <3> DEFINE m == request[r].offer.mandate
               after == [request[r] EXCEPT !.at = "rail", !.trade = t]
    <3>1. /\ request[r].at = "gate" /\ request' = [Racing(r, m) EXCEPT ![r] = after]
          /\ trade'[t].status # "absent"
      <4>1. DOMAIN trade = Trades
        BY DEF MarketInv, Shaped, TradesShaped
      <4> QED
        BY <2>2, <4>1 DEF Reserve
    <3>2. DOMAIN request' = Requests /\ request'[r] = after
          /\ \A s \in Requests : s # r => request'[s] = Racing(r, m)[s]
      BY <3>1 DEF Racing
    <3>3. RequestFits(r)
      <4>1. DOMAIN request[r] = RequestFields
        BY <1>0, <3>1 DEF RequestsShaped
      <4>2. /\ request'[r].at = "rail" /\ request'[r].trade = t
            /\ DOMAIN request'[r] = RequestFields
            /\ request'[r].quote = request[r].quote
            /\ request'[r].offer = request[r].offer
        BY <3>2, <4>1 DEF RequestFields
      <4> QED
        BY <1>0, <3>1, <4>2 DEF RequestFits, RequestsHonour, Priced
    <3>4. ASSUME NEW s \in Requests, s # r PROVE RequestFits(s)
      <4>1. \/ request'[s] = request[s]
            \/ /\ request[s].at = "gate"
               /\ request'[s] = [request[s] EXCEPT !.raced = TRUE]
        BY <3>2, <3>4 DEF Racing
      <4> QED
        BY <1>0, <4>1, RequestStays
    <3> QED
      BY <1>0, <3>2, <3>3, <3>4, RequestsFit
  <2>3. ASSUME GateRefuses(r) \/ RailFails(r) \/ VaultSettles(r) \/ Challenges(r)
        PROVE  RequestsStand
    BY <1>3, <2>3 DEF GateRefuses, RailFails, VaultSettles, Challenges
  <2> QED
    BY <1>4, <2>1, <2>2, <2>3 DEF Serves
<1>5. ASSUME NEW a \in Agents, Ticks(a) PROVE RequestsStand
  <2>1. ASSUME NEW r \in Requests, AgentArms(a, r) PROVE RequestsStand
    <3>1. agent[a].quote \in Quotes
      BY <1>0, <2>1 DEF AgentArms, AgentsHonour, Priced
    <3> QED
      BY <1>0, <2>1, <3>1, RequestsArm DEF AgentArms
  <2>2. CASE GivesUp(a)
    BY <1>2, <2>2 DEF GivesUp
  <2>3. ASSUME ReadMandates(a) \/ ReadBook(a) \/ EndTick(a)
               \/ (\E i \in Invoices : Pass(a, i) \/ Take(a, i))
               \/ (\E q \in Quotes : QuoteAgrees(a, q)) \/ QuoteDiffers(a)
               \/ (\E t \in Trades : AgentPays(a, t) \/ PaymentDeclined(a, t))
               \/ ArmRefused(a) \/ DoesNotPay(a)
        PROVE  RequestsStand
    BY <1>1, <2>3 DEF ReadMandates, ReadBook, EndTick, Pass, Take, QuoteAgrees,
                      QuoteDiffers, AgentPays, PaymentDeclined, ArmRefused, DoesNotPay
  <2> QED
    BY <1>5, <2>1, <2>2, <2>3 DEF Ticks
<1>6. ASSUME NEW a \in Agents, TickFails(a) PROVE RequestsStand
  BY <1>2, <1>6 DEF TickFails
<1>7. ASSUME (\E i \in Invoices : List(i) \/ Look(i)) \/ NextDay
             \/ (\E t \in Trades : Reclaim(t)) \/ UNCHANGED vars
      PROVE  RequestsStand
  BY <1>1, <1>7 DEF List, Look, NextDay, Reclaim, vars
<1> QED
  BY <1>4, <1>5, <1>6, <1>7 DEF Next

-----------------------------------------------------------------------------
(* Agents.                                                                  *)

AgentFits(a) ==
    /\ agent'[a].at # "idle" => DOMAIN agent'[a] = TickFields
    /\ agent'[a].at = "idle" => agent'[a] = IdleAgent
    /\ agent'[a].at # "idle" => agent'[a].payable \subseteq Mine(a)
    /\ agent'[a].at = "quote" => agent'[a].offer.mandate \in Mine(a)
    /\ agent'[a].at \in {"arm", "answer", "pay"} =>
           /\ agent'[a].quote \in Quotes /\ quote'[agent'[a].quote].status # "absent"
           /\ BuyerOf[quote'[agent'[a].quote].mandate] = a

AgentsStand == AgentsShaped' /\ AgentsHonour'

LEMMA AgentsFit ==
    ASSUME DOMAIN agent' = Agents, \A a \in Agents : AgentFits(a)
    PROVE  AgentsStand
<1>1. AgentsShaped'
  BY DEF AgentFits, AgentsShaped
<1>2. AgentsHonour'
  BY DEF AgentFits, AgentsHonour, Priced
<1> QED
  BY <1>1, <1>2 DEF AgentsStand

(* A tick that waits, or that hears that its trade can be paid for.         *)
LEMMA AgentStays ==
    ASSUME MarketInv, Stands, NEW a \in Agents,
           \/ agent'[a] = agent[a]
           \/ /\ agent[a].at \in {"arm", "answer"}
              /\ \E s \in {"answer", "pay"} : agent'[a] = [agent[a] EXCEPT !.at = s]
    PROVE  AgentFits(a)
<1>1. AgentsShaped /\ AgentsHonour
  BY DEF MarketInv, Shaped
<1>2. CASE agent'[a] = agent[a]
  BY <1>1, <1>2 DEF AgentFits, AgentsShaped, AgentsHonour, Stands, Priced
<1>3. ASSUME agent[a].at \in {"arm", "answer"},
             NEW s \in {"answer", "pay"}, agent'[a] = [agent[a] EXCEPT !.at = s]
      PROVE  AgentFits(a)
  <2>1. DOMAIN agent[a] = TickFields
    BY <1>1, <1>3 DEF AgentsShaped
  <2>2. /\ DOMAIN agent'[a] = TickFields /\ agent'[a].at = s
        /\ agent'[a].payable = agent[a].payable /\ agent'[a].quote = agent[a].quote
    BY <1>3, <2>1 DEF TickFields
  <2> QED
    BY <1>1, <1>3, <2>2 DEF AgentFits, AgentsHonour, Stands, Priced
<1> QED
  BY <1>2, <1>3

LEMMA AgentIdles ==
    ASSUME NEW a \in Agents, agent'[a] = IdleAgent
    PROVE  AgentFits(a)
BY DEF AgentFits, IdleAgent

(* A tick that goes on to its next row.                                     *)
LEMMA AgentGoesOn ==
    ASSUME NEW a \in Agents, agent'[a].at \in {"book", "choose"},
           DOMAIN agent'[a] = TickFields, agent'[a].payable \subseteq Mine(a)
    PROVE  AgentFits(a)
BY DEF AgentFits

LEMMA OneAgent ==
    ASSUME MarketInv, Stands, NEW a \in Agents, NEW v,
           agent' = [agent EXCEPT ![a] = v], AgentFits(a)
    PROVE  AgentsStand
<1>1. /\ DOMAIN agent' = Agents
      /\ \A b \in Agents : b # a => agent'[b] = agent[b]
  BY DEF MarketInv, Shaped, AgentsShaped
<1>2. \A b \in Agents : AgentFits(b)
  BY <1>1, AgentStays
<1> QED
  BY <1>1, <1>2, AgentsFit

LEMMA AgentsUnchanged ==
    ASSUME MarketInv, Stands, UNCHANGED agent PROVE AgentsStand
<1>1. DOMAIN agent' = Agents /\ \A a \in Agents : AgentFits(a)
  BY AgentStays DEF MarketInv, Shaped, AgentsShaped
<1> QED
  BY <1>1, AgentsFit

LEMMA AgentsNextRow ==
    ASSUME MarketInv, Stands, NEW a \in Agents, agent[a].at # "idle", NextRow(a)
    PROVE  AgentsStand
<1>1. /\ AgentsShaped /\ AgentsHonour /\ DOMAIN agent[a] = TickFields
      /\ agent[a].payable \subseteq Mine(a)
  BY DEF MarketInv, Shaped, AgentsShaped, AgentsHonour
<1> DEFINE v == [agent[a] EXCEPT !.at = "choose", !.invoice = None,
                                 !.offer = NoOffer, !.quote = 0]
<1>2. agent' = [agent EXCEPT ![a] = v]
  BY DEF NextRow
<1>3. DOMAIN v = TickFields /\ v.at = "choose" /\ v.payable = agent[a].payable
  BY <1>1 DEF TickFields
<1>4. agent'[a] = v
  BY <1>1, <1>2 DEF AgentsShaped
<1> HIDE DEF v
<1>5. AgentFits(a)
  BY <1>1, <1>3, <1>4, AgentGoesOn
<1> QED
  BY <1>2, <1>5, OneAgent

LEMMA AgentsAnswered ==
    ASSUME MarketInv, Stands, NEW r \in Requests, request[r].at # "idle",
           NEW at \in {"choose", "pay"}, Answered(r, at)
    PROVE  AgentsStand
<1> DEFINE a == request[r].from
<1>1. CASE a \notin Agents
  BY <1>1, AgentsUnchanged DEF Answered
<1>2. CASE a \in Agents
  <2>1. agent[a].at = "answer"
    BY <1>2 DEF MarketInv, Waiting, Asks
  <2>2. CASE at = "pay"
    <3>1. agent' = [agent EXCEPT ![a].at = "pay"] /\ DOMAIN agent = Agents
      BY <1>2, <2>2 DEF Answered, MarketInv, Shaped, AgentsShaped
    <3>2. /\ agent' = [agent EXCEPT ![a] = [agent[a] EXCEPT !.at = "pay"]]
          /\ agent'[a] = [agent[a] EXCEPT !.at = "pay"]
      BY <1>2, <3>1
    <3>3. AgentFits(a)
      BY <1>2, <2>1, <3>2, AgentStays
    <3> QED
      BY <1>2, <3>2, <3>3, OneAgent
  <2>3. CASE at = "choose"
    BY <1>2, <2>1, <2>3, AgentsNextRow DEF Answered
  <2> QED
    BY <2>2, <2>3
<1> QED
  BY <1>1, <1>2

(* The rows of a tick that it passes over or takes.                         *)
LEMMA AgentsChoose ==
    ASSUME MarketInv, Stands, NEW a \in Agents, NEW i \in Invoices,
           Pass(a, i) \/ Take(a, i)
    PROVE  AgentsStand
<1>1. /\ agent[a].at = "choose" /\ DOMAIN agent[a] = TickFields /\ DOMAIN agent = Agents
      /\ agent[a].payable \subseteq Mine(a)
  BY DEF Pass, Take, MarketInv, Shaped, AgentsShaped, AgentsHonour
<1> DEFINE done == RowDone(agent[a], i)
<1>2. DOMAIN done = TickFields /\ done.at = "choose" /\ done.payable = agent[a].payable
  BY <1>1 DEF RowDone, TickFields
<1>3. CASE Pass(a, i)
  <2>1. agent' = [agent EXCEPT ![a] = done] /\ agent'[a] = done
    BY <1>1, <1>3 DEF Pass
  <2> HIDE DEF done
  <2>2. AgentFits(a)
    BY <1>1, <1>2, <2>1, AgentGoesOn
  <2> QED
    BY <2>1, <2>2, OneAgent
<1>4. CASE Take(a, i)
  <2> DEFINE m == PickBest(a, i)
             n == Proceeds(i, m, RowTenor(a, i))
             after == [done EXCEPT !.took[m] = Plus(@, DebtorOf[i], n)]
  <2>1. /\ m \in agent[a].payable
        /\ agent' = [agent EXCEPT ![a] =
                  IF i \notin agent[a].offered THEN after
                  ELSE [after EXCEPT !.at = "quote", !.invoice = i,
                                     !.offer = [mandate |-> m, proceeds |-> n]]]
    BY <1>4 DEF Take
  <2> HIDE DEF m, n
  <2>2. DOMAIN after = TickFields /\ after.at = "choose" /\ after.payable = agent[a].payable
    <3> HIDE DEF done
    <3> QED
      BY <1>2 DEF TickFields
  <2> HIDE DEF after
  <2>3. CASE i \notin agent[a].offered
    <3>1. agent' = [agent EXCEPT ![a] = after] /\ agent'[a] = after
      BY <1>1, <2>1, <2>3
    <3>2. AgentFits(a)
      BY <1>1, <2>2, <3>1, AgentGoesOn
    <3> QED
      BY <3>1, <3>2, OneAgent
  <2>4. CASE i \in agent[a].offered
    <3> DEFINE v == [after EXCEPT !.at = "quote", !.invoice = i,
                                  !.offer = [mandate |-> m, proceeds |-> n]]
    <3>1. agent' = [agent EXCEPT ![a] = v] /\ agent'[a] = v
      BY <1>1, <2>1, <2>4
    <3>2. /\ DOMAIN v = TickFields /\ v.at = "quote" /\ v.payable = agent[a].payable
          /\ v.offer.mandate = m
      BY <2>2 DEF TickFields
    <3> HIDE DEF v
    <3>3. AgentFits(a)
      BY <1>1, <2>1, <3>1, <3>2 DEF AgentFits
    <3> QED
      BY <3>1, <3>3, OneAgent
  <2> QED
    BY <2>3, <2>4
<1> QED
  BY <1>3, <1>4

LEMMA NextAgents == MarketInv /\ [Next]_vars => AgentsStand
<1> SUFFICES ASSUME MarketInv, [Next]_vars PROVE AgentsStand
  OBVIOUS
<1>0. /\ Stands /\ AgentsShaped /\ AgentsHonour
  BY NextStands DEF MarketInv, Shaped
<1>1. UNCHANGED agent => AgentsStand
  BY <1>0, AgentsUnchanged
<1>2. ASSUME NEW r \in Requests, Serves(r) PROVE AgentsStand
  <2>1. ASSUME GateRefuses(r) \/ RailFails(r) \/ VaultSettles(r) \/ Challenges(r)
        PROVE  AgentsStand
    BY <1>0, <2>1, AgentsAnswered DEF GateRefuses, RailFails, VaultSettles, Challenges
  <2>2. ASSUME (\E i \in Invoices, q \in Quotes : SellerArms(r, i, q))
               \/ \E t \in Trades : Reserve(r, t)
        PROVE  AgentsStand
    BY <1>1, <2>2 DEF SellerArms, Reserve
  <2> QED
    BY <1>2, <2>1, <2>2 DEF Serves
<1>3. ASSUME NEW a \in Agents, Ticks(a) PROVE AgentsStand
  <2>0. DOMAIN agent = Agents /\ (agent[a].at # "idle" => DOMAIN agent[a] = TickFields)
        /\ (agent[a].at # "idle" => agent[a].payable \subseteq Mine(a))
    BY <1>0 DEF AgentsShaped, AgentsHonour
  <2>1. CASE ReadMandates(a)
    <3>1. PICK payable \in (IF a \in Keyed THEN {Mine(a)} ELSE {})
                             \cup SUBSET (Escrowed \cap Mine(a)) :
         agent' = [agent EXCEPT ![a] =
             [at |-> "book", read |-> [m \in Mine(a) |-> BidOf(m)], payable |-> payable,
              rows |-> {}, offered |-> {}, day |-> day,
              took |-> [m \in Mine(a) |-> Nothing], invoice |-> None,
              offer |-> NoOffer, quote |-> 0]]
      BY <2>1 DEF ReadMandates
    <3>2. payable \subseteq Mine(a)
      OBVIOUS
    <3>3. /\ agent'[a].at = "book" /\ DOMAIN agent'[a] = TickFields
          /\ agent'[a].payable = payable
      BY <2>0, <3>1 DEF TickFields
    <3>4. AgentFits(a)
      BY <3>2, <3>3, AgentGoesOn
    <3> QED
      BY <1>0, <3>1, <3>4, OneAgent
  <2>2. CASE ReadBook(a)
    <3> DEFINE v == [agent[a] EXCEPT !.at = "choose", !.day = day,
                    !.rows = {i \in Invoices : status[i] # "sold"},
                    !.offered = {i \in Invoices : status[i] = "listed"}]
    <3>1. agent' = [agent EXCEPT ![a] = v] /\ agent'[a] = v /\ agent[a].at = "book"
      BY <2>0, <2>2 DEF ReadBook
    <3>2. DOMAIN v = TickFields /\ v.at = "choose" /\ v.payable = agent[a].payable
      BY <2>0, <3>1 DEF TickFields
    <3> HIDE DEF v
    <3>3. AgentFits(a)
      BY <2>0, <3>1, <3>2, AgentGoesOn
    <3> QED
      BY <1>0, <3>1, <3>3, OneAgent
  <2>3. CASE EndTick(a)
    <3>1. agent' = [agent EXCEPT ![a] = IdleAgent] /\ agent'[a] = IdleAgent
      BY <2>0, <2>3 DEF EndTick
    <3> QED
      BY <1>0, <3>1, AgentIdles, OneAgent
  <2>4. ASSUME NEW i \in Invoices, Pass(a, i) \/ Take(a, i) PROVE AgentsStand
    BY <1>0, <2>4, AgentsChoose
  <2>5. ASSUME NEW q \in Quotes, QuoteAgrees(a, q) PROVE AgentsStand
    <3>1. PICK offer \in Offers(agent[a].invoice) :
              /\ offer.mandate = agent[a].offer.mandate
              /\ Materialise(agent[a].invoice, offer, q)
      BY <2>5 DEF QuoteAgrees
    <3>2. /\ quote'[q].status # "absent" /\ quote'[q].mandate = agent[a].offer.mandate
      BY <3>1, StandsMaterialised DEF MarketInv, Shaped, Priced
    <3>3. BuyerOf[agent[a].offer.mandate] = a
      BY <1>0, <2>5 DEF QuoteAgrees, AgentsHonour, Mine
    <3> DEFINE v == [agent[a] EXCEPT !.at = "arm", !.quote = q]
    <3>4. agent' = [agent EXCEPT ![a] = v] /\ agent'[a] = v /\ agent[a].at = "quote"
      BY <2>0, <2>5 DEF QuoteAgrees
    <3>5. /\ DOMAIN v = TickFields /\ v.at = "arm" /\ v.payable = agent[a].payable
          /\ v.quote = q
      BY <2>0, <3>4 DEF TickFields
    <3> HIDE DEF v
    <3>6. AgentFits(a)
      BY <2>0, <3>2, <3>3, <3>4, <3>5 DEF AgentFits
    <3> QED
      BY <1>0, <3>4, <3>6, OneAgent
  <2>6. ASSUME NEW r \in Requests, AgentArms(a, r) PROVE AgentsStand
    <3>1. /\ agent' = [agent EXCEPT ![a].at = "answer"] /\ agent[a].at = "arm"
      BY <2>6 DEF AgentArms
    <3>2. /\ agent' = [agent EXCEPT ![a] = [agent[a] EXCEPT !.at = "answer"]]
          /\ agent'[a] = [agent[a] EXCEPT !.at = "answer"]
      BY <2>0, <3>1
    <3>3. AgentFits(a)
      BY <1>0, <3>1, <3>2, AgentStays
    <3> QED
      BY <1>0, <3>2, <3>3, OneAgent
  <2>7. ASSUME QuoteDiffers(a) \/ ArmRefused(a) \/ GivesUp(a) \/ DoesNotPay(a)
               \/ \E t \in Trades : AgentPays(a, t) \/ PaymentDeclined(a, t)
        PROVE  AgentsStand
    BY <1>0, <2>7, AgentsNextRow
    DEF QuoteDiffers, ArmRefused, GivesUp, DoesNotPay, AgentPays, PaymentDeclined, Payment
  <2> QED
    BY <1>3, <2>1, <2>2, <2>3, <2>4, <2>5, <2>6, <2>7 DEF Ticks
<1>4. ASSUME NEW a \in Agents, TickFails(a) PROVE AgentsStand
  <2>1. agent' = [agent EXCEPT ![a] = IdleAgent] /\ agent'[a] = IdleAgent
    BY <1>0, <1>4 DEF TickFails, AgentsShaped
  <2> QED
    BY <1>0, <2>1, AgentIdles, OneAgent
<1>5. ASSUME (\E i \in Invoices : List(i) \/ Look(i)) \/ NextDay
             \/ (\E t \in Trades : Reclaim(t)) \/ UNCHANGED vars
      PROVE  AgentsStand
  BY <1>1, <1>5 DEF List, Look, NextDay, Reclaim, vars
<1> QED
  BY <1>2, <1>3, <1>4, <1>5 DEF Next

-----------------------------------------------------------------------------
(* Who waits for whom.                                                      *)

WaitsOn == \A a \in Agents, r \in Requests : Asks(r, a)' =>
               /\ agent'[a].at = "answer"
               /\ \A s \in Requests : Asks(s, a)' => s = r

(* Nothing new is asked, and whoever still waits is left to wait.           *)
LEMMA NothingAsked ==
    ASSUME MarketInv,
           \A a \in Agents, r \in Requests :
               Asks(r, a)' => Asks(r, a) /\ agent'[a].at = agent[a].at
    PROVE  WaitsOn
<1> SUFFICES ASSUME NEW a \in Agents, NEW r \in Requests, Asks(r, a)'
             PROVE  /\ agent'[a].at = "answer"
                    /\ \A s \in Requests : Asks(s, a)' => s = r
  BY DEF WaitsOn
<1>1. Asks(r, a) /\ agent'[a].at = agent[a].at
  OBVIOUS
<1>2. agent[a].at = "answer" /\ \A s \in Requests : Asks(s, a) => s = r
  BY <1>1 DEF MarketInv, Waiting
<1> QED
  BY <1>1, <1>2

(* An agent that did not wait moves on, and no request does.                *)
LEMMA AgentMoves ==
    ASSUME MarketInv, NEW a \in Agents, agent[a].at # "answer", NEW v,
           agent' = [agent EXCEPT ![a] = v], UNCHANGED request
    PROVE  WaitsOn
<1>1. \A b \in Agents : b # a => agent'[b] = agent[b]
  BY DEF MarketInv, Shaped, AgentsShaped
<1>2. \A r \in Requests : ~Asks(r, a)
  BY DEF MarketInv, Waiting
<1>3. \A b \in Agents, r \in Requests : Asks(r, b)' => Asks(r, b)
  BY DEF Asks
<1> QED
  BY <1>1, <1>2, <1>3, NothingAsked

(* A client stops waiting: nothing follows the answer any more.             *)
LEMMA ClientLeaves ==
    ASSUME MarketInv, NEW a \in Agents, NEW v, agent' = [agent EXCEPT ![a] = v],
           request' = [r \in Requests |->
              IF request[r] # IdleRequest /\ request[r].from = a
              THEN [request[r] EXCEPT !.from = Browser] ELSE request[r]]
    PROVE  WaitsOn
<1>1. RequestsShaped /\ Browser \notin Agents
  BY MarketAssumption DEF MarketInv, Shaped, Browser
<1>2. \A b \in Agents : b # a => agent'[b] = agent[b]
  BY DEF MarketInv, Shaped, AgentsShaped
<1>3. ASSUME NEW b \in Agents, NEW r \in Requests, Asks(r, b)'
      PROVE  Asks(r, b) /\ b # a
  <2>1. CASE request[r] # IdleRequest /\ request[r].from = a
    <3>1. DOMAIN request[r] = RequestFields
      BY <1>1, <2>1 DEF RequestsShaped
    <3>2. request'[r].from = Browser
      BY <2>1, <3>1 DEF RequestFields
    <3> QED
      BY <1>1, <1>3, <3>2 DEF Asks
  <2>2. CASE ~(request[r] # IdleRequest /\ request[r].from = a)
    <3>1. request'[r] = request[r] /\ request'[r].at # "idle"
      BY <1>3, <2>2 DEF Asks
    <3> QED
      BY <1>3, <2>2, <3>1 DEF Asks, IdleRequest
  <2> QED
    BY <2>1, <2>2
<1> QED
  BY <1>2, <1>3, NothingAsked

(* The venue answers, and whoever asked goes on.                            *)
LEMMA AnswerHeard ==
    ASSUME MarketInv, NEW r \in Requests, request[r].at # "idle", Ends(r),
           NEW at \in {"choose", "pay"}, Answered(r, at)
    PROVE  WaitsOn
<1>1. DOMAIN request = Requests /\ DOMAIN agent = Agents
  BY DEF MarketInv, Shaped, RequestsShaped, AgentsShaped
<1>2. /\ request'[r] = IdleRequest
      /\ \A s \in Requests : s # r => request'[s] = request[s]
  BY <1>1 DEF Ends
<1>3. ASSUME NEW b \in Agents, NEW s \in Requests, Asks(s, b)'
      PROVE  Asks(s, b) /\ s # r
  BY <1>2, <1>3 DEF Asks, IdleRequest
<1>4. ASSUME NEW b \in Agents, b # request[r].from PROVE agent'[b] = agent[b]
  BY <1>1, <1>4 DEF Answered, NextRow
<1>5. ASSUME NEW s \in Requests, s # r, request[r].from \in Agents
      PROVE  ~Asks(s, request[r].from)
  BY <1>5 DEF MarketInv, Waiting, Asks
<1>6. ASSUME NEW b \in Agents, NEW s \in Requests, Asks(s, b)'
      PROVE  Asks(s, b) /\ agent'[b].at = agent[b].at
  BY <1>3, <1>4, <1>5, <1>6
<1> QED
  BY <1>6, NothingAsked

LEMMA NextWaiting == MarketInv /\ [Next]_vars => Waiting'
<1> SUFFICES ASSUME MarketInv, [Next]_vars PROVE WaitsOn
  BY DEF WaitsOn, Waiting
<1>0. /\ RequestsShaped /\ AgentsShaped /\ Waiting
  BY DEF MarketInv, Shaped
<1>1. ASSUME UNCHANGED agent,
             \A r \in Requests : \/ request'[r] = request[r]
                                 \/ request[r].at # "idle" /\ request'[r].from = request[r].from
                                 \/ request'[r].from \notin Agents
      PROVE  WaitsOn
  <2>1. \A a \in Agents, r \in Requests : Asks(r, a)' => Asks(r, a)
    BY <1>1 DEF Asks
  <2> QED
    BY <1>1, <2>1, NothingAsked
<1>2. ASSUME NEW r \in Requests, Serves(r) PROVE WaitsOn
  <2>1. ASSUME NEW i \in Invoices, NEW q \in Quotes, SellerArms(r, i, q)
        PROVE  WaitsOn
    <3>1. UNCHANGED agent /\ \A s \in Requests : s # r => request'[s] = request[s]
      BY <1>0, <2>1 DEF SellerArms, Arm, RequestsShaped
    <3>2. request'[r].from = Browser
      BY <1>0, <2>1 DEF SellerArms, Arm, RequestsShaped
    <3>3. Browser \notin Agents
      BY MarketAssumption DEF Browser
    <3> QED
      BY <1>1, <3>1, <3>2, <3>3
  <2>2. ASSUME NEW t \in Trades, Reserve(r, t) PROVE WaitsOn
    <3> DEFINE m == request[r].offer.mandate
               after == [request[r] EXCEPT !.at = "rail", !.trade = t]
    <3>1. /\ request[r].at = "gate" /\ request' = [Racing(r, m) EXCEPT ![r] = after]
          /\ UNCHANGED agent
      BY <2>2 DEF Reserve
    <3>2. request'[r] = after
          /\ \A s \in Requests : s # r => request'[s] = Racing(r, m)[s]
      BY <3>1 DEF Racing
    <3>3. ASSUME NEW s \in Requests
          PROVE  \/ request'[s] = request[s]
                 \/ request[s].at # "idle" /\ request'[s].from = request[s].from
      <4>1. CASE s = r
        <5>1. DOMAIN request[r] = RequestFields
          BY <1>0, <3>1 DEF RequestsShaped
        <5>2. after.from = request[r].from
          BY <5>1 DEF RequestFields
        <5> HIDE DEF after
        <5> QED
          BY <3>1, <3>2, <4>1, <5>2
      <4>2. CASE s # r /\ request[s].at = "gate"
        <5>1. DOMAIN request[s] = RequestFields
          BY <1>0, <4>2 DEF RequestsShaped
        <5>2. request'[s] = request[s] \/ request'[s] = [request[s] EXCEPT !.raced = TRUE]
          BY <3>2, <4>2 DEF Racing
        <5> QED
          BY <4>2, <5>1, <5>2 DEF RequestFields
      <4>3. CASE s # r /\ request[s].at # "gate"
        BY <3>2, <4>3 DEF Racing
      <4> QED
        BY <4>1, <4>2, <4>3
    <3> QED
      BY <1>1, <3>1, <3>3
  <2>3. ASSUME GateRefuses(r) \/ RailFails(r) \/ VaultSettles(r) \/ Challenges(r)
        PROVE  WaitsOn
    BY <2>3, AnswerHeard DEF GateRefuses, RailFails, VaultSettles, Challenges
  <2> QED
    BY <1>2, <2>1, <2>2, <2>3 DEF Serves
<1>3. ASSUME NEW a \in Agents, Ticks(a) PROVE WaitsOn
  <2>1. ASSUME NEW r \in Requests, AgentArms(a, r) PROVE WaitsOn
    <3>1. /\ agent[a].at = "arm" /\ agent' = [agent EXCEPT ![a].at = "answer"]
          /\ request'[r].from = a /\ \A s \in Requests : s # r => request'[s] = request[s]
      BY <1>0, <2>1 DEF AgentArms, Arm, RequestsShaped
    <3>2. \A s \in Requests : ~Asks(s, a)
      BY <1>0, <3>1 DEF Waiting
    <3>3. /\ \A b \in Agents : b # a => agent'[b] = agent[b]
          /\ agent'[a].at = "answer"
      <4>1. DOMAIN agent[a] = TickFields /\ DOMAIN agent = Agents
        BY <1>0, <3>1 DEF AgentsShaped
      <4> QED
        BY <3>1, <4>1 DEF TickFields
    <3>4. ASSUME NEW s \in Requests, Asks(s, a)' PROVE s = r
      BY <3>1, <3>2, <3>4 DEF Asks
    <3>5. ASSUME NEW b \in Agents, b # a, NEW s \in Requests, Asks(s, b)'
          PROVE  Asks(s, b)
      BY <3>1, <3>5 DEF Asks
    <3>6. ASSUME NEW b \in Agents, NEW s \in Requests, Asks(s, b)'
          PROVE  /\ agent'[b].at = "answer"
                 /\ \A u \in Requests : Asks(u, b)' => u = s
      <4>1. CASE b = a
        BY <3>3, <3>4, <3>6, <4>1
      <4>2. CASE b # a
        <5>1. Asks(s, b) /\ \A u \in Requests : Asks(u, b)' => Asks(u, b)
          BY <3>5, <3>6, <4>2
        <5>2. agent[b].at = "answer" /\ \A u \in Requests : Asks(u, b) => u = s
          BY <1>0, <5>1 DEF Waiting
        <5> QED
          BY <3>3, <4>2, <5>1, <5>2
      <4> QED
        BY <4>1, <4>2
    <3> QED
      BY <3>6 DEF WaitsOn
  <2>2. CASE GivesUp(a)
    BY <2>2, ClientLeaves DEF GivesUp, NextRow
  <2>3. ASSUME ReadMandates(a) \/ ReadBook(a) \/ EndTick(a)
               \/ (\E i \in Invoices : Pass(a, i))
        PROVE  WaitsOn
    BY <2>3, AgentMoves DEF ReadMandates, ReadBook, EndTick, Pass, IdleAgent
  <2>5. ASSUME NEW i \in Invoices, Take(a, i) PROVE WaitsOn
    <3>1. PICK v : agent' = [agent EXCEPT ![a] = v]
      BY <2>5 DEF Take
    <3>2. agent[a].at # "answer" /\ UNCHANGED request
      BY <2>5 DEF Take
    <3> QED
      BY <3>1, <3>2, AgentMoves
  <2>4. ASSUME (\E q \in Quotes : QuoteAgrees(a, q)) \/ QuoteDiffers(a) \/ ArmRefused(a)
               \/ (\E t \in Trades : AgentPays(a, t) \/ PaymentDeclined(a, t))
               \/ DoesNotPay(a)
        PROVE  WaitsOn
    BY <2>4, AgentMoves
    DEF QuoteAgrees, QuoteDiffers, ArmRefused, AgentPays, PaymentDeclined, Payment,
        DoesNotPay, NextRow
  <2> QED
    BY <1>3, <2>1, <2>2, <2>3, <2>4, <2>5 DEF Ticks
<1>4. ASSUME NEW a \in Agents, TickFails(a) PROVE WaitsOn
  BY <1>4, ClientLeaves DEF TickFails
<1>5. ASSUME (\E i \in Invoices : List(i) \/ Look(i)) \/ NextDay
             \/ (\E t \in Trades : Reclaim(t)) \/ UNCHANGED vars
      PROVE  WaitsOn
  BY <1>1, <1>5 DEF List, Look, NextDay, Reclaim, vars
<1> QED
  BY <1>2, <1>3, <1>4, <1>5 DEF Next

-----------------------------------------------------------------------------
(* What follows.                                                            *)

LEMMA MarketInvAlways == Spec => []MarketInv
<1>1. MarketInv /\ [Next]_vars => MarketInv'
  <2> SUFFICES ASSUME MarketInv, [Next]_vars PROVE MarketInv'
    OBVIOUS
  <2>1. Stands /\ TradesStand /\ RequestsStand /\ AgentsStand /\ Waiting'
    BY NextStands, NextTrades, NextRequests, NextAgents, NextWaiting
  <2> QED
    BY <2>1 DEF MarketInv, Shaped, Stands, TradesStand, RequestsStand, AgentsStand
<1> QED
  BY <1>1, MarketInvInit, PTL DEF Spec

(* For any mandates, prices, agents and number of requests: no trade is     *)
(* armed for less than its seller accepted, however often it was re-priced, *)
(* and whatever became of the quote since.                                  *)
THEOREM SellersGetWhatTheyAccepted == Spec => []NeverBelowAccepted
<1>1. MarketInv => NeverBelowAccepted
  BY DEF MarketInv, Shaped, TradesShaped, TradesHonour, NeverBelowAccepted, NoTrade
<1> QED
  BY <1>1, MarketInvAlways, PTL

(* And an agent signs for a trade only under a quote on a mandate of its    *)
(* own, whichever request armed it and whoever gave up on it.               *)
THEOREM AgentsPayUnderTheirQuotes == Spec => []PaysUnderItsOwnQuote
<1>1. MarketInv => PaysUnderItsOwnQuote
  <2> SUFFICES ASSUME MarketInv, NEW t \in Trades, trade[t] # NoTrade, trade[t].payer # None
               PROVE  BuyerOf[quote[trade[t].quote].mandate] = trade[t].payer
    BY DEF PaysUnderItsOwnQuote
  <2>1. trade[t].status # "absent"
    BY DEF MarketInv, Shaped, TradesShaped, NoTrade
  <2> QED
    BY <2>1 DEF MarketInv, TradesHonour
<1> QED
  BY <1>1, MarketInvAlways, PTL

-----------------------------------------------------------------------------
(* Prices, and what the venue offers.                                       *)

Row == [status : {"active", "exhausted"}, funded : Nat, allocated : Nat]
CapitalTyped == capital \in [Mandates -> Row]

TradesTyped ==
    \A t \in Trades : trade[t].status # "absent" =>
        trade[t].invoice \in Invoices /\ trade[t].mandate \in Mandates /\ trade[t].proceeds \in Nat

Exposes(t, m, d) == /\ t \in Trades /\ trade[t].status \in Exposing
                    /\ trade[t].mandate = m /\ DebtorOf[trade[t].invoice] = d
Exposers(m, d) == {t \in Trades : Exposes(t, m, d)}

LEMMA ExposureIsTotal ==
    ASSUME NEW m, NEW d
    PROVE  /\ Exposure(m, d) = Total(ProceedsOf, Exposers(m, d))
           /\ IsFiniteSet(Exposers(m, d))
<1>1. Exposers(m, d) = {t \in Trades : /\ trade[t].status \in Exposing
                                       /\ trade[t].mandate = m
                                       /\ DebtorOf[trade[t].invoice] = d}
  BY DEF Exposers, Exposes
<1>2. Exposers(m, d) \subseteq Trades /\ IsFiniteSet(Trades)
  BY MarketAssumption DEF Exposers
<1> QED
  BY <1>1, <1>2, FS_Subset DEF Exposure, Against

LEMMA ProceedsAreNat ==
    ASSUME TradesTyped, TradesShaped, NEW t \in Trades
    PROVE  /\ ProceedsOf[t] \in Nat
           /\ trade[t].status # "absent" => ProceedsOf[t] = trade[t].proceeds
BY DEF TradesTyped, TradesShaped, ProceedsOf, NoTrade

LEMMA ExposureNat ==
    ASSUME TradesTyped, TradesShaped, NEW m, NEW d PROVE Exposure(m, d) \in Nat
<1>1. \A t \in Exposers(m, d) : ProceedsOf[t] \in Nat
  BY ProceedsAreNat DEF Exposers
<1> QED
  BY <1>1, ExposureIsTotal, TotalNat

LEMMA BidTyped ==
    ASSUME TradesTyped, TradesShaped, CapitalTyped, NEW m \in Mandates
    PROVE  /\ BidOf(m) \in Bid
           /\ BidOf(m).committed <= Limit[m] /\ BidOf(m).allocated = capital[m].allocated
           /\ \A d \in Debtors : BidOf(m).exposure[d] = Exposure(m, d)
<1>1. /\ capital[m] \in Row /\ Limit[m] \in Nat
  BY MarketAssumption DEF CapitalTyped
<1>2. /\ capital[m].status \in {"active", "exhausted"}
      /\ capital[m].funded \in Nat /\ capital[m].allocated \in Nat
  BY <1>1 DEF Row
<1>3. /\ Lesser(capital[m].funded, Limit[m]) \in Nat
      /\ Lesser(capital[m].funded, Limit[m]) <= Limit[m]
  BY <1>1, <1>2 DEF Lesser
<1>4. [d \in Debtors |-> Exposure(m, d)] \in [Debtors -> Nat]
  BY ExposureNat
<1> QED
  BY <1>2, <1>3, <1>4 DEF BidOf, Bid

LEMMA TenorNat ==
    ASSUME NEW i \in Invoices, NEW x \in Days PROVE AtLeast0(Due[i] - x) \in Nat
<1>1. Due[i] \in Nat /\ x \in Nat
  BY MarketAssumption
<1> QED
  BY <1>1 DEF AtLeast0

LEMMA ProceedsNat ==
    ASSUME NEW i \in Invoices, NEW m \in Mandates, NEW days \in Nat
    PROVE  Proceeds(i, m, days) \in Nat
<1>1. Face[i] \in Nat /\ Yield[m] \in Nat
  BY MarketAssumption
<1>2. PICK x \in Nat : x = Face[i] * Yield[m] * days
  BY <1>1
<1>3. CeilDiv(Face[i] * Yield[m] * days, 10000 * 365) \in Nat
  <2>1. (x + 3650000 - 1) \div 3650000 \in Nat
    OBVIOUS
  <2> QED
    BY <1>2, <2>1 DEF CeilDiv
<1>4. \A n \in Nat : Face[i] - Lesser(Face[i], n) \in Nat
  BY <1>1 DEF Lesser
<1> QED
  BY <1>3, <1>4 DEF Proceeds, Discount

(* An offer is a screened bid that has the capital and the room for it.     *)
LEMMA OffersFit ==
    ASSUME TradesTyped, TradesShaped, CapitalTyped, day \in Days,
           NEW i \in Invoices, NEW offer \in Offers(i)
    PROVE  /\ offer.mandate \in Mandates /\ offer.proceeds \in Nat
           /\ offer.proceeds <= Unallocated(BidOf(offer.mandate))
           /\ offer.proceeds <= Room(offer.mandate, BidOf(offer.mandate), DebtorOf[i])
<1> DEFINE matches == Matches(i, Bids, Tenor(i))
<1>1. PICK c \in matches : offer = [mandate |-> c.mandate, proceeds |-> c.proceeds]
  BY DEF Offers, BestQuote, Pool
<1>2. PICK m \in DOMAIN Bids : c = Candidate(i, m, Bids[m], Tenor(i)) /\ Fits(c)
  BY <1>1 DEF Matches
<1>3. m \in Mandates /\ Bids[m] = BidOf(m)
  BY <1>2 DEF Bids
<1>4. /\ c.mandate = m /\ c.proceeds = Proceeds(i, m, Tenor(i))
      /\ c.proceeds <= Unallocated(BidOf(m)) /\ c.proceeds <= Room(m, BidOf(m), DebtorOf[i])
  BY <1>2, <1>3 DEF Candidate, Fits
<1>5. offer.mandate = m /\ offer.proceeds = c.proceeds
  BY <1>1, <1>4
<1>6. c.proceeds \in Nat
  BY <1>3, <1>4, TenorNat, ProceedsNat DEF Tenor
<1> QED
  BY <1>3, <1>4, <1>5, <1>6

-----------------------------------------------------------------------------
(* What a mandate is committed to.                                          *)

RequestsTyped ==
    \A r \in Requests : request[r].at # "idle" =>
        /\ request[r].invoice \in Invoices /\ request[r].offer.mandate \in Mandates
        /\ request[r].offer.proceeds \in Nat

(* Each request on a rail settles a trade of its own, still to be settled.  *)
RailsPrepare ==
    \A r \in Requests : request[r].at = "rail" =>
        /\ trade[request[r].trade].status = "preparing"
        /\ \A s \in Requests :
               request[s].at = "rail" /\ request[s].trade = request[r].trade => s = r

Raced(m) == \E t \in Trades : /\ trade[t].status # "absent" /\ trade[t].mandate = m
                              /\ trade[t].raced = TRUE

WithinLimits(m) ==
    /\ capital[m].allocated <= Limit[m]
    /\ \A d \in Debtors : Exposure(m, d) <= DebtorCap[m]
LimitsKept == \A m \in Mandates : Raced(m) \/ WithinLimits(m)

(* What waits at the gate still fits, unless another was reserved since.    *)
FitsStill(offer, d) ==
    /\ capital[offer.mandate].allocated + offer.proceeds <= Limit[offer.mandate]
    /\ Exposure(offer.mandate, d) + offer.proceeds <= DebtorCap[offer.mandate]
GateFits ==
    \A r \in Requests :
        request[r].at = "gate" /\ request[r].raced # TRUE /\ ~Raced(request[r].offer.mandate)
            => FitsStill(request[r].offer, DebtorOf[request[r].invoice])

LimitsInv ==
    /\ day \in Days
    /\ CapitalTyped /\ TradesTyped /\ RequestsTyped /\ RailsPrepare
    /\ LimitsKept /\ GateFits

(* What an agent looks for a price of is an invoice.                        *)
AsksForInvoices ==
    \A a \in Agents : agent[a].at \in {"quote", "arm"} => agent[a].invoice \in Invoices

-----------------------------------------------------------------------------

(* Nothing gets heavier: no mandate has more allocated or more exposed.     *)
Lighter ==
    /\ CapitalTyped' /\ TradesTyped' /\ TradesShaped'
    /\ \A m \in Mandates : capital'[m].allocated <= capital[m].allocated
    /\ \A m \in Mandates, d \in Debtors : Exposure(m, d)' <= Exposure(m, d)
    /\ \A m \in Mandates : Raced(m) => Raced(m)'

(* A request that ends or stays what it was.                                *)
Follows(r) ==
    \/ request'[r].at = "idle"
    \/ /\ request[r].at # "idle" /\ request'[r].at = request[r].at
       /\ request'[r].invoice = request[r].invoice /\ request'[r].offer = request[r].offer
       /\ request'[r].raced = request[r].raced /\ request'[r].trade = request[r].trade

ExposuresTyped == \A m, d : Exposure(m, d) \in Nat
LEMMA ExposuresNat == TradesTyped /\ TradesShaped => ExposuresTyped
BY ExposureNat DEF ExposuresTyped

LEMMA Gates ==
    ASSUME LimitsInv, TradesShaped, Lighter, NEW r \in Requests, Follows(r),
           request'[r].at = "gate", request'[r].raced # TRUE,
           ~Raced(request[r].offer.mandate)'
    PROVE  FitsStill(request[r].offer, DebtorOf[request[r].invoice])'
<1> DEFINE m == request[r].offer.mandate
           d == DebtorOf[request[r].invoice]
           n == request[r].offer.proceeds
<1>1. /\ request[r].at = "gate" /\ request[r].raced # TRUE
      /\ request'[r].offer = request[r].offer /\ request'[r].invoice = request[r].invoice
  BY DEF Follows
<1>2. m \in Mandates /\ d \in Debtors /\ n \in Nat
  BY <1>1, MarketAssumption DEF LimitsInv, RequestsTyped
<1>3. ~Raced(m)
  BY <1>1, <1>2 DEF Lighter
<1>4. capital[m].allocated + n <= Limit[m] /\ Exposure(m, d) + n <= DebtorCap[m]
  BY <1>1, <1>3 DEF LimitsInv, GateFits, FitsStill
<1>5. /\ capital[m].allocated \in Nat /\ capital'[m].allocated \in Nat
      /\ Limit[m] \in Nat /\ DebtorCap[m] \in Nat
  BY <1>2, MarketAssumption DEF LimitsInv, Lighter, CapitalTyped, Row
<1>6. Exposure(m, d) \in Nat /\ Exposure(m, d)' \in Nat
  <2>1. ExposuresTyped /\ ExposuresTyped'
    BY ExposuresNat, PTL DEF LimitsInv, Lighter
  <2> QED
    BY <2>1 DEF ExposuresTyped
<1> QED
  BY <1>1, <1>2, <1>4, <1>5, <1>6 DEF Lighter, FitsStill

LEMMA Quiet ==
    ASSUME LimitsInv, TradesShaped, Lighter, day' \in Days, \A r \in Requests : Follows(r),
           \A r \in Requests : request'[r].at = "rail" =>
               trade'[request'[r].trade].status = "preparing"
    PROVE  LimitsInv'
<1>1. RequestsTyped'
  BY DEF LimitsInv, RequestsTyped, Follows
<1>2. RailsPrepare'
  BY DEF LimitsInv, RailsPrepare, Follows
<1>3. LimitsKept'
  <2>1. ASSUME NEW m \in Mandates, ~Raced(m)' PROVE WithinLimits(m)'
    <3>1. WithinLimits(m)
      BY <2>1 DEF LimitsInv, LimitsKept, Lighter
    <3>2. /\ capital[m].allocated \in Nat /\ capital'[m].allocated \in Nat
          /\ Limit[m] \in Nat /\ DebtorCap[m] \in Nat
      BY MarketAssumption DEF LimitsInv, Lighter, CapitalTyped, Row
    <3>3. ExposuresTyped /\ ExposuresTyped'
      BY ExposuresNat, PTL DEF LimitsInv, Lighter
    <3> QED
      BY <3>1, <3>2, <3>3 DEF WithinLimits, Lighter, ExposuresTyped
  <2> QED
    BY <2>1 DEF LimitsKept
<1>4. GateFits'
  <2>1. ASSUME NEW r \in Requests, request'[r].at = "gate", request'[r].raced # TRUE,
               ~Raced(request[r].offer.mandate)'
        PROVE  FitsStill(request[r].offer, DebtorOf[request[r].invoice])'
    BY <2>1, Gates
  <2> QED
    BY <2>1 DEF GateFits
<1> QED
  BY <1>1, <1>2, <1>3, <1>4 DEF LimitsInv, Lighter

ExposuresAreTotals ==
    \A m, d : /\ Exposure(m, d) = Total(ProceedsOf, Exposers(m, d))
              /\ IsFiniteSet(Exposers(m, d))
LEMMA EveryExposureIsATotal == ExposuresAreTotals
BY ExposureIsTotal DEF ExposuresAreTotals

ProceedsAll == \A t \in Trades : /\ ProceedsOf[t] \in Nat
                                 /\ trade[t].status # "absent" => ProceedsOf[t] = trade[t].proceeds
LEMMA AllProceedsAreNat == TradesTyped /\ TradesShaped => ProceedsAll
BY ProceedsAreNat DEF ProceedsAll

LEMMA ExposureMoves ==
    ASSUME TradesTyped, TradesShaped, TradesTyped', TradesShaped', NEW t \in Trades,
           \A u \in Trades : u # t => trade'[u] = trade[u], NEW m, NEW d
    PROVE  Exposure(m, d)' = Exposure(m, d)
               + (IF Exposes(t, m, d)' THEN trade'[t].proceeds ELSE 0)
               - (IF Exposes(t, m, d) THEN trade[t].proceeds ELSE 0)
<1>1. /\ ExposuresAreTotals /\ ExposuresAreTotals' /\ ProceedsAll /\ ProceedsAll'
  BY EveryExposureIsATotal, AllProceedsAreNat, PTL
<1>2. PICK f, e, S, T : /\ f = ProceedsOf /\ e = ProceedsOf'
                        /\ S = Exposers(m, d) /\ T = Exposers(m, d)'
  OBVIOUS
<1>3. /\ Exposure(m, d) = Total(f, S) /\ Exposure(m, d)' = Total(e, T)
      /\ IsFiniteSet(S) /\ IsFiniteSet(T)
  BY <1>1, <1>2 DEF ExposuresAreTotals
<1>4. /\ t \in S <=> Exposes(t, m, d)
      /\ t \in T <=> Exposes(t, m, d)'
      /\ S \cup T \subseteq Trades
  BY <1>2 DEF Exposers
<1>5. /\ t \in S => f[t] = trade[t].proceeds /\ f[t] \in Int
      /\ t \in T => e[t] = trade'[t].proceeds /\ e[t] \in Int
  BY <1>1, <1>2, <1>4 DEF ProceedsAll, Exposes, Exposing
<1>6. ASSUME NEW u \in S \cup T, u # t
      PROVE  f[u] \in Int /\ e[u] = f[u] /\ (u \in T <=> u \in S)
  <2>1. u \in Trades /\ trade'[u] = trade[u]
    BY <1>4, <1>6
  <2>2. f[u] \in Nat /\ e[u] = f[u]
    BY <1>1, <1>2, <2>1 DEF ProceedsAll, ProceedsOf
  <2>3. u \in T <=> u \in S
    BY <1>2, <2>1 DEF Exposers, Exposes
  <2> QED
    BY <2>2, <2>3
<1>7. Total(e, T) = Total(f, S) + (IF t \in T THEN e[t] ELSE 0)
                                - (IF t \in S THEN f[t] ELSE 0)
  BY <1>3, <1>5, <1>6, TotalShift
<1> QED
  BY <1>3, <1>4, <1>5, <1>7

(* A trade that settles, fails or ends, with its capital kept or given back.*)
LEMMA MoveIsLighter ==
    ASSUME LimitsInv, TradesShaped, TradesShaped', CapitalTyped',
           \A m \in Mandates : capital'[m].allocated <= capital[m].allocated,
           NEW t \in Trades, trade[t].status \in Exposing,
           \A u \in Trades : u # t => trade'[u] = trade[u],
           trade'[t].status # "absent", trade'[t].invoice = trade[t].invoice,
           trade'[t].mandate = trade[t].mandate, trade'[t].proceeds = trade[t].proceeds,
           trade'[t].raced = trade[t].raced
    PROVE  Lighter
<1>1. trade[t].status # "absent"
  BY DEF Exposing
<1>2. TradesTyped'
  BY <1>1 DEF LimitsInv, TradesTyped
<1>3. ASSUME NEW m \in Mandates, NEW d \in Debtors PROVE Exposure(m, d)' <= Exposure(m, d)
  <2>1. Exposure(m, d)' = Exposure(m, d)
               + (IF Exposes(t, m, d)' THEN trade'[t].proceeds ELSE 0)
               - (IF Exposes(t, m, d) THEN trade[t].proceeds ELSE 0)
    BY <1>2, ExposureMoves DEF LimitsInv
  <2>2. Exposes(t, m, d)' => Exposes(t, m, d)
    BY DEF Exposes
  <2>3. trade[t].proceeds \in Nat /\ Exposure(m, d) \in Nat
    BY <1>1, ExposureNat DEF LimitsInv, TradesTyped
  <2> QED
    BY <2>1, <2>2, <2>3
<1>4. ASSUME NEW m \in Mandates, Raced(m) PROVE Raced(m)'
  BY <1>1, <1>4 DEF Raced
<1> QED
  BY <1>2, <1>3, <1>4 DEF Lighter

LEMMA StayIsLighter ==
    ASSUME LimitsInv, TradesShaped, UNCHANGED <<capital, trade>> PROVE Lighter
<1>1. TradesShaped' /\ TradesTyped' /\ CapitalTyped'
  BY DEF LimitsInv, TradesShaped, TradesTyped, CapitalTyped
<1>2. \A m \in Mandates : capital'[m].allocated <= capital[m].allocated /\ (Raced(m) => Raced(m)')
  BY DEF LimitsInv, CapitalTyped, Row, Raced
<1>3. ASSUME NEW m \in Mandates, NEW d \in Debtors PROVE Exposure(m, d)' <= Exposure(m, d)
  <2>1. Exposure(m, d)' = Exposure(m, d)
    BY DEF Exposure, Against, ProceedsOf
  <2> QED
    BY <2>1, ExposureNat DEF LimitsInv
<1> QED
  BY <1>1, <1>2, <1>3 DEF Lighter

-----------------------------------------------------------------------------
(* Each step.                                                               *)

LEMMA AllocatedRow ==
    ASSUME NEW c \in Row, NEW n \in Nat
    PROVE  Allocated(c, n) \in Row /\ Allocated(c, n).allocated = c.allocated + n
<1>1. c.allocated \in Nat /\ c.funded \in Nat /\ c.status \in {"active", "exhausted"}
  BY DEF Row
<1>2. [c EXCEPT !.allocated = c.allocated + n] \in Row
  BY <1>1 DEF Row
<1> QED
  BY <1>1, <1>2 DEF Allocated, Row

LEMMA ReleasedRow ==
    ASSUME NEW c \in Row, NEW n \in Nat
    PROVE  Released(c, n) \in Row /\ Released(c, n).allocated <= c.allocated
<1> DEFINE e == [c EXCEPT !.allocated = AtLeast0(c.allocated - n)]
<1>1. c.allocated \in Nat /\ AtLeast0(c.allocated - n) \in Nat
      /\ AtLeast0(c.allocated - n) <= c.allocated
  BY DEF Row, AtLeast0
<1>2. e \in Row /\ e.allocated = AtLeast0(c.allocated - n)
  BY <1>1 DEF Row
<1>3. Released(c, n) = Reopened(e)
  BY DEF Released
<1> HIDE DEF e
<1>4. Reopened(e) \in Row /\ Reopened(e).allocated = e.allocated
  BY <1>2 DEF Reopened, Row
<1> QED
  BY <1>1, <1>2, <1>3, <1>4

LEMMA GiveBackIsLighter ==
    ASSUME MarketInv, LimitsInv, TradesShaped', NEW t \in Trades, trade[t].status \in Exposing,
           NEW ending \in {"failed", "unwound"}, GiveBack(t, ending)
    PROVE  Lighter
<1> DEFINE m == trade[t].mandate
           n == trade[t].proceeds
<1>1. TradesShaped /\ trade[t].status # "absent" /\ DOMAIN trade[t] = TradeFields
  BY DEF MarketInv, Shaped, TradesShaped, Exposing
<1>2. m \in Mandates /\ n \in Nat /\ capital \in [Mandates -> Row]
  BY <1>1 DEF LimitsInv, TradesTyped, CapitalTyped
<1>3. capital' = [capital EXCEPT ![m] = Released(capital[m], n)]
  BY DEF GiveBack
<1>4. Released(capital[m], n) \in Row /\ Released(capital[m], n).allocated <= capital[m].allocated
  BY <1>2, ReleasedRow
<1>5. capital' \in [Mandates -> Row]
  BY <1>2, <1>3, <1>4
<1>6. ASSUME NEW k \in Mandates PROVE capital'[k].allocated <= capital[k].allocated
  <2>1. CASE k = m
    BY <1>2, <1>3, <1>4, <2>1
  <2>2. CASE k # m
    <3>1. capital'[k] = capital[k] /\ capital[k].allocated \in Nat
      BY <1>2, <1>3, <2>2 DEF Row
    <3> QED
      BY <3>1
  <2> QED
    BY <2>1, <2>2
<1>7. /\ \A u \in Trades : u # t => trade'[u] = trade[u]
      /\ trade'[t].status = ending /\ trade'[t].invoice = trade[t].invoice
      /\ trade'[t].mandate = trade[t].mandate /\ trade'[t].proceeds = trade[t].proceeds
      /\ trade'[t].raced = trade[t].raced
  BY <1>1 DEF GiveBack, TradesShaped, TradeFields
<1> QED
  BY <1>1, <1>5, <1>6, <1>7, MoveIsLighter DEF CapitalTyped

LEMMA StatusIsLighter ==
    ASSUME MarketInv, LimitsInv, TradesShaped', NEW t \in Trades, trade[t].status \in Exposing,
           UNCHANGED capital, \A u \in Trades : u # t => trade'[u] = trade[u],
           NEW s, s # "absent", NEW p,
           \/ trade'[t] = [trade[t] EXCEPT !.status = s]
           \/ trade'[t] = [trade[t] EXCEPT !.status = s, !.payer = p]
    PROVE  Lighter
<1>1. TradesShaped /\ trade[t].status # "absent" /\ DOMAIN trade[t] = TradeFields
  BY DEF MarketInv, Shaped, TradesShaped, Exposing
<1>2. /\ trade'[t].status = s /\ trade'[t].invoice = trade[t].invoice
      /\ trade'[t].mandate = trade[t].mandate /\ trade'[t].proceeds = trade[t].proceeds
      /\ trade'[t].raced = trade[t].raced
  BY <1>1 DEF TradeFields
<1>3. CapitalTyped' /\ \A m \in Mandates : capital'[m].allocated <= capital[m].allocated
  BY DEF LimitsInv, CapitalTyped, Row
<1> QED
  BY <1>1, <1>2, <1>3, MoveIsLighter

(* What is armed fits in the limits, unless they are broken already.        *)
LEMMA ArmKeepsLimits ==
    ASSUME MarketInv, LimitsInv, UNCHANGED <<day, capital, trade>>,
           NEW r \in Requests, NEW from, NEW i \in Invoices, NEW q, Arm(r, from, i, q)
    PROVE  LimitsInv'
<1>0. TradesShaped /\ DOMAIN request = Requests
  BY DEF MarketInv, Shaped, RequestsShaped
<1>1. PICK offer \in Offers(i) :
        request' = [request EXCEPT ![r] =
                [at |-> "gate", from |-> from, invoice |-> i, quote |-> q,
                 offer |-> offer, raced |-> FALSE, trade |-> 0]]
  BY DEF Arm
<1>2. /\ request'[r].at = "gate" /\ request'[r].invoice = i /\ request'[r].offer = offer
      /\ \A s \in Requests : s # r => request'[s] = request[s]
  BY <1>0, <1>1
<1> DEFINE m == offer.mandate
           n == offer.proceeds
           d == DebtorOf[i]
<1>3. /\ m \in Mandates /\ n \in Nat /\ n <= Unallocated(BidOf(m)) /\ n <= Room(m, BidOf(m), d)
  BY <1>0, OffersFit DEF LimitsInv
<1>4. /\ CapitalTyped' /\ TradesTyped' /\ day' \in Days
      /\ \A k \in Mandates : Raced(k)' <=> Raced(k)
      /\ \A k, x : Exposure(k, x)' = Exposure(k, x)
  BY DEF LimitsInv, CapitalTyped, TradesTyped, Raced, Exposure, Against, ProceedsOf
<1>5. RequestsTyped'
  BY <1>2, <1>3 DEF LimitsInv, RequestsTyped
<1>6. RailsPrepare'
  BY <1>2 DEF LimitsInv, RailsPrepare
<1>7. LimitsKept'
  BY <1>4 DEF LimitsInv, LimitsKept, WithinLimits
<1>8. ~Raced(m) => FitsStill(offer, d)
  <2> SUFFICES ASSUME ~Raced(m) PROVE FitsStill(offer, d)
    OBVIOUS
  <2>1. d \in Debtors /\ Limit[m] \in Nat /\ DebtorCap[m] \in Nat /\ capital[m].allocated \in Nat
        /\ Exposure(m, d) \in Nat
    BY <1>0, <1>3, MarketAssumption, ExposureNat DEF LimitsInv, CapitalTyped, Row
  <2>2. capital[m].allocated <= Limit[m] /\ Exposure(m, d) <= DebtorCap[m]
    BY <1>3, <2>1 DEF LimitsInv, LimitsKept, WithinLimits
  <2>3. /\ BidOf(m).committed \in Nat /\ BidOf(m).committed <= Limit[m]
        /\ BidOf(m).allocated = capital[m].allocated /\ BidOf(m).exposure[d] = Exposure(m, d)
    BY <1>0, <1>3, <2>1, BidTyped DEF LimitsInv, Bid
  <2>4. capital[m].allocated + n <= Limit[m]
    BY <1>3, <2>1, <2>2, <2>3 DEF Unallocated, AtLeast0
  <2>5. Exposure(m, d) + n <= DebtorCap[m]
    BY <1>3, <2>1, <2>2, <2>3 DEF Room, AtLeast0
  <2> QED
    BY <2>4, <2>5 DEF FitsStill
<1>9. GateFits'
  <2>1. ASSUME NEW s \in Requests, request'[s].at = "gate", request'[s].raced # TRUE,
               ~Raced(request[s].offer.mandate)'
        PROVE  FitsStill(request[s].offer, DebtorOf[request[s].invoice])'
    <3>1. CASE s = r
      <4>1. ~Raced(m)
        BY <1>2, <1>3, <1>4, <2>1, <3>1
      <4> QED
        BY <1>2, <1>4, <1>8, <3>1, <4>1 DEF FitsStill
    <3>2. CASE s # r
      <4>1. request'[s] = request[s] /\ request[s].offer.mandate \in Mandates
        BY <1>2, <2>1, <3>2 DEF LimitsInv, RequestsTyped
      <4>2. FitsStill(request[s].offer, DebtorOf[request[s].invoice])
        BY <1>4, <2>1, <4>1 DEF LimitsInv, GateFits
      <4> QED
        BY <1>4, <4>1, <4>2 DEF FitsStill
    <3> QED
      BY <3>1, <3>2
  <2> QED
    BY <2>1 DEF GateFits
<1> QED
  BY <1>4, <1>5, <1>6, <1>7, <1>9 DEF LimitsInv

(* What is reserved fitted when it was priced, and no reservation on its    *)
(* mandate came between: or else it is marked as raced.                     *)
LEMMA ReserveKeepsLimits ==
    ASSUME MarketInv, TradesShaped', LimitsInv, NEW r \in Requests, NEW t \in Trades, Reserve(r, t)
    PROVE  LimitsInv'
<1> DEFINE m == request[r].offer.mandate
           n == request[r].offer.proceeds
           d == DebtorOf[request[r].invoice]
           after == [request[r] EXCEPT !.at = "rail", !.trade = t]
<1>0. /\ TradesShaped /\ request[r].at = "gate" /\ DOMAIN request[r] = RequestFields
      /\ DOMAIN trade = Trades /\ DOMAIN request = Requests
  BY DEF Reserve, MarketInv, Shaped, TradesShaped, RequestsShaped
<1>1. /\ m \in Mandates /\ n \in Nat /\ request[r].invoice \in Invoices /\ d \in Debtors
  BY <1>0, MarketAssumption DEF LimitsInv, RequestsTyped
<1>2. /\ trade[t] = NoTrade /\ trade[t].status = "absent"
      /\ \A u \in Trades : u # t => trade'[u] = trade[u]
      /\ trade'[t].status = "preparing" /\ trade'[t].invoice = request[r].invoice
      /\ trade'[t].mandate = m /\ trade'[t].proceeds = n /\ trade'[t].raced = request[r].raced
  BY <1>0 DEF Reserve, Fresh, NoTrade
<1>3. request' = [Racing(r, m) EXCEPT ![r] = after]
  BY DEF Reserve
<1>4. /\ request'[r].at = "rail" /\ request'[r].trade = t
      /\ request'[r].invoice = request[r].invoice /\ request'[r].offer = request[r].offer
  <2>1. after.at = "rail" /\ after.trade = t /\ after.invoice = request[r].invoice
        /\ after.offer = request[r].offer
    BY <1>0 DEF RequestFields
  <2>2. request'[r] = after
    BY <1>3 DEF Racing
  <2> HIDE DEF after
  <2> QED
    BY <2>1, <2>2
<1>5. ASSUME NEW s \in Requests, s # r
      PROVE  /\ request'[s].at = request[s].at
             /\ request[s].at # "idle" =>
                  /\ request'[s].invoice = request[s].invoice
                  /\ request'[s].offer = request[s].offer
                  /\ request'[s].trade = request[s].trade
             /\ request[s].at = "gate" /\ request[s].offer.mandate = m => request'[s].raced = TRUE
             /\ request[s].at = "gate" /\ request[s].offer.mandate # m => request'[s] = request[s]
  <2>1. request'[s] = Racing(r, m)[s]
    BY <1>3, <1>5 DEF Racing
  <2>2. CASE request[s].at = "gate" /\ request[s].offer.mandate = m
    <3>1. request'[s] = [request[s] EXCEPT !.raced = TRUE] /\ DOMAIN request[s] = RequestFields
      BY <1>5, <2>1, <2>2 DEF Racing, MarketInv, Shaped, RequestsShaped
    <3> QED
      BY <2>2, <3>1 DEF RequestFields
  <2>3. CASE ~(request[s].at = "gate" /\ request[s].offer.mandate = m)
    BY <2>1, <2>3 DEF Racing
  <2> QED
    BY <2>2, <2>3
<1> HIDE DEF after
<1>6. /\ capital' = [capital EXCEPT ![m] = Allocated(capital[m], n)]
      /\ capital \in [Mandates -> Row]
  BY DEF Reserve, LimitsInv, CapitalTyped
<1>7. /\ CapitalTyped' /\ capital'[m].allocated = capital[m].allocated + n
      /\ \A k \in Mandates : k # m => capital'[k] = capital[k]
  <2>1. Allocated(capital[m], n) \in Row
        /\ Allocated(capital[m], n).allocated = capital[m].allocated + n
    BY <1>1, <1>6, AllocatedRow
  <2> QED
    BY <1>1, <1>6, <2>1 DEF CapitalTyped
<1>8. TradesTyped'
  BY <1>1, <1>2 DEF LimitsInv, TradesTyped
<1>9. RequestsTyped'
  BY <1>1, <1>4, <1>5 DEF LimitsInv, RequestsTyped
<1>10. RailsPrepare'
  <2>1. ASSUME NEW s \in Requests, s # r, request'[s].at = "rail"
        PROVE  /\ request[s].at = "rail" /\ request'[s].trade = request[s].trade
               /\ request[s].trade \in Trades /\ request[s].trade # t
               /\ trade'[request[s].trade].status = "preparing"
    <3>1. request[s].at = "rail" /\ request'[s].trade = request[s].trade
      BY <1>5, <2>1
    <3>2. request[s].trade \in Trades /\ trade[request[s].trade].status = "preparing"
      BY <3>1 DEF MarketInv, RequestsHonour, Armed, LimitsInv, RailsPrepare
    <3> QED
      BY <1>2, <3>1, <3>2
  <2> QED
    BY <1>2, <1>4, <2>1 DEF LimitsInv, RailsPrepare
<1>11. ASSUME NEW k \in Mandates, NEW x \in Debtors
       PROVE  /\ Exposure(k, x) \in Nat
              /\ k = m /\ x = d => Exposure(k, x)' = Exposure(k, x) + n
              /\ k # m \/ x # d => Exposure(k, x)' = Exposure(k, x)
  <2>1. Exposure(k, x)' = Exposure(k, x)
               + (IF Exposes(t, k, x)' THEN trade'[t].proceeds ELSE 0)
               - (IF Exposes(t, k, x) THEN trade[t].proceeds ELSE 0)
    BY <1>0, <1>2, <1>8, ExposureMoves DEF LimitsInv
  <2>2. ~Exposes(t, k, x)
    BY <1>2 DEF Exposes, Exposing
  <2>3. Exposes(t, k, x)' <=> (k = m /\ x = d)
    BY <1>2 DEF Exposes, Exposing
  <2>4. Exposure(k, x) \in Nat
    BY <1>0, ExposureNat DEF LimitsInv
  <2> QED
    BY <1>1, <1>2, <2>1, <2>2, <2>3, <2>4
<1>12. ASSUME NEW k \in Mandates
       PROVE  /\ k # m => (Raced(k)' <=> Raced(k))
              /\ Raced(k) => Raced(k)'
              /\ k = m /\ request[r].raced = TRUE => Raced(k)'
  BY <1>2 DEF Raced
<1>13. ASSUME NEW k \in Mandates
       PROVE  /\ Limit[k] \in Nat /\ DebtorCap[k] \in Nat /\ capital[k].allocated \in Nat
  BY <1>6, MarketAssumption DEF Row
<1>14. ASSUME NEW k \in Mandates, ~Raced(k)' PROVE WithinLimits(k)'
  <2>1. WithinLimits(k)
    BY <1>12, <1>14 DEF LimitsInv, LimitsKept
  <2>2. CASE k = m
    <3>1. FitsStill(request[r].offer, d)
      BY <1>0, <1>12, <1>14, <2>2 DEF LimitsInv, GateFits
    <3>2. ASSUME NEW x \in Debtors PROVE Exposure(k, x)' <= DebtorCap[k]
      BY <1>1, <1>11, <1>13, <2>1, <2>2, <3>1 DEF FitsStill, WithinLimits
    <3>3. capital'[k].allocated <= Limit[k]
      BY <1>1, <2>2, <1>7, <1>13, <3>1 DEF FitsStill
    <3> QED
      BY <2>2, <3>2, <3>3 DEF WithinLimits
  <2>3. CASE k # m
    BY <1>7, <1>11, <2>1, <2>3 DEF WithinLimits
  <2> QED
    BY <2>2, <2>3
<1>15. LimitsKept'
  BY <1>14 DEF LimitsKept
<1>16. GateFits'
  <2>1. ASSUME NEW s \in Requests, request'[s].at = "gate", request'[s].raced # TRUE,
               ~Raced(request[s].offer.mandate)'
        PROVE  FitsStill(request[s].offer, DebtorOf[request[s].invoice])'
    <3>1. s # r
      BY <1>4, <2>1
    <3>2. /\ request[s].at = "gate" /\ request[s].offer.mandate # m /\ request'[s] = request[s]
      BY <1>5, <2>1, <3>1
    <3>3. request[s].offer.mandate \in Mandates /\ DebtorOf[request[s].invoice] \in Debtors
      BY <3>2, MarketAssumption DEF LimitsInv, RequestsTyped
    <3>4. FitsStill(request[s].offer, DebtorOf[request[s].invoice])
      BY <1>12, <2>1, <3>2, <3>3 DEF LimitsInv, GateFits
    <3> QED
      BY <1>7, <1>11, <3>2, <3>3, <3>4 DEF FitsStill
  <2> QED
    BY <2>1 DEF GateFits
<1>17. day' \in Days
  BY DEF Reserve, LimitsInv
<1> QED
  BY <1>7, <1>8, <1>9, <1>10, <1>15, <1>16, <1>17 DEF LimitsInv

LEMMA FirstDay ==
    ASSUME NEW S \in SUBSET Days, S # {} PROVE Min(S) \in S
BY Least, MarketAssumption

(* Requests that end, stay, or lose their client.                           *)
LEMMA FollowsAll ==
    ASSUME MarketInv,
           \/ UNCHANGED request
           \/ \E r \in Requests : Ends(r)
           \/ \E a : request' = [r \in Requests |->
                  IF request[r] # IdleRequest /\ request[r].from = a
                  THEN [request[r] EXCEPT !.from = Browser] ELSE request[r]]
    PROVE  \A s \in Requests : Follows(s)
<1> SUFFICES ASSUME NEW s \in Requests PROVE Follows(s)
  OBVIOUS
<1>0. RequestsShaped
  BY DEF MarketInv, Shaped
<1>1. request'[s] = request[s] => Follows(s)
  BY <1>0 DEF Follows
<1>2. ASSUME NEW r \in Requests, Ends(r) PROVE Follows(s)
  <2>1. request'[s] = IdleRequest \/ request'[s] = request[s]
    BY <1>0, <1>2 DEF Ends, RequestsShaped
  <2> QED
    BY <1>1, <2>1 DEF Follows, IdleRequest
<1>3. ASSUME NEW a, request' = [r \in Requests |->
                  IF request[r] # IdleRequest /\ request[r].from = a
                  THEN [request[r] EXCEPT !.from = Browser] ELSE request[r]]
      PROVE  Follows(s)
  <2>1. request'[s] = request[s] \/ (request[s].at # "idle"
                                     /\ request'[s] = [request[s] EXCEPT !.from = Browser])
    BY <1>0, <1>3 DEF RequestsShaped
  <2>2. CASE request[s].at # "idle" /\ request'[s] = [request[s] EXCEPT !.from = Browser]
    <3>1. DOMAIN request[s] = RequestFields
      BY <1>0, <2>2 DEF RequestsShaped
    <3> QED
      BY <2>2, <3>1 DEF RequestFields, Follows
  <2> QED
    BY <1>1, <2>1, <2>2
<1> QED
  BY <1>1, <1>2, <1>3

(* A trade that no request has on its rail any more moves.                  *)
LEMMA MoveKeepsLimits ==
    ASSUME MarketInv, LimitsInv, Lighter, UNCHANGED day, NEW t \in Trades,
           \A u \in Trades : u # t => trade'[u] = trade[u],
           \A s \in Requests : Follows(s),
           \A s \in Requests : request'[s].at = "rail" => request[s].trade # t
    PROVE  LimitsInv'
<1>1. ASSUME NEW s \in Requests, request'[s].at = "rail"
      PROVE  trade'[request'[s].trade].status = "preparing"
  <2>1. request[s].at = "rail" /\ request'[s].trade = request[s].trade
    BY <1>1 DEF Follows
  <2>2. request[s].trade \in Trades /\ trade[request[s].trade].status = "preparing"
    BY <2>1 DEF MarketInv, RequestsHonour, Armed, LimitsInv, RailsPrepare
  <2> QED
    BY <1>1, <2>1, <2>2
<1> QED
  BY <1>1, Quiet DEF MarketInv, Shaped, LimitsInv

LEMMA StayKeepsLimits ==
    ASSUME MarketInv, LimitsInv, UNCHANGED <<capital, trade>>, day' \in Days,
           \A s \in Requests : Follows(s)
    PROVE  LimitsInv'
<1>1. TradesShaped /\ Lighter
  BY StayIsLighter DEF MarketInv, Shaped
<1>2. ASSUME NEW s \in Requests, request'[s].at = "rail"
      PROVE  trade'[request'[s].trade].status = "preparing"
  BY <1>2 DEF Follows, LimitsInv, RailsPrepare
<1> QED
  BY <1>1, <1>2, Quiet

LEMMA NextLimits ==
    MarketInv /\ MarketInv' /\ LimitsInv /\ AsksForInvoices /\ [Next]_vars => LimitsInv'
<1> SUFFICES ASSUME MarketInv, MarketInv', LimitsInv, AsksForInvoices, [Next]_vars
             PROVE  LimitsInv'
  OBVIOUS
<1>0. /\ TradesShaped /\ TradesShaped' /\ RequestsHonour /\ RequestsShaped
      /\ DOMAIN trade = Trades /\ day \in Days
  BY DEF MarketInv, Shaped, TradesShaped, LimitsInv
<1>1. ASSUME NEW r \in Requests, request[r].at = "rail"
      PROVE  /\ request[r].trade \in Trades
             /\ trade[request[r].trade].status = "preparing"
             /\ trade[request[r].trade].status \in Exposing
  BY <1>0, <1>1 DEF RequestsHonour, Armed, LimitsInv, RailsPrepare, Exposing
(* A request on its rail ends, and its trade is no other's.                 *)
<1>2. ASSUME NEW r \in Requests, request[r].at = "rail", Ends(r),
             NEW s \in Requests, request'[s].at = "rail"
      PROVE  request[s].trade # request[r].trade
  <2>1. s # r /\ request[s].at = "rail"
    BY <1>0, <1>2 DEF Ends, IdleRequest, RequestsShaped
  <2> QED
    BY <1>2, <2>1 DEF LimitsInv, RailsPrepare
(* A trade that awaits payment has left its rail.                           *)
<1>3. ASSUME NEW t \in Trades, trade[t].status = "awaiting_payment",
             \A s \in Requests : Follows(s), NEW s \in Requests, request'[s].at = "rail"
      PROVE  request[s].trade # t
  BY <1>3 DEF Follows, LimitsInv, RailsPrepare
<1>4. ASSUME NEW t \in Trades, trade[t].status = "awaiting_payment", Unwind(t),
             UNCHANGED day,
             \A s \in Requests : Follows(s)
      PROVE  LimitsInv'
  <2>1. Lighter
    BY <1>0, <1>4, GiveBackIsLighter DEF Unwind, Exposing
  <2>2. \A u \in Trades : u # t => trade'[u] = trade[u]
    BY <1>0, <1>4 DEF Unwind, GiveBack
  <2> QED
    BY <1>3, <1>4, <2>1, <2>2, MoveKeepsLimits
<1>5. ASSUME NEW r \in Requests, Serves(r) PROVE LimitsInv'
  <2>1. ASSUME NEW i \in Invoices, NEW q \in Quotes, SellerArms(r, i, q)
        PROVE  LimitsInv'
    BY <2>1, ArmKeepsLimits DEF SellerArms, book
  <2>2. CASE GateRefuses(r)
    <3>1. UNCHANGED <<capital, trade>> /\ day' \in Days /\ Ends(r)
      BY <1>0, <2>2 DEF GateRefuses, book
    <3> QED
      BY <3>1, FollowsAll, StayKeepsLimits
  <2>3. ASSUME NEW t \in Trades, Reserve(r, t) PROVE LimitsInv'
    BY <1>0, <2>3, ReserveKeepsLimits
  <2> DEFINE t == request[r].trade
  <2>4. CASE RailFails(r)
    <3>1. /\ request[r].at = "rail" /\ Ends(r) /\ UNCHANGED day
          /\ GiveBack(t, "failed") /\ t \in Trades /\ trade[t].status \in Exposing
      BY <1>1, <2>4 DEF RailFails
    <3>2. Lighter /\ \A u \in Trades : u # t => trade'[u] = trade[u]
      BY <1>0, <3>1, GiveBackIsLighter DEF GiveBack
    <3>3. \A s \in Requests : Follows(s)
      BY <3>1, FollowsAll
    <3> QED
      BY <1>2, <3>1, <3>2, <3>3, MoveKeepsLimits
  <2>5. CASE VaultSettles(r)
    <3>1. /\ request[r].at = "rail" /\ Ends(r) /\ UNCHANGED <<day, capital>>
          /\ t \in Trades /\ trade[t].status \in Exposing
          /\ trade' = [trade EXCEPT ![t] = [@ EXCEPT !.status = "settled", !.payer = None]]
      BY <1>1, <2>5 DEF VaultSettles, Settle
    <3>2. /\ \A u \in Trades : u # t => trade'[u] = trade[u]
          /\ trade'[t] = [trade[t] EXCEPT !.status = "settled", !.payer = None]
      BY <1>0, <3>1
    <3>3. Lighter
      BY <1>0, <3>1, <3>2, StatusIsLighter
    <3>4. \A s \in Requests : Follows(s)
      BY <3>1, FollowsAll
    <3> QED
      BY <1>2, <3>1, <3>2, <3>3, <3>4, MoveKeepsLimits
  <2>6. CASE Challenges(r)
    <3>1. /\ request[r].at = "rail" /\ Ends(r) /\ UNCHANGED <<day, capital>>
          /\ t \in Trades /\ trade[t].status \in Exposing
          /\ trade' = [trade EXCEPT ![t].status = "awaiting_payment"]
      BY <1>1, <2>6 DEF Challenges
    <3>2. /\ \A u \in Trades : u # t => trade'[u] = trade[u]
          /\ trade'[t] = [trade[t] EXCEPT !.status = "awaiting_payment"]
      BY <1>0, <3>1
    <3>3. Lighter
      BY <1>0, <3>1, <3>2, StatusIsLighter
    <3>4. \A s \in Requests : Follows(s)
      BY <3>1, FollowsAll
    <3> QED
      BY <1>2, <3>1, <3>2, <3>3, <3>4, MoveKeepsLimits
  <2> QED
    BY <1>5, <2>1, <2>2, <2>3, <2>4, <2>5, <2>6 DEF Serves
<1>6. ASSUME NEW t \in Trades, Reclaim(t) PROVE LimitsInv'
  BY <1>4, <1>6, FollowsAll DEF Reclaim
<1>7. ASSUME NEW a \in Agents, Ticks(a) PROVE LimitsInv'
  <2>1. ASSUME NEW r \in Requests, AgentArms(a, r) PROVE LimitsInv'
    <3>1. agent[a].invoice \in Invoices
      BY <2>1 DEF AgentArms, AsksForInvoices
    <3> QED
      BY <2>1, <3>1, ArmKeepsLimits DEF AgentArms, book
  <2>2. ASSUME NEW t \in Trades, AgentPays(a, t) PROVE LimitsInv'
    <3>1. /\ trade[t].status = "awaiting_payment" /\ UNCHANGED <<day, capital, request>>
          /\ trade' = [trade EXCEPT ![t] = [@ EXCEPT !.status = "settled", !.payer = a]]
      BY <2>2 DEF AgentPays, Payment, Settle
    <3>2. /\ \A u \in Trades : u # t => trade'[u] = trade[u]
          /\ trade'[t] = [trade[t] EXCEPT !.status = "settled", !.payer = a]
      BY <1>0, <3>1
    <3>3. Lighter
      BY <1>0, <3>1, <3>2, StatusIsLighter DEF Exposing
    <3>4. \A s \in Requests : Follows(s)
      BY <3>1, FollowsAll
    <3> QED
      BY <1>3, <3>1, <3>2, <3>3, <3>4, MoveKeepsLimits
  <2>3. ASSUME NEW t \in Trades, PaymentDeclined(a, t) PROVE LimitsInv'
    BY <1>4, <2>3, FollowsAll DEF PaymentDeclined, Payment
  <2>4. ASSUME ReadMandates(a) \/ ReadBook(a) \/ EndTick(a)
               \/ (\E i \in Invoices : Pass(a, i) \/ Take(a, i))
               \/ (\E q \in Quotes : QuoteAgrees(a, q)) \/ QuoteDiffers(a)
               \/ ArmRefused(a) \/ GivesUp(a) \/ DoesNotPay(a)
        PROVE  LimitsInv'
    <3>1. UNCHANGED <<day, capital, trade>>
      BY <2>4 DEF ReadMandates, ReadBook, EndTick, Pass, Take, QuoteAgrees, QuoteDiffers,
                  ArmRefused, GivesUp, DoesNotPay, book
    <3>2. \/ UNCHANGED request
          \/ request' = [r \in Requests |->
                  IF request[r] # IdleRequest /\ request[r].from = a
                  THEN [request[r] EXCEPT !.from = Browser] ELSE request[r]]
      BY <2>4 DEF ReadMandates, ReadBook, EndTick, Pass, Take, QuoteAgrees, QuoteDiffers,
                  ArmRefused, GivesUp, DoesNotPay
    <3> QED
      BY <1>0, <3>1, <3>2, FollowsAll, StayKeepsLimits
  <2> QED
    BY <1>7, <2>1, <2>2, <2>3, <2>4 DEF Ticks
<1>8. ASSUME NEW a \in Agents, TickFails(a) PROVE LimitsInv'
  <2>1. UNCHANGED <<capital, trade>> /\ day' \in Days
    BY <1>0, <1>8 DEF TickFails, book
  <2>2. \A s \in Requests : Follows(s)
    BY <1>8, FollowsAll DEF TickFails
  <2> QED
    BY <2>1, <2>2, StayKeepsLimits
<1>9. ASSUME (\E i \in Invoices : List(i) \/ Look(i)) \/ NextDay \/ UNCHANGED vars
      PROVE  LimitsInv'
  <2>1. UNCHANGED <<capital, trade, request>>
    BY <1>9 DEF List, Look, NextDay, vars
  <2>2. CASE NextDay
    <3>1. {d \in Days : d > day} \in SUBSET Days /\ {d \in Days : d > day} # {}
      BY <2>2 DEF NextDay
    <3>2. day' \in Days
      BY <2>2, <3>1, FirstDay DEF NextDay
    <3> QED
      BY <2>1, <3>2, FollowsAll, StayKeepsLimits
  <2>3. CASE ~NextDay
    BY <1>0, <1>9, <2>1, <2>3, FollowsAll, StayKeepsLimits DEF List, Look, vars
  <2> QED
    BY <2>2, <2>3
<1> QED
  BY <1>5, <1>6, <1>7, <1>8, <1>9 DEF Next

-----------------------------------------------------------------------------
(* What a tick takes.                                                       *)

Within(a, read, took) ==
    /\ read \in [Mine(a) -> Bid] /\ took \in [Mine(a) -> Taken]
    /\ \A m \in Mine(a) :
         /\ took[m].allocated > 0 =>
                read[m].allocated + took[m].allocated <= read[m].committed
         /\ \A d \in Debtors :
              /\ took[m].exposure[d] <= took[m].allocated
              /\ took[m].exposure[d] > 0 =>
                     read[m].exposure[d] + took[m].exposure[d] <= DebtorCap[m]

TicksWithin ==
    \A a \in Agents : agent[a].at # "idle" =>
        agent[a].day \in Days /\ Within(a, agent[a].read, agent[a].took)

(* The least and the most of what a set's members measure.                  *)
LEMMA LeastOf ==
    ASSUME NEW S, S # {}, NEW f, \A x \in S : f[x] \in Nat
    PROVE  \E x \in S : \A y \in S : f[x] <= f[y]
<1> DEFINE V == {f[x] : x \in S}
<1>1. V \in SUBSET Nat /\ V # {}
  OBVIOUS
<1>2. Min(V) \in V /\ \A v \in V : Min(V) <= v
  BY <1>1, Least
<1> QED
  BY <1>2

LEMMA MostOf ==
    ASSUME NEW S, S # {}, IsFiniteSet(S), NEW f, \A x \in S : f[x] \in Nat
    PROVE  \E x \in S : \A y \in S : f[y] <= f[x]
<1> DEFINE top == Total(f, S)
           g == [x \in S |-> top - f[x]]
<1>1. ASSUME NEW x \in S PROVE top \in Nat /\ f[x] <= top
  <2>1. top = f[x] + Total(f, S \ {x})
    BY TotalRemove
  <2>2. Total(f, S \ {x}) \in Nat
    BY FS_RemoveElement, TotalNat
  <2> QED
    BY <2>1, <2>2
<1> HIDE DEF top
<1>2. \A x \in S : g[x] \in Nat
  BY <1>1
<1>3. PICK x \in S : \A y \in S : g[x] <= g[y]
  <2> HIDE DEF g
  <2> QED
    BY <1>2, LeastOf
<1> QED
  BY <1>1, <1>3

LEMMA CurrentTyped ==
    ASSUME NEW a \in Agents, NEW m \in Mine(a), Within(a, agent[a].read, agent[a].took)
    PROVE  /\ Current(a, m).status = agent[a].read[m].status
           /\ Current(a, m).committed = agent[a].read[m].committed
           /\ Current(a, m).allocated = agent[a].read[m].allocated + agent[a].took[m].allocated
           /\ \A d \in Debtors : Current(a, m).exposure[d] =
                  agent[a].read[m].exposure[d] + agent[a].took[m].exposure[d]
           /\ Unallocated(Current(a, m)) \in Nat
<1> DEFINE bid == agent[a].read[m]
           tk == agent[a].took[m]
<1>1. bid \in Bid /\ tk \in Taken
  BY DEF Within
<1>2. /\ bid.committed \in Nat /\ bid.allocated \in Nat /\ bid.exposure \in [Debtors -> Nat]
      /\ tk.allocated \in Nat /\ tk.exposure \in [Debtors -> Nat]
  BY <1>1 DEF Bid, Taken
<1>3. Current(a, m) = [bid EXCEPT !.allocated = bid.allocated + tk.allocated,
                         !.exposure = [d \in Debtors |-> bid.exposure[d] + tk.exposure[d]]]
  BY DEF Current
<1> HIDE DEF bid, tk
<1>4. /\ Current(a, m).status = bid.status
      /\ Current(a, m).committed = bid.committed
      /\ Current(a, m).allocated = bid.allocated + tk.allocated
      /\ \A d \in Debtors : Current(a, m).exposure[d] = bid.exposure[d] + tk.exposure[d]
  BY <1>1, <1>3 DEF Bid
<1>5. Unallocated(Current(a, m)) \in Nat
  BY <1>2, <1>4 DEF Unallocated, AtLeast0
<1> QED
  BY <1>4, <1>5 DEF bid, tk

(* The pick is one of those that take the row, and preferred to the others. *)
LEMMA PickIsBest ==
    ASSUME NEW a \in Agents, NEW i, Within(a, agent[a].read, agent[a].took), Accepts(a, i) # {}
    PROVE  /\ PickBest(a, i) \in Accepts(a, i)
           /\ \A n \in Accepts(a, i) : Prefers(a, PickBest(a, i), n)
<1> DEFINE S == Accepts(a, i)
           depth == [m \in Mine(a) |-> Unallocated(Current(a, m))]
<1>1. S \subseteq Mine(a) /\ Mine(a) \subseteq Mandates /\ Mandates \subseteq Nat
      /\ IsFiniteSet(Mandates) /\ \A m \in Mandates : Yield[m] \in Nat
  BY MarketAssumption DEF Accepts, Mine
<1>2. \A m \in S : depth[m] = Unallocated(Current(a, m)) /\ depth[m] \in Nat
  BY <1>1, CurrentTyped
<1> HIDE DEF S, depth
<1>3. PICK l \in S : \A m \in S : Yield[l] <= Yield[m]
  <2>1. S # {} /\ \A m \in S : Yield[m] \in Nat
    BY <1>1 DEF S
  <2> QED
    BY <2>1, LeastOf
<1> DEFINE T == {m \in S : Yield[m] = Yield[l]}
<1>4. PICK k \in T : \A m \in T : depth[m] <= depth[k]
  <2>1. T # {} /\ IsFiniteSet(T) /\ \A m \in T : depth[m] \in Nat
    BY <1>1, <1>2, FS_Subset
  <2> QED
    BY <2>1, MostOf
<1> DEFINE U == {m \in T : depth[m] = depth[k]}
<1>5. PICK b \in U : \A m \in U : b <= m
  <2>1. U \in SUBSET Nat /\ U # {}
    BY <1>1
  <2> QED
    BY <2>1, Least
<1>6. ASSUME NEW n \in S
      PROVE  \/ Yield[b] < Yield[n]
             \/ Yield[b] = Yield[n] /\ depth[b] > depth[n]
             \/ Yield[b] = Yield[n] /\ depth[b] = depth[n] /\ b <= n
  <2>1. Yield[b] = Yield[l] /\ depth[b] = depth[k] /\ Yield[l] \in Nat /\ Yield[n] \in Nat
        /\ depth[k] \in Nat /\ depth[n] \in Nat
    BY <1>1, <1>2
  <2>2. CASE Yield[n] # Yield[l]
    BY <1>3, <2>1, <2>2
  <2>3. CASE Yield[n] = Yield[l] /\ depth[n] # depth[k]
    BY <1>4, <2>1, <2>3
  <2>4. CASE Yield[n] = Yield[l] /\ depth[n] = depth[k]
    BY <1>5, <2>1, <2>4
  <2> QED
    BY <2>2, <2>3, <2>4
<1>7. b \in Accepts(a, i) /\ \A n \in Accepts(a, i) : Prefers(a, b, n)
  BY <1>2, <1>6 DEF Prefers, S
<1> QED
  BY <1>7 DEF PickBest

TicksInv == TicksWithin /\ AsksForInvoices

TickFits(a) == agent'[a].at # "idle" =>
    /\ agent'[a].day \in Days
    /\ Within(a, agent'[a].read, agent'[a].took)
    /\ agent'[a].at \in {"quote", "arm"} => agent'[a].invoice \in Invoices

LEMMA TicksFit == ASSUME \A a \in Agents : TickFits(a) PROVE TicksInv'
<1>1. TicksWithin'
  BY DEF TicksWithin, TickFits, Within, Mine
<1>2. AsksForInvoices'
  BY DEF AsksForInvoices, TickFits
<1> QED
  BY <1>1, <1>2 DEF TicksInv

LEMMA TickStays ==
    ASSUME TicksInv, NEW a \in Agents, agent'[a] = agent[a] PROVE TickFits(a)
BY DEF TicksInv, TicksWithin, AsksForInvoices, TickFits

LEMMA OneTick ==
    ASSUME MarketInv, TicksInv, NEW a \in Agents, NEW v,
           agent' = [agent EXCEPT ![a] = v], TickFits(a)
    PROVE  TicksInv'
<1>1. \A b \in Agents : b # a => agent'[b] = agent[b]
  BY DEF MarketInv, Shaped, AgentsShaped
<1> QED
  BY <1>1, TickStays, TicksFit

LEMMA TicksUnchanged == ASSUME TicksInv, UNCHANGED agent PROVE TicksInv'
BY TickStays, TicksFit

(* A tick that goes on with what it read and took.                          *)
LEMMA TickGoesOn ==
    ASSUME MarketInv, TicksInv, NEW a \in Agents, agent[a].at # "idle", NEW v,
           agent' = [agent EXCEPT ![a] = v], v.day \in Days,
           v.read = agent[a].read, v.took = agent[a].took,
           v.at \in {"quote", "arm"} => v.invoice \in Invoices
    PROVE  TicksInv'
<1>1. agent'[a] = v
  BY DEF MarketInv, Shaped, AgentsShaped
<1>2. TickFits(a)
  BY <1>1 DEF TicksInv, TicksWithin, TickFits
<1> QED
  BY <1>2, OneTick

LEMMA TicksNextRow ==
    ASSUME MarketInv, TicksInv, NEW a \in Agents, agent[a].at # "idle", NextRow(a)
    PROVE  TicksInv'
<1> DEFINE v == [agent[a] EXCEPT !.at = "choose", !.invoice = None,
                                 !.offer = NoOffer, !.quote = 0]
<1>1. DOMAIN agent[a] = TickFields /\ agent[a].day \in Days
  BY DEF MarketInv, Shaped, AgentsShaped, TicksInv, TicksWithin
<1>2. agent' = [agent EXCEPT ![a] = v]
  BY DEF NextRow
<1>3. v.at = "choose" /\ v.day = agent[a].day /\ v.read = agent[a].read /\ v.took = agent[a].took
  BY <1>1 DEF TickFields
<1> HIDE DEF v
<1> QED
  BY <1>1, <1>2, <1>3, TickGoesOn

LEMMA TickIdles ==
    ASSUME MarketInv, TicksInv, NEW a \in Agents, agent' = [agent EXCEPT ![a] = IdleAgent]
    PROVE  TicksInv'
<1>1. agent'[a] = IdleAgent
  BY DEF MarketInv, Shaped, AgentsShaped
<1>2. TickFits(a)
  BY <1>1 DEF TickFits, IdleAgent
<1> QED
  BY <1>2, OneTick

LEMMA TicksAnswered ==
    ASSUME MarketInv, TicksInv, NEW r \in Requests, request[r].at # "idle",
           NEW at \in {"choose", "pay"}, Answered(r, at)
    PROVE  TicksInv'
<1> DEFINE a == request[r].from
<1>1. CASE a \notin Agents
  BY <1>1, TicksUnchanged DEF Answered
<1>2. CASE a \in Agents
  <2>1. agent[a].at = "answer"
    BY <1>2 DEF MarketInv, Waiting, Asks
  <2>2. DOMAIN agent[a] = TickFields /\ agent[a].day \in Days /\ DOMAIN agent = Agents
    BY <1>2, <2>1 DEF MarketInv, Shaped, AgentsShaped, TicksInv, TicksWithin
  <2>3. CASE at = "pay"
    <3> DEFINE v == [agent[a] EXCEPT !.at = "pay"]
    <3>1. agent' = [agent EXCEPT ![a].at = "pay"]
      BY <1>2, <2>3 DEF Answered
    <3>2. agent' = [agent EXCEPT ![a] = v]
      BY <3>1
    <3>3. v.at = "pay" /\ v.day = agent[a].day /\ v.read = agent[a].read /\ v.took = agent[a].took
      BY <2>2 DEF TickFields
    <3> HIDE DEF v
    <3>4. agent[a].at # "idle"
      BY <2>1
    <3> HIDE DEF a
    <3> QED
      BY <1>2, <2>2, <3>2, <3>3, <3>4, TickGoesOn
  <2>4. CASE at = "choose"
    BY <1>2, <2>1, <2>4, TicksNextRow DEF Answered
  <2> QED
    BY <2>3, <2>4
<1> QED
  BY <1>1, <1>2

(* The agent's screens leave room for what they take.                       *)
LEMMA TakesWithin ==
    ASSUME NEW a \in Agents, NEW i \in Invoices, agent[a].day \in Days,
           Within(a, agent[a].read, agent[a].took),
           NEW m \in Accepts(a, i), NEW n, n = Proceeds(i, m, RowTenor(a, i)),
           NEW took, took = [agent[a].took EXCEPT
                                 ![m] = Plus(agent[a].took[m], DebtorOf[i], n)]
    PROVE  Within(a, agent[a].read, took)
<1> DEFINE bid == agent[a].read[m]
           tk == agent[a].took[m]
           d == DebtorOf[i]
<1>1. m \in Mine(a) /\ m \in Mandates /\ d \in Debtors /\ DebtorCap[m] \in Nat
  BY MarketAssumption DEF Accepts, Mine
<1>2. n \in Nat
  BY <1>1, TenorNat, ProceedsNat DEF RowTenor
<1>3. bid \in Bid /\ tk \in Taken
  BY <1>1 DEF Within
<1>4. /\ bid.committed \in Nat /\ bid.allocated \in Nat /\ bid.exposure \in [Debtors -> Nat]
      /\ tk.allocated \in Nat /\ tk.exposure \in [Debtors -> Nat]
  BY <1>3 DEF Bid, Taken
<1>5. /\ Unallocated(Current(a, m)) >= n /\ Room(m, Current(a, m), d) >= n
  BY DEF Accepts, Decides
<1>6. /\ Current(a, m).committed = bid.committed
      /\ Current(a, m).allocated = bid.allocated + tk.allocated
      /\ Current(a, m).exposure[d] = bid.exposure[d] + tk.exposure[d]
  BY <1>1, CurrentTyped
<1>7. /\ AtLeast0(bid.committed - (bid.allocated + tk.allocated)) >= n
      /\ AtLeast0(DebtorCap[m] - (bid.exposure[d] + tk.exposure[d])) >= n
  BY <1>5, <1>6 DEF Unallocated, Room
<1> DEFINE new == Plus(tk, d, n)
<1>8. /\ new \in Taken /\ new.allocated = tk.allocated + n
      /\ new.exposure[d] = tk.exposure[d] + n
      /\ \A x \in Debtors : x # d => new.exposure[x] = tk.exposure[x]
  BY <1>1, <1>2, <1>4 DEF Plus, Taken
<1>9. /\ took \in [Mine(a) -> Taken] /\ took[m] = new
      /\ \A k \in Mine(a) : k # m => took[k] = agent[a].took[k]
  <2> HIDE DEF new
  <2> QED
    BY <1>1, <1>8 DEF Within, new
<1>10. /\ tk.allocated > 0 => bid.allocated + tk.allocated <= bid.committed
       /\ \A x \in Debtors :
              /\ tk.exposure[x] <= tk.allocated
              /\ tk.exposure[x] > 0 => bid.exposure[x] + tk.exposure[x] <= DebtorCap[m]
  BY <1>1 DEF Within
<1> HIDE DEF new, bid, tk, d
<1>11. new.allocated > 0 => bid.allocated + new.allocated <= bid.committed
  BY <1>2, <1>4, <1>7, <1>8, <1>10 DEF AtLeast0
<1>12. ASSUME NEW x \in Debtors
       PROVE  /\ new.exposure[x] <= new.allocated
              /\ new.exposure[x] > 0 => bid.exposure[x] + new.exposure[x] <= DebtorCap[m]
  <2>1. bid.exposure[x] \in Nat /\ tk.exposure[x] \in Nat
    BY <1>4
  <2>2. CASE x = d
    BY <1>1, <1>2, <1>4, <1>7, <1>8, <1>10, <2>1, <2>2 DEF AtLeast0
  <2>3. CASE x # d
    BY <1>1, <1>2, <1>4, <1>8, <1>10, <2>1, <2>3
  <2> QED
    BY <2>2, <2>3
<1> QED
  BY <1>9, <1>11, <1>12 DEF Within, bid

LEMMA TicksTake ==
    ASSUME MarketInv, TicksInv, NEW a \in Agents, NEW i \in Invoices, Take(a, i)
    PROVE  TicksInv'
<1> DEFINE m == PickBest(a, i)
           n == Proceeds(i, m, RowTenor(a, i))
           done == RowDone(agent[a], i)
           after == [done EXCEPT !.took[m] = Plus(@, DebtorOf[i], n)]
           took == [agent[a].took EXCEPT ![m] = Plus(agent[a].took[m], DebtorOf[i], n)]
<1>1. /\ agent[a].at = "choose" /\ DOMAIN agent[a] = TickFields /\ DOMAIN agent = Agents
      /\ agent[a].day \in Days /\ Within(a, agent[a].read, agent[a].took)
      /\ Accepts(a, i) # {}
  BY DEF Take, MarketInv, Shaped, AgentsShaped, TicksInv, TicksWithin
<1>2. m \in Accepts(a, i)
  BY <1>1, PickIsBest
<1>3. Within(a, agent[a].read, took)
  BY <1>1, <1>2, TakesWithin
<1>4. agent' = [agent EXCEPT ![a] =
                  IF i \notin agent[a].offered THEN after
                  ELSE [after EXCEPT !.at = "quote", !.invoice = i,
                                     !.offer = [mandate |-> m, proceeds |-> n]]]
  BY DEF Take
<1>5. /\ DOMAIN done = TickFields /\ done.at = "choose" /\ done.day = agent[a].day
      /\ done.read = agent[a].read /\ done.took = agent[a].took
  BY <1>1 DEF RowDone, TickFields
<1> HIDE DEF done, m, n
<1>6. /\ DOMAIN after = TickFields /\ after.at = "choose" /\ after.day = agent[a].day
      /\ after.read = agent[a].read /\ after.took = took
  BY <1>5 DEF TickFields
<1> HIDE DEF after, took
<1>7. PICK v : /\ agent' = [agent EXCEPT ![a] = v]
               /\ v.day = agent[a].day /\ v.read = agent[a].read /\ v.took = took
               /\ v.at = "quote" => v.invoice = i
               /\ v.at \in {"choose", "quote"}
  <2>1. CASE i \notin agent[a].offered
    BY <1>4, <1>6, <2>1
  <2>2. CASE i \in agent[a].offered
    <3> DEFINE v == [after EXCEPT !.at = "quote", !.invoice = i,
                                  !.offer = [mandate |-> m, proceeds |-> n]]
    <3>1. /\ v.day = agent[a].day /\ v.read = agent[a].read /\ v.took = took
          /\ v.at = "quote" /\ v.invoice = i
      BY <1>6 DEF TickFields
    <3>2. agent' = [agent EXCEPT ![a] = v]
      BY <1>4, <2>2
    <3> HIDE DEF v
    <3> QED
      BY <3>1, <3>2
  <2> QED
    BY <2>1, <2>2
<1>8. agent'[a] = v
  BY <1>1, <1>7
<1>9. TickFits(a)
  BY <1>1, <1>3, <1>7, <1>8 DEF TickFits
<1> QED
  BY <1>7, <1>9, OneTick

LEMMA NextTicks == MarketInv /\ LimitsInv /\ TicksInv /\ [Next]_vars => TicksInv'
<1> SUFFICES ASSUME MarketInv, LimitsInv, TicksInv, [Next]_vars PROVE TicksInv'
  OBVIOUS
<1>0. /\ AgentsShaped /\ TradesShaped /\ TradesTyped /\ CapitalTyped /\ day \in Days
  BY DEF MarketInv, Shaped, LimitsInv
<1>1. UNCHANGED agent => TicksInv'
  BY TicksUnchanged
<1>2. ASSUME NEW r \in Requests, Serves(r) PROVE TicksInv'
  <2>1. ASSUME GateRefuses(r) \/ RailFails(r) \/ VaultSettles(r) \/ Challenges(r)
        PROVE  TicksInv'
    BY <2>1, TicksAnswered DEF GateRefuses, RailFails, VaultSettles, Challenges
  <2>2. ASSUME (\E i \in Invoices, q \in Quotes : SellerArms(r, i, q))
               \/ \E t \in Trades : Reserve(r, t)
        PROVE  TicksInv'
    BY <1>1, <2>2 DEF SellerArms, Reserve
  <2> QED
    BY <1>2, <2>1, <2>2 DEF Serves
<1>3. ASSUME NEW a \in Agents, Ticks(a) PROVE TicksInv'
  <2>0. /\ DOMAIN agent = Agents /\ (agent[a].at # "idle" => DOMAIN agent[a] = TickFields)
        /\ (agent[a].at # "idle" => agent[a].day \in Days)
    BY <1>0 DEF AgentsShaped, TicksInv, TicksWithin
  <2>1. CASE ReadMandates(a)
    <3> DEFINE read == [m \in Mine(a) |-> BidOf(m)]
               took == [m \in Mine(a) |-> Nothing]
    <3>1. PICK payable : agent' = [agent EXCEPT ![a] =
             [at |-> "book", read |-> read, payable |-> payable,
              rows |-> {}, offered |-> {}, day |-> day,
              took |-> took, invoice |-> None,
              offer |-> NoOffer, quote |-> 0]]
      BY <2>1 DEF ReadMandates
    <3>2. read \in [Mine(a) -> Bid]
      BY <1>0, BidTyped DEF Mine
    <3>3. Nothing \in Taken /\ Nothing.allocated = 0 /\ \A d \in Debtors : Nothing.exposure[d] = 0
      BY DEF Nothing, Taken
    <3>4. Within(a, read, took)
      <4>1. took \in [Mine(a) -> Taken] /\ \A m \in Mine(a) : took[m] = Nothing
        BY <3>3
      <4> HIDE DEF read, took
      <4> QED
        BY <3>2, <3>3, <4>1 DEF Within
    <3> HIDE DEF read, took
    <3>5. /\ agent'[a].at = "book" /\ agent'[a].day = day
          /\ agent'[a].read = read /\ agent'[a].took = took
      BY <2>0, <3>1
    <3>6. TickFits(a)
      BY <1>0, <3>4, <3>5 DEF TickFits
    <3> QED
      BY <3>1, <3>6, OneTick
  <2>2. CASE ReadBook(a)
    <3> DEFINE v == [agent[a] EXCEPT !.at = "choose", !.day = day,
                    !.rows = {i \in Invoices : status[i] # "sold"},
                    !.offered = {i \in Invoices : status[i] = "listed"}]
    <3>1. agent' = [agent EXCEPT ![a] = v] /\ agent[a].at # "idle"
      BY <2>2 DEF ReadBook
    <3>2. /\ v.at = "choose" /\ v.day = day /\ v.read = agent[a].read
          /\ v.took = agent[a].took
      BY <2>0, <3>1 DEF TickFields
    <3> HIDE DEF v
    <3> QED
      BY <1>0, <3>1, <3>2, TickGoesOn
  <2>3. CASE EndTick(a)
    BY <2>3, TickIdles DEF EndTick
  <2>4. ASSUME NEW i \in Invoices, Pass(a, i) PROVE TicksInv'
    <3> DEFINE v == RowDone(agent[a], i)
    <3>1. agent' = [agent EXCEPT ![a] = v] /\ agent[a].at = "choose"
      BY <2>4 DEF Pass
    <3>2. /\ v.at = "choose" /\ v.day = agent[a].day /\ v.read = agent[a].read
          /\ v.took = agent[a].took
      BY <2>0, <3>1 DEF RowDone, TickFields
    <3> HIDE DEF v
    <3> QED
      BY <2>0, <3>1, <3>2, TickGoesOn
  <2>5. ASSUME NEW i \in Invoices, Take(a, i) PROVE TicksInv'
    BY <2>5, TicksTake
  <2>6. ASSUME NEW q \in Quotes, QuoteAgrees(a, q) PROVE TicksInv'
    <3> DEFINE v == [agent[a] EXCEPT !.at = "arm", !.quote = q]
    <3>1. agent' = [agent EXCEPT ![a] = v] /\ agent[a].at = "quote"
      BY <2>6 DEF QuoteAgrees
    <3>2. /\ v.day = agent[a].day /\ v.read = agent[a].read
          /\ v.took = agent[a].took /\ v.invoice = agent[a].invoice
      BY <2>0, <3>1 DEF TickFields
    <3>3. agent[a].invoice \in Invoices
      BY <3>1 DEF TicksInv, AsksForInvoices
    <3> HIDE DEF v
    <3> QED
      BY <2>0, <3>1, <3>2, <3>3, TickGoesOn
  <2>7. ASSUME NEW r \in Requests, AgentArms(a, r) PROVE TicksInv'
    <3> DEFINE v == [agent[a] EXCEPT !.at = "answer"]
    <3>1. agent' = [agent EXCEPT ![a].at = "answer"] /\ agent[a].at = "arm"
      BY <2>7 DEF AgentArms
    <3>2. agent' = [agent EXCEPT ![a] = v]
      BY <3>1
    <3>3. /\ v.at = "answer" /\ v.day = agent[a].day /\ v.read = agent[a].read
          /\ v.took = agent[a].took
      BY <2>0, <3>1 DEF TickFields
    <3> HIDE DEF v
    <3> QED
      BY <2>0, <3>1, <3>2, <3>3, TickGoesOn
  <2>8. ASSUME QuoteDiffers(a) \/ ArmRefused(a) \/ GivesUp(a) \/ DoesNotPay(a)
               \/ \E t \in Trades : AgentPays(a, t) \/ PaymentDeclined(a, t)
        PROVE  TicksInv'
    BY <2>8, TicksNextRow
    DEF QuoteDiffers, ArmRefused, GivesUp, DoesNotPay, AgentPays, PaymentDeclined, Payment
  <2> QED
    BY <1>3, <2>1, <2>2, <2>3, <2>4, <2>5, <2>6, <2>7, <2>8 DEF Ticks
<1>4. ASSUME NEW a \in Agents, TickFails(a) PROVE TicksInv'
  BY <1>4, TickIdles DEF TickFails
<1>5. ASSUME (\E i \in Invoices : List(i) \/ Look(i)) \/ NextDay
             \/ (\E t \in Trades : Reclaim(t)) \/ UNCHANGED vars
      PROVE  TicksInv'
  BY <1>1, <1>5 DEF List, Look, NextDay, Reclaim, vars
<1> QED
  BY <1>2, <1>3, <1>4, <1>5 DEF Next

-----------------------------------------------------------------------------
(* What follows.                                                            *)

LEMMA LedgerInit == Init => LimitsInv /\ TicksInv
<1> SUFFICES ASSUME Init PROVE LimitsInv /\ TicksInv
  OBVIOUS
<1>1. TicksInv
  BY DEF Init, TicksInv, TicksWithin, AsksForInvoices, IdleAgent
<1>2. day \in Days
  <2>1. Days \in SUBSET Days /\ Days # {}
    BY MarketAssumption
  <2> QED
    BY <2>1, FirstDay DEF Init
<1>3. CapitalTyped
  BY MarketAssumption DEF Init, CapitalTyped, Row
<1>4. /\ \A t \in Trades : trade[t] = NoTrade /\ trade[t].status = "absent"
      /\ \A r \in Requests : request[r].at = "idle"
  BY DEF Init, NoTrade, IdleRequest
<1>5. TradesTyped /\ RequestsTyped /\ RailsPrepare /\ GateFits
  BY <1>4 DEF TradesTyped, RequestsTyped, RailsPrepare, GateFits
<1>6. LimitsKept
  <2>1. ASSUME NEW m \in Mandates PROVE WithinLimits(m)
    <3>1. capital[m].allocated = 0 /\ Limit[m] \in Nat /\ DebtorCap[m] \in Nat
      BY MarketAssumption DEF Init
    <3>2. ASSUME NEW d \in Debtors PROVE Exposure(m, d) = 0
      <4>1. Exposers(m, d) = {}
        BY <1>4 DEF Exposers, Exposes, Exposing
      <4> QED
        BY <4>1, ExposureIsTotal, TotalEmpty
    <3> QED
      BY <3>1, <3>2 DEF WithinLimits
  <2> QED
    BY <2>1 DEF LimitsKept
<1> QED
  BY <1>1, <1>2, <1>3, <1>5, <1>6 DEF LimitsInv

LEMMA LedgerAlways == Spec => [](MarketInv /\ LimitsInv /\ TicksInv)
<1>1. MarketInv /\ MarketInv' /\ LimitsInv /\ TicksInv /\ [Next]_vars => (LimitsInv /\ TicksInv)'
  BY NextLimits, NextTicks DEF TicksInv
<1> QED
  BY <1>1, LedgerInit, MarketInvAlways, PTL DEF Spec

(* A mandate is allocated beyond its limit, or exposed to a debtor beyond   *)
(* its cap, only by a trade that was priced before another was reserved on  *)
(* the same mandate and reserved after it.                                  *)
THEOREM OnlyRacesBreakLimits == Spec => []LimitsBrokenOnlyByRaces
<1>1. LimitsInv /\ MarketInv => LimitsBrokenOnlyByRaces
  <2> SUFFICES ASSUME LimitsInv, MarketInv, NEW m \in Mandates
               PROVE  \/ /\ capital[m].allocated <= Limit[m]
                         /\ \A d \in Debtors : Against(m, d, Exposing) <= DebtorCap[m]
                      \/ \E t \in Trades : /\ trade[t] # NoTrade /\ trade[t].mandate = m
                                           /\ trade[t].raced
    BY DEF LimitsBrokenOnlyByRaces
  <2>1. CASE WithinLimits(m)
    BY <2>1 DEF WithinLimits, Exposure
  <2>2. CASE Raced(m)
    BY <2>2 DEF Raced, NoTrade
  <2> QED
    BY <2>1, <2>2 DEF LimitsInv, LimitsKept
<1> QED
  BY <1>1, LedgerAlways, PTL

(* However many rows a tick takes, on figures read once, they stay within   *)
(* what its mandates had left when they were read.                          *)
THEOREM TicksStayWithin == Spec => []TickWithinMandates
<1>1. TicksInv /\ MarketInv => TickWithinMandates
  <2> SUFFICES ASSUME TicksInv, MarketInv, NEW a \in Agents, agent[a] # IdleAgent,
                      NEW m \in Mine(a), agent[a].took[m] # Nothing
               PROVE  /\ agent[a].read[m].allocated + agent[a].took[m].allocated
                             <= agent[a].read[m].committed
                      /\ \A d \in Debtors : agent[a].took[m].exposure[d] > 0 =>
                             agent[a].read[m].exposure[d] + agent[a].took[m].exposure[d]
                                 <= DebtorCap[m]
    BY DEF TickWithinMandates
  <2>1. Within(a, agent[a].read, agent[a].took)
    BY DEF MarketInv, Shaped, AgentsShaped, TicksInv, TicksWithin
  <2>2. agent[a].took[m].allocated > 0
    <3>1. agent[a].took[m] \in Taken
      BY <2>1 DEF Within
    <3>2. PICK x \in Nat, e \in [Debtors -> Nat] :
              agent[a].took[m] = [allocated |-> x, exposure |-> e]
      BY <3>1 DEF Taken
    <3>3. ASSUME x = 0 PROVE FALSE
      <4>1. \A d \in Debtors : e[d] <= x
        BY <2>1, <3>2 DEF Within
      <4>2. \A d \in Debtors : e[d] = 0
        BY <3>3, <4>1
      <4>3. e = [d \in Debtors |-> 0]
        BY <4>2
      <4> QED
        BY <3>2, <3>3, <4>3 DEF Nothing
    <3> QED
      BY <3>2, <3>3
  <2> QED
    BY <2>1, <2>2 DEF Within
<1> QED
  BY <1>1, LedgerAlways, PTL

(* The agent's screens are the venue's, for any mandates, and where both    *)
(* see the same figures they choose one bid, unless the agent's has the     *)
(* same yield and depth and less room for the debtor.                       *)
THEOREM AgentRanksAsTheVenue == Spec => []PartsOnlyByRoom
<1>1. MarketInv /\ LimitsInv /\ TicksInv => PartsOnlyByRoom
  <2> DEFINE bids(a) == [m \in Mine(a) |-> BidOf(m)]
             mine(a, i) == Matches(i, bids(a), Tenor(i))
             cand(m, i) == Candidate(i, m, BidOf(m), Tenor(i))
  <2> SUFFICES ASSUME MarketInv, LimitsInv, TicksInv, NEW a \in Agents,
                      agent[a].at \in {"book", "choose"}, agent[a].day = day,
                      NEW i \in Invoices, \A m \in Mine(a) : Current(a, m) = BidOf(m)
               PROVE  /\ Accepts(a, i) = {c.mandate : c \in mine(a, i)}
                      /\ \A best \in BestQuote(mine(a, i)) :
                             \/ PickBest(a, i) = best.mandate
                             \/ PartByRoom(i, PickBest(a, i), best)
    BY DEF PartsOnlyByRoom
  <2>1. /\ Within(a, agent[a].read, agent[a].took)
        /\ TradesShaped /\ TradesTyped /\ CapitalTyped /\ day \in Days
    BY DEF MarketInv, Shaped, LimitsInv, TicksInv, TicksWithin
  <2>2. RowTenor(a, i) = Tenor(i)
    BY DEF RowTenor, Tenor
  <2>3. /\ DOMAIN bids(a) = Mine(a)
        /\ \A m \in Mine(a) : bids(a)[m] = BidOf(m)
    OBVIOUS
  <2> HIDE DEF bids
  <2>4. \A c : c \in mine(a, i) <=>
            \E m \in Mine(a) : /\ Screened(i, m, BidOf(m), Tenor(i))
                               /\ c = cand(m, i) /\ Fits(c)
    BY <2>3 DEF Matches
  <2> HIDE DEF mine
  <2>5. ASSUME NEW m \in Mine(a)
        PROVE  /\ cand(m, i).mandate = m /\ cand(m, i).yield = Yield[m]
               /\ cand(m, i).depth = Unallocated(BidOf(m))
               /\ cand(m, i).room = Room(m, BidOf(m), DebtorOf[i])
               /\ Screened(i, m, BidOf(m), Tenor(i)) /\ Fits(cand(m, i)) <=> m \in Accepts(a, i)
    <3>1. /\ cand(m, i).mandate = m /\ cand(m, i).yield = Yield[m]
          /\ cand(m, i).depth = Unallocated(BidOf(m))
          /\ cand(m, i).proceeds = Proceeds(i, m, Tenor(i))
          /\ cand(m, i).room = Room(m, BidOf(m), DebtorOf[i])
      BY DEF Candidate
    <3>2. m \in Accepts(a, i) <=>
              /\ BidOf(m).status = "active" /\ DebtorOf[i] \in Takes[m]
              /\ Tenor(i) <= MaxTenor[m]
              /\ Unallocated(BidOf(m)) >= Proceeds(i, m, Tenor(i))
              /\ Room(m, BidOf(m), DebtorOf[i]) >= Proceeds(i, m, Tenor(i))
      BY <2>2 DEF Accepts, Decides
    <3> HIDE DEF cand
    <3> QED
      BY <3>1, <3>2 DEF Screened, Fits
  <2> HIDE DEF cand
  <2>6. Accepts(a, i) = {c.mandate : c \in mine(a, i)}
    <3>1. ASSUME NEW m \in Accepts(a, i) PROVE \E c \in mine(a, i) : m = c.mandate
      <4>1. m \in Mine(a)
        BY DEF Accepts
      <4>2. cand(m, i) \in mine(a, i) /\ cand(m, i).mandate = m
        BY <2>4, <2>5, <4>1
      <4> QED
        BY <4>2
    <3>2. ASSUME NEW c \in mine(a, i) PROVE c.mandate \in Accepts(a, i)
      BY <2>4, <2>5
    <3> QED
      BY <3>1, <3>2
  <2>7. ASSUME NEW best \in BestQuote(mine(a, i))
        PROVE  PickBest(a, i) = best.mandate \/ PartByRoom(i, PickBest(a, i), best)
    <3> DEFINE room(m) == Room(m, BidOf(m), DebtorOf[i])
    <3>1. best \in mine(a, i) /\ \A e \in mine(a, i) : Better(best, e)
      BY DEF BestQuote
    <3>2. PICK b \in Mine(a) : /\ best.yield = Yield[b] /\ best.depth = Unallocated(BidOf(b))
                               /\ best.room = room(b) /\ best.mandate = b
                               /\ b \in Accepts(a, i)
      BY <2>4, <2>5, <3>1
    <3> DEFINE p == PickBest(a, i)
    <3>3. p \in Accepts(a, i) /\ Prefers(a, p, b)
      BY <2>1, <3>2, PickIsBest
    <3> HIDE DEF p
    <3>4. p \in Mine(a)
      BY <3>3 DEF Accepts
    <3>5. /\ cand(p, i) \in mine(a, i) /\ cand(p, i).yield = Yield[p]
          /\ cand(p, i).depth = Unallocated(BidOf(p))
          /\ cand(p, i).room = room(p) /\ cand(p, i).mandate = p
      BY <2>4, <2>5, <3>3, <3>4
    <3>6. Better(best, cand(p, i))
      BY <3>1, <3>5
    <3>7. /\ Yield[p] \in Nat /\ Yield[b] \in Nat
          /\ Unallocated(BidOf(p)) \in Nat /\ Unallocated(BidOf(b)) \in Nat
          /\ p \in Nat /\ b \in Nat
      <4>1. p \in Mandates /\ b \in Mandates
        BY <3>4 DEF Mine
      <4>2. Unallocated(BidOf(p)) \in Nat /\ Unallocated(BidOf(b)) \in Nat
        BY <2>1, <3>4, CurrentTyped
      <4> QED
        BY <4>1, <4>2, MarketAssumption
    <3> HIDE DEF room
    <3>8. \/ Yield[b] < Yield[p]
          \/ Yield[b] = Yield[p] /\ Unallocated(BidOf(b)) > Unallocated(BidOf(p))
          \/ /\ Yield[b] = Yield[p] /\ Unallocated(BidOf(b)) = Unallocated(BidOf(p))
             /\ room(b) > room(p) \/ b <= p
      BY <3>2, <3>5, <3>6, <3>7 DEF Better
    <3>9. \/ Yield[p] < Yield[b]
          \/ Yield[p] = Yield[b] /\ Unallocated(BidOf(p)) > Unallocated(BidOf(b))
          \/ Yield[p] = Yield[b] /\ Unallocated(BidOf(p)) = Unallocated(BidOf(b)) /\ p <= b
      BY <3>3, <3>4, <3>7 DEF Prefers
    <3>10. /\ Yield[p] = Yield[b] /\ Unallocated(BidOf(p)) = Unallocated(BidOf(b))
           /\ p = b \/ room(p) < room(b)
      BY <3>7, <3>8, <3>9
    <3> QED
      BY <3>2, <3>10 DEF p, room, PartByRoom
  <2> QED
    BY <2>6, <2>7
<1> QED
  BY <1>1, LedgerAlways, PTL
=============================================================================

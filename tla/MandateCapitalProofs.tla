------------------------ MODULE MandateCapitalProofs ------------------------
(* What the capital of a mandate keeps for any number of requests and       *)
(* trades, any amounts and any loss of answers: the commitment bounds what  *)
(* is reserved, a closed mandate stays closed and empty, and it was empty   *)
(* when it was closed.  The backing of the book by the vault is a sum over  *)
(* the trades, and holds for a mandate served one request at a time.        *)
EXTENDS MandateCapital, TotalProofs, TLAPS

USE CapitalAssumption

(* A closed mandate has nothing committed.                                  *)
ClosedEmpty == status = "withdrawn" => funded = 0 /\ allocated = 0

(* What a withdrawal knows of the balance it read, as long as no deposit     *)
(* came between: it only fell since, and by the release once that was seen. *)
Sees(r) ==
    /\ ~At(r, "release") => job[r].heard = "nothing"
    /\ job[r].pc \in {"book", "release"} /\ ~job[r].raced =>
           /\ balance <= job[r].deposited
           /\ job[r].heard = "ok" => balance + job[r].usdc <= job[r].deposited

LedgerInv == TypeOK /\ WithinCommitment /\ ClosedEmpty
VaultInv == \A r \in Requests : Sees(r)

-----------------------------------------------------------------------------
(* Types.                                                                   *)

LEMMA Conversions ==
    ASSUME NEW n \in Int, NEW m \in Int
    PROVE  /\ AtLeast0(n) \in Nat
           /\ Payment(n) \in Int /\ Required(n) \in Int
           /\ Releasable(n, m) \in Int
<1>1. \A k \in Int : AtLeast0(k) \in Nat
  BY DEF AtLeast0
<1>2. \A k \in Int : k \div Scale \in Int
  OBVIOUS
<1>3. \A k \in Int : Required(k) \in Int
  BY <1>2 DEF Required
<1>4. n - m \in Int /\ AtLeast0(n - m) \in Int
  BY <1>1
<1> QED
  BY <1>1, <1>2, <1>3, <1>4 DEF Payment, Releasable

LEMMA FreeWithin == TypeOK => Free \in Nat /\ Free <= funded
BY DEF TypeOK, Free, AtLeast0

LEMMA IdleTyped == IdleJob \in Job
BY DEF IdleJob, Job, Status, Step

(* A job that moves on is still a job.                                      *)
LEMMA JobTyped ==
    ASSUME TypeOK, NEW r \in Requests
    PROVE  /\ \A pc \in Step : GoOn(r, pc) => job' \in [Requests -> Job]
           /\ \A a \in {"nothing", "ok", "error"} :
                  Hears(r, a) => job' \in [Requests -> Job]
           /\ End(r) => job' \in [Requests -> Job]
           /\ \A j \in Job : Begin(r, j) => job' \in [Requests -> Job]
<1>1. job \in [Requests -> Job] /\ job[r] \in Job
  BY DEF TypeOK
<1>2. ASSUME NEW pc \in Step, GoOn(r, pc)
      PROVE  job' \in [Requests -> Job]
  <2>1. job' = [job EXCEPT ![r] = [job[r] EXCEPT !.pc = pc, !.heard = "nothing"]]
    BY <1>1, <1>2 DEF GoOn
  <2>2. [job[r] EXCEPT !.pc = pc, !.heard = "nothing"] \in Job
    BY <1>1 DEF Job
  <2> QED
    BY <1>1, <2>1, <2>2
<1>3. ASSUME NEW a \in {"nothing", "ok", "error"}, Hears(r, a)
      PROVE  job' \in [Requests -> Job]
  <2>1. job' = [job EXCEPT ![r] = [job[r] EXCEPT !.heard = a]]
    BY <1>1, <1>3 DEF Hears
  <2>2. [job[r] EXCEPT !.heard = a] \in Job
    BY <1>1 DEF Job
  <2> QED
    BY <1>1, <2>1, <2>2
<1>4. End(r) => job' \in [Requests -> Job]
  BY <1>1, IdleTyped DEF End
<1>5. ASSUME NEW j \in Job, Begin(r, j) PROVE job' \in [Requests -> Job]
  BY <1>1, <1>5 DEF Begin
<1> QED
  BY <1>2, <1>3, <1>4, <1>5

(* The store's own operations, each in its one transaction: they keep the   *)
(* book within the commitment, and a closed mandate closed and empty.       *)
RowTyped == funded' \in Nat /\ allocated' \in Nat /\ status' \in Status
RowGood == RowTyped /\ WithinCommitment' /\ ClosedEmpty'

LEMMA RowUnchanged == LedgerInv /\ UNCHANGED row => RowGood
BY DEF LedgerInv, row, RowGood, RowTyped, TypeOK, WithinCommitment, ClosedEmpty

LEMMA RowFunded ==
    ASSUME LedgerInv, NEW n \in Nat, NEW firm \in BOOLEAN, FundMandate(n, firm)
    PROVE  RowGood /\ (status = "withdrawn" => UNCHANGED row)
<1>1. CASE status # "withdrawn" /\ funded + n <= Limit
  <2>1. /\ funded' = funded + n /\ status' = StatusFunded(funded + n, firm)
        /\ allocated' = allocated
    BY <1>1 DEF FundMandate
  <2>2. status' \in Status /\ status' # "withdrawn"
    BY <1>1, <2>1 DEF LedgerInv, TypeOK, StatusFunded, Status
  <2> QED
    BY <1>1, <2>1, <2>2
    DEF LedgerInv, RowGood, RowTyped, TypeOK, WithinCommitment, ClosedEmpty
<1>2. CASE ~(status # "withdrawn" /\ funded + n <= Limit)
  BY <1>2, RowUnchanged DEF FundMandate
<1> QED
  BY <1>1, <1>2

(* A withdrawal leaves the status, or closes what it emptied.               *)
LEMMA RowWithdrawn ==
    ASSUME LedgerInv, NEW n \in Nat, Withdraw(n),
           status' = status \/ (funded' = 0 /\ status' = "withdrawn")
    PROVE  RowGood /\ (status = "withdrawn" => UNCHANGED row)
<1>1. /\ funded' = funded - n /\ allocated' = allocated
      /\ n <= (IF funded - allocated < 0 THEN 0 ELSE funded - allocated)
  BY DEF Withdraw, Free, AtLeast0
<1> QED
  BY <1>1 DEF LedgerInv, RowGood, RowTyped, TypeOK, WithinCommitment,
              ClosedEmpty, row, Status

-----------------------------------------------------------------------------
(* The ledger.                                                              *)

LEMMA InitLedger == Init => LedgerInv /\ VaultInv
<1> SUFFICES ASSUME Init PROVE LedgerInv /\ VaultInv
  OBVIOUS
<1>1. job \in [Requests -> Job] /\ \A r \in Requests : job[r] = IdleJob
  BY IdleTyped DEF Init
<1>2. position \in [Positions -> Position]
  BY DEF Init, Position, PositionState
<1>3. TypeOK
  BY <1>1, <1>2 DEF Init, TypeOK, Status
<1>4. LedgerInv
  BY <1>3 DEF Init, LedgerInv, WithinCommitment, ClosedEmpty
<1>5. VaultInv
  BY <1>1 DEF VaultInv, Sees, At, IdleJob
<1> QED
  BY <1>4, <1>5

(* What a step of the ledger must show.                                     *)
Kept == TypeOK' /\ RowGood /\ (status = "withdrawn" => UNCHANGED row)

LEMMA RouteLedger ==
    ASSUME LedgerInv, NEW r \in Requests, Route(r)
    PROVE  Kept
<1>0. TypeOK /\ job[r] \in Job /\ job[r].amount \in Nat /\ job[r].committed \in Nat
  BY DEF LedgerInv, TypeOK, Job
<1>1. CASE Create(r)
  <2>1. [IdleJob EXCEPT !.pc = "open"] \in Job
    BY IdleTyped DEF Job, Step
  <2> QED
    BY <1>0, <1>1, <2>1, JobTyped
    DEF Create, Kept, LedgerInv, RowGood, RowTyped, TypeOK, WithinCommitment,
        ClosedEmpty, Status, arc, trades
<1>2. ASSUME NEW n \in Amounts, AskFund(r, n) PROVE Kept
  <2>1. [IdleJob EXCEPT !.pc = "buyerOf", !.amount = n,
                        !.committed = funded, !.seen = status] \in Job
    BY <1>0, IdleTyped DEF Job, TypeOK, Step
  <2> QED
    BY <1>0, <1>2, <2>1, JobTyped, RowUnchanged DEF AskFund, Kept, TypeOK, row, arc, trades
<1>3. ASSUME NEW n \in (Amounts \ {0}) \cup {Free}, AskWithdraw(r, n) PROVE Kept
  <2>1. n \in Nat
    BY <1>0, FreeWithin
  <2>2. [IdleJob EXCEPT !.pc = "plan", !.amount = n, !.committed = funded] \in Job
    BY <1>0, <2>1, IdleTyped DEF Job, TypeOK, Step
  <2> QED
    BY <1>0, <1>3, <2>2, JobTyped, RowUnchanged
    DEF AskWithdraw, Kept, TypeOK, row, arc, trades
<1>4. CASE BuyerRead(r) \/ BuyerUnread(r) \/ Registered(r) \/ NotRegistered(r)
           \/ PlanRefused(r) \/ BookRefused(r)
  BY <1>0, <1>4, JobTyped, RowUnchanged
  DEF BuyerRead, BuyerUnread, Registered, NotRegistered, Registers, PlanRefused,
      BookRefused, Kept, TypeOK, row, arc, trades, Step
<1>5. CASE BackingRead(r) \/ BackingUnread(r)
  BY <1>0, <1>5, JobTyped, RowUnchanged
  DEF BackingRead, BackingUnread, Kept, TypeOK, row, arc, trades, Step
<1>6. CASE FundBacked(r) \/ FundShort(r)
  BY <1>0, <1>6, JobTyped, RowFunded, RowUnchanged
  DEF FundBacked, FundShort, Kept, TypeOK, RowGood, RowTyped, arc, trades
<1>7. CASE PlanRead(r)
  <2> DEFINE usdc == Releasable(job[r].committed, job[r].amount)
             sent == IF balance = 0 THEN 0 ELSE usdc
             j == [job[r] EXCEPT !.pc = "book", !.deposited = balance, !.usdc = sent]
  <2>1. balance \in Nat /\ sent \in Nat
    <3>1. usdc \in Int
      <4>1. job[r].committed \in Int /\ job[r].amount \in Int
        BY <1>0
      <4> QED BY <4>1, Conversions
    <3>2. balance \in Nat /\ (balance > 0 => 0 < usdc)
      BY <1>0, <1>7 DEF PlanRead, TypeOK
    <3> HIDE DEF usdc
    <3> QED BY <3>1, <3>2
  <2>2. job' = [job EXCEPT ![r] = j]
    BY <1>0, <1>7 DEF PlanRead, TypeOK
  <2>3. j \in Job
    <3> HIDE DEF sent
    <3> QED BY <1>0, <2>1 DEF Job, Step
  <2>4. job' \in [Requests -> Job]
    <3> HIDE DEF j
    <3> QED BY <1>0, <2>2, <2>3 DEF TypeOK
  <2> QED
    BY <1>0, <1>7, <2>4, RowUnchanged DEF PlanRead, Kept, TypeOK, row, arc, trades
<1>8. CASE BookOnly(r) \/ BookRelease(r)
  <2>1. RowGood /\ (status = "withdrawn" => UNCHANGED row)
    BY <1>0, <1>8, RowWithdrawn DEF BookOnly, BookRelease
  <2>2. job' \in [Requests -> Job]
    <3>1. CASE BookOnly(r)
      BY <1>0, <3>1, JobTyped DEF BookOnly
    <3>2. CASE BookRelease(r)
      <4> DEFINE j == [job[r] EXCEPT !.pc = "release", !.empties = (funded' = 0)]
      <4>1. job' = [job EXCEPT ![r] = j] /\ j \in Job
        BY <1>0, <3>2 DEF BookRelease, TypeOK, Job, Step
      <4> HIDE DEF j
      <4> QED BY <1>0, <4>1 DEF TypeOK
    <3> QED BY <1>8, <3>1, <3>2
  <2> QED
    BY <1>0, <1>8, <2>1, <2>2
    DEF BookOnly, BookRelease, Kept, TypeOK, RowGood, RowTyped, arc, trades
<1>9. CASE ReleaseAnswered(r)
  <2>1. RowGood /\ (status = "withdrawn" => UNCHANGED row)
    BY <1>9 DEF ReleaseAnswered, LedgerInv, RowGood, RowTyped, TypeOK,
                WithinCommitment, ClosedEmpty, row, Status
  <2> QED
    BY <1>0, <1>9, <2>1, JobTyped
    DEF ReleaseAnswered, Kept, TypeOK, RowGood, RowTyped, arc, trades
<1> QED
  BY <1>1, <1>2, <1>3, <1>4, <1>5, <1>6, <1>7, <1>8, <1>9 DEF Route

(* The chain moves no row.                                                  *)
LEMMA ArcLedger ==
    ASSUME LedgerInv, NEW r \in Requests, Arc(r)
    PROVE  Kept
<1>1. TypeOK /\ job[r].usdc \in Nat /\ pending[r] \in Nat
  BY DEF LedgerInv, TypeOK, Job
<1>2. \A usdc \in Nat : PayBuyer(usdc) =>
          balance' \in Nat /\ wallet' \in Nat /\ registered' = registered
  BY <1>1 DEF PayBuyer, TypeOK
<1> QED
  BY <1>1, <1>2, JobTyped, RowUnchanged
  DEF Arc, ReleaseMined, ReleaseReverted, ReleaseTimesOut, MinedLate, InFlight,
      Kept, TypeOK, row, arc, trades

(* A death of the process leaves the types of what it sent and was doing.    *)
LEMMA DiesTyped ==
    ASSUME TypeOK, Dies
    PROVE  /\ job' \in [Requests -> Job] /\ pending' \in [Requests -> Nat]
           /\ crashes' \in Nat /\ UNCHANGED <<registered, balance, wallet>>
           /\ \A r \in Requests : job'[r] = IdleJob
<1>1. \A r \in Requests : job[r].usdc \in Nat /\ pending[r] \in Nat
  BY DEF TypeOK, Job
<1> QED
  BY <1>1, IdleTyped DEF Dies, TypeOK

(* The two writes of a release, or the first of them and a crash.            *)
Landed(p, state) ==
    /\ position'[p].state = state
    /\ again' = again + (IF position[p].state \in Holding THEN 0
                         ELSE position[p].price)
    /\ UNCHANGED <<arc, job, crashes>>
TornOff(p) ==
    /\ position'[p].state = position[p].state
    /\ again' = again + position[p].price
    /\ Dies

LEMMA Written ==
    ASSUME TypeOK, NEW p \in Positions, NEW state \in PositionState,
           NEW drawn \in BOOLEAN, Writes(p, state, drawn)
    PROVE  /\ position' \in [Positions -> Position] /\ again' \in Nat
           /\ \A q \in Positions : q # p => position'[q] = position[q]
           /\ position'[p].price = position[p].price
           /\ position'[p].drawn = drawn
           /\ Landed(p, state) \/ TornOff(p)
<1>0. /\ position \in [Positions -> Position] /\ position[p] \in Position
      /\ position[p].price \in Nat /\ again \in Nat
  BY DEF TypeOK, Position
<1>1. CASE /\ position' = [position EXCEPT ![p].state = state, ![p].drawn = drawn]
           /\ HoldsOn(p) /\ UNCHANGED <<arc, job, crashes>>
  <2>1. position' = [position EXCEPT ![p] =
                        [position[p] EXCEPT !.state = state, !.drawn = drawn]]
    BY <1>0, <1>1
  <2>2. [position[p] EXCEPT !.state = state, !.drawn = drawn] \in Position
    BY <1>0 DEF Position
  <2>3. again' = again + (IF position[p].state \in Holding THEN 0
                          ELSE position[p].price)
    BY <1>0, <1>1 DEF HoldsOn, FreesAgain
  <2>4. /\ position'[p].state = state /\ position'[p].drawn = drawn
        /\ position'[p].price = position[p].price
    BY <1>0, <2>1 DEF Position
  <2> QED
    BY <1>0, <1>1, <2>1, <2>2, <2>3, <2>4 DEF Landed
<1>2. CASE /\ position' = [position EXCEPT ![p].drawn = drawn]
           /\ FreesAgain(p) /\ Dies
  <2>1. position' = [position EXCEPT ![p] = [position[p] EXCEPT !.drawn = drawn]]
    BY <1>0, <1>2
  <2>2. [position[p] EXCEPT !.drawn = drawn] \in Position
    BY <1>0 DEF Position
  <2>3. again' = again + position[p].price
    BY <1>2 DEF FreesAgain
  <2>4. /\ position'[p].state = position[p].state /\ position'[p].drawn = drawn
        /\ position'[p].price = position[p].price
    BY <1>0, <2>1 DEF Position
  <2> QED
    BY <1>0, <1>2, <2>1, <2>2, <2>3, <2>4 DEF TornOff
<1> QED
  BY <1>1, <1>2 DEF Writes

(* Every way of ending a hold on capital: the book's write, then the trade's.*)
Ends(p, state, drawn) ==
    /\ state \in PositionState \ (Holding \cup {"none"}) /\ drawn \in BOOLEAN
    /\ Writes(p, state, drawn)
    /\ \/ Release(p) /\ drawn = position[p].drawn
       \/ Retire(p) /\ drawn = (position[p].drawn /\ funded < position[p].price)

LEMMA TradeEnds ==
    ASSUME TypeOK, NEW p \in Positions,
           Mature(p) \/ WriteOff(p) \/ \E state \in {"failed", "unwound"} : GiveBack(p, state)
    PROVE  \E state, drawn : Ends(p, state, drawn)
<1>0. position[p].drawn \in BOOLEAN
  BY DEF TypeOK, Position
<1>1. CASE Mature(p)
  BY <1>0, <1>1 DEF Mature, Ends, PositionState, Holding
<1>2. CASE WriteOff(p)
  BY <1>0, <1>2 DEF WriteOff, Ends, PositionState, Holding
<1>3. CASE \E state \in {"failed", "unwound"} : GiveBack(p, state)
  BY <1>0, <1>3 DEF GiveBack, Ends, PositionState, Holding
<1> QED
  BY <1>1, <1>2, <1>3

(* A payment, and what is heard of it, move no row.                          *)
LEMMA TradePays ==
    ASSUME TypeOK, NEW p \in Positions, Pay(p) \/ Hear(p) \/ Revive(p)
    PROVE  /\ position' \in [Positions -> Position] /\ again' \in Nat
           /\ \A q \in Positions : q # p => position'[q] = position[q]
           /\ position'[p].price = position[p].price
           /\ \/ /\ position'[p].state = position[p].state /\ again' = again
                 /\ ~position[p].drawn /\ position'[p].drawn
                 /\ balance' = balance - Payment(position[p].price)
                 /\ balance' \in Nat /\ balance' <= balance
              \/ /\ position'[p].drawn = position[p].drawn /\ balance' = balance
                 /\ position'[p].state \in Holding
                 /\ again' = again + (IF position[p].state \in Holding THEN 0
                                      ELSE position[p].price)
           /\ UNCHANGED <<row, registered, wallet, pending, job, crashes>>
<1>0. /\ position \in [Positions -> Position] /\ position[p] \in Position
      /\ position[p].price \in Nat /\ again \in Nat /\ balance \in Nat
      /\ Payment(position[p].price) \in Int
  <2>1. /\ position \in [Positions -> Position] /\ position[p] \in Position
        /\ position[p].price \in Nat /\ again \in Nat /\ balance \in Nat
    BY DEF TypeOK, Position
  <2>2. \A n \in Int : Payment(n) \in Int
    BY Conversions
  <2> QED
    BY <2>1, <2>2
<1>1. CASE Pay(p)
  <2>1. position' = [position EXCEPT ![p] = [position[p] EXCEPT !.drawn = TRUE]]
    BY <1>0, <1>1 DEF Pay
  <2>2. [position[p] EXCEPT !.drawn = TRUE] \in Position
    BY <1>0 DEF Position
  <2>3. /\ position'[p].state = position[p].state /\ position'[p].drawn
        /\ position'[p].price = position[p].price
    BY <1>0, <2>1 DEF Position
  <2>4. balance' = balance - Payment(position[p].price)
        /\ balance' \in Nat /\ balance' <= balance
    BY <1>0, <1>1 DEF Pay
  <2> QED
    BY <1>0, <1>1, <2>1, <2>2, <2>3, <2>4 DEF Pay
<1>2. ASSUME NEW state \in Holding, Claims(p, state)
      PROVE  /\ position' \in [Positions -> Position] /\ again' \in Nat
             /\ \A q \in Positions : q # p => position'[q] = position[q]
             /\ position'[p].price = position[p].price
             /\ position'[p].drawn = position[p].drawn /\ balance' = balance
             /\ position'[p].state \in Holding
             /\ again' = again + (IF position[p].state \in Holding THEN 0
                                  ELSE position[p].price)
             /\ UNCHANGED <<row, registered, wallet, pending, job, crashes>>
  <2>1. position' = [position EXCEPT ![p] = [position[p] EXCEPT !.state = state]]
    BY <1>0, <1>2 DEF Claims
  <2>2. [position[p] EXCEPT !.state = state] \in Position
    BY <1>0, <1>2 DEF Position, PositionState
  <2>3. again' = again + (IF position[p].state \in Holding THEN 0
                          ELSE position[p].price)
    BY <1>0, <1>2 DEF Claims, HoldsOn, FreesAgain
  <2>4. /\ position'[p].state = state /\ position'[p].drawn = position[p].drawn
        /\ position'[p].price = position[p].price
    BY <1>0, <2>1 DEF Position
  <2> QED
    BY <1>0, <1>2, <2>1, <2>2, <2>3, <2>4 DEF Claims, arc
<1>3. CASE Hear(p) \/ Revive(p)
  BY <1>2, <1>3 DEF Hear, Revive, Holding
<1> QED
  BY <1>1, <1>2, <1>3 DEF Hear, Revive, Holding

LEMMA TradeReserves ==
    ASSUME TypeOK, NEW p \in Positions, NEW price \in Prices, Reserve(p, price)
    PROVE  /\ position' \in [Positions -> Position] /\ again' = again
           /\ \A q \in Positions : q # p => position'[q] = position[q]
           /\ position[p].state = "none" /\ position'[p].state = "reserved"
           /\ position'[p].price = price /\ ~position'[p].drawn
           /\ allocated' = allocated + price /\ funded' = funded
           /\ UNCHANGED <<arc, job, crashes>>
<1>1. [state |-> "reserved", price |-> price, drawn |-> FALSE] \in Position
  BY DEF Position, PositionState, Holding
<1> QED
  BY <1>1 DEF Reserve, TypeOK

LEMMA TradeLedger ==
    ASSUME LedgerInv, NEW p \in Positions, Trade(p)
    PROVE  Kept
<1>0. TypeOK /\ position[p] \in Position /\ position[p].price \in Nat
  BY DEF LedgerInv, TypeOK, Position
<1>1. ASSUME NEW price \in Prices, Reserve(p, price) PROVE Kept
  <2>1. RowGood
    BY <1>1 DEF Reserve, Free, AtLeast0, LedgerInv, RowGood, RowTyped, TypeOK,
                WithinCommitment, ClosedEmpty, Status
  <2> QED
    BY <1>0, <1>1, <2>1, TradeReserves
    DEF Reserve, Kept, TypeOK, RowGood, RowTyped, arc
<1>2. CASE Pay(p) \/ Hear(p) \/ Revive(p)
  BY <1>0, <1>2, TradePays, RowUnchanged DEF Kept, TypeOK, row
<1>3. ASSUME NEW state, NEW drawn, Ends(p, state, drawn) PROVE Kept
  <2>1. RowGood /\ (status = "withdrawn" => UNCHANGED row)
    BY <1>0, <1>3 DEF Ends, Release, Retire, AtLeast0, Reopened, LedgerInv, RowGood,
                      RowTyped, TypeOK, WithinCommitment, ClosedEmpty, row, Status
  <2>2. /\ position' \in [Positions -> Position] /\ again' \in Nat
        /\ Landed(p, state) \/ TornOff(p)
    BY <1>0, <1>3, Written DEF Ends
  <2>3. CASE Landed(p, state)
    BY <1>0, <2>1, <2>2, <2>3 DEF Landed, Kept, TypeOK, RowGood, RowTyped, arc
  <2>4. CASE TornOff(p)
    BY <1>0, <2>1, <2>2, <2>4, DiesTyped
    DEF TornOff, Kept, TypeOK, RowGood, RowTyped
  <2> QED
    BY <2>2, <2>3, <2>4
<1> QED
  BY <1>0, <1>1, <1>2, <1>3, TradeEnds DEF Trade

LEMMA NextLedger == LedgerInv /\ [Next]_vars => Kept
<1> SUFFICES ASSUME LedgerInv, [Next]_vars PROVE Kept
  OBVIOUS
<1>1. ASSUME NEW r \in Requests, Route(r) \/ Arc(r) PROVE Kept
  BY <1>1, RouteLedger, ArcLedger
<1>2. ASSUME NEW n \in 1..Wealth, Deposit(n) PROVE Kept
  <2>1. \A r \in Requests :
            [job[r] EXCEPT !.raced = @ \/ job[r].pc \in {"book", "release"}] \in Job
    BY DEF LedgerInv, TypeOK, Job
  <2> QED
    BY <1>2, <2>1, RowUnchanged DEF Deposit, LedgerInv, Kept, TypeOK, row, trades
<1>3. ASSUME NEW p \in Positions, Trade(p) PROVE Kept
  BY <1>3, TradeLedger
<1>4. CASE Crash
  BY <1>4, DiesTyped, RowUnchanged DEF Crash, LedgerInv, Kept, TypeOK, row, trades
<1>5. CASE UNCHANGED vars
  BY <1>5, RowUnchanged DEF vars, LedgerInv, Kept, TypeOK, row
<1> QED
  BY <1>1, <1>2, <1>3, <1>4, <1>5 DEF Next

LEMMA AlwaysLedger == Spec => []LedgerInv
<1>1. LedgerInv /\ [Next]_vars => LedgerInv'
  BY NextLedger DEF Kept, LedgerInv, RowGood
<1> QED
  BY <1>1, InitLedger, PTL DEF Spec

(* Every variable keeps its type: amounts in particular never go negative.  *)
THEOREM CapitalTyped == Spec => []TypeOK
BY AlwaysLedger, PTL DEF LedgerInv

(* However fundings, withdrawals and trades interleave, a mandate reserves  *)
(* no more than was committed, and no more is committed than its limit.     *)
THEOREM NeverOvercommitted == Spec => []WithinCommitment
BY AlwaysLedger, PTL DEF LedgerInv

(* Whatever raced with its closing, a closed mandate stays closed, and      *)
(* never holds or reserves anything again.                                  *)
THEOREM StaysClosed == Spec => ClosedForGood
<1>1. LedgerInv /\ [Next]_vars =>
          (status = "withdrawn" =>
               status' = "withdrawn" /\ funded' = 0 /\ allocated' = 0)
  BY NextLedger DEF Kept, LedgerInv, ClosedEmpty, row
<1> QED
  BY <1>1, AlwaysLedger, PTL DEF Spec, ClosedForGood

-----------------------------------------------------------------------------
(* The vault: what a release in flight knows of the balance.                *)

(* A step that takes nothing into the vault, and leaves a job alone, leaves *)
(* what that job knows.                                                     *)
LEMMA SeesOn ==
    ASSUME TypeOK, NEW r \in Requests, Sees(r), job'[r] = job[r],
           balance' \in Nat, balance' <= balance
    PROVE  Sees(r)'
<1>1. job[r] \in Job /\ job[r].deposited \in Nat /\ job[r].usdc \in Nat
      /\ balance \in Nat
  BY DEF TypeOK, Job
<1> QED
  BY <1>1 DEF Sees, At

LEMMA SeesMoved ==
    ASSUME TypeOK, NEW r \in Requests, Sees(r), balance' = balance
    PROVE  /\ \A pc \in {"backing", "register", "backed", "short"} : GoOn(r, pc) => Sees(r)'
           /\ End(r) => Sees(r)'
BY DEF TypeOK, Job, Sees, At, GoOn, End, IdleJob

(* A step of one request leaves the jobs of the others alone.               *)
LEMMA OthersSee ==
    ASSUME TypeOK, VaultInv, NEW r \in Requests, Sees(r)',
           balance' \in Nat, balance' <= balance,
           \A q \in Requests \ {r} : job'[q] = job[q]
    PROVE  VaultInv'
<1> SUFFICES ASSUME NEW q \in Requests PROVE Sees(q)'
  BY DEF VaultInv
<1>1. CASE q = r
  BY <1>1
<1>2. CASE q # r
  BY <1>2, SeesOn DEF VaultInv
<1> QED
  BY <1>1, <1>2

LEMMA RouteVault ==
    ASSUME LedgerInv, VaultInv, NEW r \in Requests, Route(r)
    PROVE  VaultInv'
<1>0. TypeOK /\ Sees(r) /\ balance \in Nat /\ job[r] \in Job
      /\ job \in [Requests -> Job]
  BY DEF LedgerInv, VaultInv, TypeOK
<1>1. balance' = balance
  BY DEF Route, Create, AskFund, AskWithdraw, BuyerRead, BuyerUnread, Registered,
         NotRegistered, BackingRead, BackingUnread, FundBacked, FundShort,
         PlanRefused, PlanRead, BookRefused, BookOnly, BookRelease,
         ReleaseAnswered, arc
<1>2. \A q \in Requests \ {r} : job'[q] = job[q]
  BY <1>0 DEF Route, Create, AskFund, AskWithdraw, BuyerRead, BuyerUnread,
         Registered, Registers, NotRegistered, BackingRead, BackingUnread,
         FundBacked, FundShort, PlanRefused, PlanRead, BookRefused, BookOnly,
         BookRelease, ReleaseAnswered, Begin, GoOn, End
<1>3. Sees(r)'
  <2>1. CASE PlanRead(r)
    <3>1. /\ job'[r].heard = "nothing" /\ job'[r].deposited = balance
          /\ job'[r].pc = "book"
      BY <1>0, <2>1 DEF PlanRead, TypeOK, Job, Sees, At
    <3> QED
      BY <1>0, <1>1, <3>1 DEF Sees, At
  <2>7. CASE BookRelease(r)
    <3>1. /\ job'[r].heard = "nothing" /\ job'[r].deposited = job[r].deposited
          /\ job'[r].raced = job[r].raced /\ job[r].pc = "book"
          /\ job'[r].pc = "release"
      BY <1>0, <2>7 DEF BookRelease, TypeOK, Job, Sees, At
    <3> QED
      BY <1>0, <1>1, <3>1 DEF Sees, At
  <2>2. CASE Create(r)
    BY <1>0, <1>1, <2>2 DEF Create, Begin, Sees, At, IdleJob
  <2>3. ASSUME NEW n \in Amounts, AskFund(r, n) PROVE Sees(r)'
    BY <1>0, <1>1, <2>3 DEF AskFund, Begin, Sees, At, IdleJob
  <2>4. ASSUME NEW n \in (Amounts \ {0}) \cup {Free}, AskWithdraw(r, n)
        PROVE  Sees(r)'
    BY <1>0, <1>1, <2>4 DEF AskWithdraw, Begin, Sees, At, IdleJob
  <2>5. CASE BuyerRead(r) \/ BuyerUnread(r) \/ Registered(r) \/ NotRegistered(r)
    BY <1>0, <1>1, <2>5, SeesMoved
    DEF BuyerRead, BuyerUnread, Registered, NotRegistered, Registers
  <2>6. CASE BackingRead(r) \/ BackingUnread(r) \/ FundBacked(r) \/ FundShort(r)
             \/ PlanRefused(r) \/ BookRefused(r) \/ BookOnly(r) \/ ReleaseAnswered(r)
    BY <1>0, <1>1, <2>6, SeesMoved
    DEF BackingRead, BackingUnread, FundBacked, FundShort, PlanRefused, BookRefused,
        BookOnly, ReleaseAnswered
  <2> QED
    BY <2>1, <2>2, <2>3, <2>4, <2>5, <2>6, <2>7 DEF Route
<1> QED
  BY <1>0, <1>1, <1>2, <1>3, OthersSee

LEMMA ArcVault ==
    ASSUME LedgerInv, VaultInv, NEW r \in Requests, Arc(r)
    PROVE  VaultInv'
<1>0. /\ TypeOK /\ Sees(r) /\ balance \in Nat /\ job[r] \in Job
      /\ job[r].usdc \in Nat /\ job[r].deposited \in Nat
      /\ pending[r] \in Nat /\ job \in [Requests -> Job]
  BY DEF LedgerInv, VaultInv, TypeOK, Job
<1>1. balance' \in Nat /\ balance' <= balance
  BY <1>0 DEF Arc, ReleaseMined, ReleaseReverted, ReleaseTimesOut, MinedLate,
              PayBuyer, arc
<1>2. \A q \in Requests \ {r} : job'[q] = job[q]
  BY <1>0 DEF Arc, ReleaseMined, ReleaseReverted, ReleaseTimesOut, MinedLate, Hears
<1>3. Sees(r)'
  <2>1. CASE ReleaseMined(r)
    BY <1>0, <2>1 DEF ReleaseMined, InFlight, PayBuyer, Hears, Sees, At, Job
  <2>2. CASE ReleaseReverted(r) \/ ReleaseTimesOut(r)
    BY <1>0, <2>2
    DEF ReleaseReverted, ReleaseTimesOut, InFlight, Hears, Sees, At, Job, arc
  <2>3. CASE MinedLate(r)
    BY <1>0, <1>1, <2>3, SeesOn DEF MinedLate
  <2> QED
    BY <2>1, <2>2, <2>3 DEF Arc
<1> QED
  BY <1>0, <1>1, <1>2, <1>3, OthersSee

LEMMA NextVault == LedgerInv /\ VaultInv /\ [Next]_vars => VaultInv'
<1> SUFFICES ASSUME LedgerInv, VaultInv, [Next]_vars PROVE VaultInv'
  OBVIOUS
<1>0. TypeOK /\ balance \in Nat /\ \A r \in Requests : Sees(r) /\ job[r] \in Job
  BY DEF LedgerInv, VaultInv, TypeOK
<1>1. ASSUME NEW r \in Requests, Route(r) \/ Arc(r) PROVE VaultInv'
  BY <1>1, RouteVault, ArcVault
<1>2. ASSUME NEW n \in 1..Wealth, Deposit(n) PROVE VaultInv'
  <2> SUFFICES ASSUME NEW r \in Requests PROVE Sees(r)'
    BY DEF VaultInv
  <2>1. job'[r] = [job[r] EXCEPT !.raced =
                        job[r].raced \/ job[r].pc \in {"book", "release"}]
    BY <1>2 DEF Deposit
  <2>2. /\ job'[r].pc = job[r].pc /\ job'[r].heard = job[r].heard
        /\ job[r].pc \in {"book", "release"} => job'[r].raced
    BY <1>0, <2>1 DEF Job
  <2> QED
    BY <1>0, <2>2 DEF Sees, At
<1>3. ASSUME NEW p \in Positions, Trade(p) PROVE VaultInv'
  <2>1. ASSUME job' = job, balance' \in Nat, balance' <= balance PROVE VaultInv'
    BY <1>0, <2>1, SeesOn DEF VaultInv
  <2>2. ASSUME NEW price \in Prices, Reserve(p, price) PROVE VaultInv'
    BY <1>0, <2>1, <2>2 DEF Reserve, arc
  <2>3. CASE Pay(p) \/ Hear(p) \/ Revive(p)
    BY <1>0, <2>1, <2>3, TradePays
  <2>4. ASSUME NEW state, NEW drawn, Ends(p, state, drawn) PROVE VaultInv'
    <3>1. Landed(p, state) \/ TornOff(p)
      BY <1>0, <2>4, Written DEF Ends
    <3>2. CASE Landed(p, state)
      BY <1>0, <2>1, <3>2 DEF Landed, arc
    <3>3. CASE TornOff(p)
      BY <3>3 DEF TornOff, Dies, VaultInv, Sees, At, IdleJob
    <3> QED
      BY <3>1, <3>2, <3>3
  <2> QED
    BY <1>0, <1>3, <2>2, <2>3, <2>4, TradeEnds DEF Trade
<1>4. CASE Crash
  BY <1>4 DEF Crash, Dies, VaultInv, Sees, At, IdleJob
<1>5. CASE UNCHANGED vars
  BY <1>0, <1>5, SeesOn DEF VaultInv, vars
<1> QED
  BY <1>1, <1>2, <1>3, <1>4, <1>5 DEF Next

(* Nothing but an emptied book or an emptied vault closes a mandate.        *)
LEMMA NextCloses ==
    ASSUME LedgerInv, VaultInv, [Next]_vars, status # "withdrawn",
           status' = "withdrawn"
    PROVE  balance = 0 \/ \E r \in Requests : job[r].raced /\ job'[r] # job[r]
<1>0. TypeOK /\ balance \in Nat
  BY DEF LedgerInv, TypeOK
<1>1. ASSUME NEW r \in Requests, ReleaseAnswered(r) \/ BookOnly(r), ~job[r].raced
      PROVE  balance = 0
  <2>1. job[r].usdc \in Nat /\ job[r].deposited \in Nat
    BY <1>0 DEF TypeOK, Job
  <2>2. CASE ReleaseAnswered(r)
    <3>1. /\ job[r].pc = "release" /\ job[r].heard = "ok"
          /\ job[r].usdc = job[r].deposited
      BY <2>2 DEF ReleaseAnswered, Closes, At
    <3>2. balance + job[r].usdc <= job[r].deposited
      BY <1>1, <3>1 DEF VaultInv, Sees, At
    <3> QED
      BY <1>0, <2>1, <3>1, <3>2
  <2>3. CASE BookOnly(r)
    BY <1>0, <1>1, <2>1, <2>3 DEF BookOnly, VaultInv, Sees, At
  <2> QED
    BY <1>1, <2>2, <2>3
<1>2. ASSUME NEW r \in Requests, ReleaseAnswered(r) \/ BookOnly(r)
      PROVE  job'[r] # job[r]
  BY <1>0, <1>2 DEF ReleaseAnswered, BookOnly, At, End, IdleJob, TypeOK
<1>3. ASSUME NEW r \in Requests, Route(r)
      PROVE  ReleaseAnswered(r) \/ BookOnly(r)
  <2>1. ASSUME NEW n, NEW firm, FundMandate(n, firm) PROVE FALSE
    BY <1>0, <2>1 DEF FundMandate, StatusFunded, row, TypeOK, Status
  <2> QED
    BY <1>3, <2>1 DEF Route, Create, AskFund, AskWithdraw, BuyerRead, BuyerUnread,
       Registered, NotRegistered, BackingRead, BackingUnread, FundBacked, FundShort,
       PlanRefused, PlanRead, BookRefused, BookRelease, row
<1>4. ASSUME NEW r \in Requests, Arc(r) PROVE FALSE
  BY <1>4 DEF Arc, ReleaseMined, ReleaseReverted, ReleaseTimesOut, MinedLate, row
<1>5. ASSUME NEW n \in 1..Wealth, Deposit(n) PROVE FALSE
  BY <1>5 DEF Deposit, row
<1>6. ASSUME NEW p \in Positions, Trade(p) PROVE FALSE
  <2>1. Reopened(funded, allocated') # "withdrawn"
        /\ Reopened(funded', allocated') # "withdrawn"
    BY DEF Reopened
  <2> QED
    BY <1>6, <2>1 DEF Trade, Reserve, Pay, Hear, Revive, Claims, GiveBack, Mature,
                      WriteOff, Release, Retire, row
<1>7. ~Crash /\ ~UNCHANGED vars
  BY DEF Crash, vars, row
<1> QED
  BY <1>1, <1>2, <1>3, <1>4, <1>5, <1>6, <1>7 DEF Next

(* A mandate is closed over an empty vault, or over what was deposited      *)
(* after the request that closes it read the balance - whatever the other   *)
(* requests did and whatever answers were lost.                             *)
THEOREM NothingStranded == Spec => CloseStrandsNothing
<1>1. LedgerInv /\ VaultInv /\ [Next]_vars =>
          LedgerInv' /\ VaultInv'
  BY NextLedger, NextVault DEF Kept, LedgerInv, RowGood
<1>2. LedgerInv /\ VaultInv /\ [Next]_vars =>
          (status # "withdrawn" /\ status' = "withdrawn" =>
             \/ balance = 0
             \/ \E r \in Requests : job[r].raced /\ job'[r] # job[r])
  BY NextCloses
<1> QED
  BY <1>1, <1>2, InitLedger, PTL DEF Spec, CloseStrandsNothing

-----------------------------------------------------------------------------
(* The conversions between the book and the vault.                          *)

LEMMA Floor ==
    ASSUME NEW a \in Int, NEW q \in Int
    PROVE  /\ Scale * (a \div Scale) <= a
           /\ Scale * q <= a => q <= a \div Scale
<1>1. PICK y \in Nat \ {0} : y = Scale
  OBVIOUS
<1>2. y * (a \div y) <= a
  BY <1>1, SMTT(60)
<1>3. y * q <= a => q <= a \div y
  BY <1>1, SMTT(60)
<1> QED
  BY <1>1, <1>2, <1>3

(* Taking n units of the book away, of which k units of USDC could be paid, *)
(* lowers what the book requires by at least k.                             *)
LEMMA RequiredLess ==
    ASSUME NEW n \in Int, NEW p \in Int, NEW k \in Int, Scale * k <= p
    PROVE  Required(n - p) + k <= Required(n)
<1>1. PICK y \in Nat \ {0} : y = Scale
  OBVIOUS
<1>2. PICK q \in Int : q = Required(n - p)
  BY Conversions
<1>3. y * q <= n - p + y - 1
  BY <1>1, <1>2, Floor DEF Required
<1>4. y * (q + k) = y * q + y * k /\ y * q \in Int /\ y * k \in Int
  BY <1>1, <1>2
<1>5. y * (q + k) <= n + y - 1
  BY <1>1, <1>3, <1>4
<1>6. q + k <= (n + y - 1) \div y
  BY <1>1, <1>2, <1>5, Floor
<1> QED
  BY <1>1, <1>2, <1>6 DEF Required

LEMMA RequiredInt ==
    ASSUME NEW n \in Int PROVE Required(n) \in Int
BY Conversions

(* A larger book requires no less.                                          *)
LEMMA RequiredGrows ==
    ASSUME NEW n \in Int, NEW m \in Int, n <= m
    PROVE  Required(n) <= Required(m)
<1>1. m - n \in Int /\ Scale * 0 <= m - n /\ m - (m - n) = n
  OBVIOUS
<1>2. Required(m - (m - n)) + 0 <= Required(m)
  BY ONLY <1>1, RequiredLess
<1> QED
  BY <1>1, <1>2, Conversions

LEMMA RequiredNothing == Required(0) = 0
<1>1. PICK y \in Nat \ {0} : y = Scale
  OBVIOUS
<1>2. (0 + y - 1) \div y = 0
  BY <1>1, SMTT(60)
<1> QED
  BY <1>1, <1>2 DEF Required

LEMMA PaymentWithin ==
    ASSUME NEW n \in Nat
    PROVE  Payment(n) \in Nat /\ Scale * Payment(n) <= n
<1>1. Payment(n) \in Int /\ Scale * Payment(n) <= n
  BY Conversions, Floor DEF Payment
<1>2. 0 <= Payment(n)
  BY Floor DEF Payment
<1> QED
  BY <1>1, <1>2

(* What a withdrawal releases is never negative, and it is what the smaller *)
(* book no longer requires.                                                 *)
LEMMA ReleasableIs ==
    ASSUME NEW before \in Nat, NEW n \in Nat
    PROVE  /\ Releasable(before, n) \in Nat
           /\ n <= before => Required(before - n) + Releasable(before, n) = Required(before)
<1>1. AtLeast0(before - n) \in Nat /\ AtLeast0(before - n) <= before
      /\ (n <= before => AtLeast0(before - n) = before - n)
  BY DEF AtLeast0
<1>2. Required(AtLeast0(before - n)) <= Required(before)
  BY <1>1, RequiredGrows
<1>3. Required(AtLeast0(before - n)) \in Int /\ Required(before) \in Int
  BY <1>1, Conversions
<1> QED
  BY <1>1, <1>2, <1>3 DEF Releasable

-----------------------------------------------------------------------------
(* What is allocated is the prices of the trades that hold it.              *)

PriceOf == [p \in Positions |-> position[p].price]
Held == {p \in Positions : position[p].state \in Holding}
AllocatedIsHeld ==
    /\ allocated <= Total(PriceOf, Held)
    /\ Total(PriceOf, Held) <= allocated + again

HeldInv ==
    /\ AllocatedIsHeld
    /\ \A p \in Positions : position[p].state = "none" => ~position[p].drawn

SumsTyped ==
    /\ IsFiniteSet(Held) /\ IsFiniteSet(Drawn) /\ IsFiniteSet(Unheard)
    /\ \A p \in Positions : PriceOf[p] \in Nat /\ PaymentOf[p] \in Nat
    /\ Total(PriceOf, Held) \in Nat /\ Total(PaymentOf, Held) \in Nat
    /\ Total(PaymentOf, Drawn) \in Nat /\ Total(PaymentOf, Unheard) \in Nat
    /\ Scale * Total(PaymentOf, Held) <= Total(PriceOf, Held)
    /\ Total(PaymentOf, Drawn) <= Total(PaymentOf, Unheard) + Total(PaymentOf, Held)

LEMMA Sums == TypeOK => SumsTyped
<1> SUFFICES ASSUME TypeOK PROVE SumsTyped
  OBVIOUS
<1>1. /\ Held \subseteq Positions /\ Drawn \subseteq Positions
      /\ Unheard \subseteq Positions /\ Drawn \subseteq Unheard \cup Held
  BY DEF Held, Drawn, Unheard
<1>2. IsFiniteSet(Held) /\ IsFiniteSet(Drawn) /\ IsFiniteSet(Unheard)
  BY <1>1, FinitePositions, FS_Subset
<1>3. ASSUME NEW p \in Positions
      PROVE  /\ PriceOf[p] \in Nat /\ PaymentOf[p] \in Nat
             /\ Scale * PaymentOf[p] <= PriceOf[p]
  <2>1. position[p].price \in Nat
    BY DEF TypeOK, Position
  <2> QED
    BY <2>1, PaymentWithin DEF PriceOf, PaymentOf
<1>4. /\ Total(PriceOf, Held) \in Nat /\ Total(PaymentOf, Held) \in Nat
      /\ Total(PaymentOf, Drawn) \in Nat /\ Total(PaymentOf, Unheard) \in Nat
      /\ Total(PaymentOf, Drawn) <= Total(PaymentOf, Unheard) + Total(PaymentOf, Held)
  <2> PICK f, e, S, T, U : /\ f = PriceOf /\ e = PaymentOf /\ S = Held /\ T = Drawn
                           /\ U = Unheard
    OBVIOUS
  <2>1. \A p \in S \cup T \cup U : f[p] \in Nat /\ e[p] \in Nat
    BY <1>1, <1>3
  <2>2. Total(f, S) \in Nat /\ Total(e, S) \in Nat /\ Total(e, T) \in Nat
        /\ Total(e, U) \in Nat
    BY <1>2, <2>1, TotalNat
  <2>3. Total(e, T) <= Total(e, U) + Total(e, S)
    BY <1>1, <1>2, <2>1, TotalCover
  <2> QED
    BY <2>2, <2>3
<1>5. Scale * Total(PaymentOf, Held) <= Total(PriceOf, Held)
  <2> PICK f, e, T : f = PriceOf /\ e = PaymentOf /\ T = Held
    OBVIOUS
  <2>1. \A p \in T : f[p] \in Int /\ e[p] \in Int /\ Scale * e[p] <= f[p]
    BY <1>1, <1>3
  <2> QED
    BY <1>2, <2>1, TotalScaled
<1> QED
  BY <1>2, <1>3, <1>4, <1>5 DEF SumsTyped

(* What one trade's move does to the sums.                                  *)
LEMMA OneMoves ==
    ASSUME TypeOK, TypeOK', NEW p \in Positions,
           \A q \in Positions : q # p => position'[q] = position[q]
    PROVE  /\ Total(PriceOf, Held)' = Total(PriceOf, Held)
                  + (IF position'[p].state \in Holding THEN position'[p].price ELSE 0)
                  - (IF position[p].state \in Holding THEN position[p].price ELSE 0)
           /\ Total(PaymentOf, Drawn)' = Total(PaymentOf, Drawn)
                  + (IF position'[p].drawn THEN Payment(position'[p].price) ELSE 0)
                  - (IF position[p].drawn THEN Payment(position[p].price) ELSE 0)
<1>1. PICK f, e, g, h : f = PriceOf /\ e = PriceOf' /\ g = PaymentOf /\ h = PaymentOf'
  OBVIOUS
<1>2. PICK S, T, U, V : S = Held /\ T = Held' /\ U = Drawn /\ V = Drawn'
  OBVIOUS
<1>3. /\ IsFiniteSet(S) /\ IsFiniteSet(U)
      /\ \A q \in Positions : f[q] \in Nat /\ g[q] \in Nat
  BY <1>1, <1>2, Sums DEF SumsTyped
<1>4. /\ IsFiniteSet(T) /\ IsFiniteSet(V)
      /\ \A q \in Positions : e[q] \in Nat /\ h[q] \in Nat
  <2>1. SumsTyped'
    BY Sums, PTL
  <2> QED
    BY <1>1, <1>2, <2>1 DEF SumsTyped
<1>5. /\ f[p] = position[p].price /\ e[p] = position'[p].price
      /\ g[p] = Payment(position[p].price) /\ h[p] = Payment(position'[p].price)
      /\ \A q \in Positions : q # p => e[q] = f[q] /\ h[q] = g[q]
  BY <1>1 DEF PriceOf, PaymentOf
<1>6. /\ S \cup T \subseteq Positions /\ U \cup V \subseteq Positions
      /\ (p \in S <=> position[p].state \in Holding)
      /\ (p \in T <=> position'[p].state \in Holding)
      /\ (p \in U <=> position[p].drawn)
      /\ (p \in V <=> position'[p].drawn)
      /\ \A q \in Positions : q # p => (q \in S <=> q \in T) /\ (q \in U <=> q \in V)
  BY <1>2 DEF Held, Drawn
<1>7. Total(e, T) = Total(f, S) + (IF p \in T THEN e[p] ELSE 0)
                                - (IF p \in S THEN f[p] ELSE 0)
  <2>1. \A q \in S \cup T : q # p => f[q] \in Int /\ e[q] = f[q]
    BY <1>3, <1>5, <1>6
  <2>2. \A q \in S \cup T : q # p => (q \in T <=> q \in S)
    BY <1>6
  <2> QED
    BY <1>3, <1>4, <2>1, <2>2, TotalShift
<1>8. Total(h, V) = Total(g, U) + (IF p \in V THEN h[p] ELSE 0)
                                - (IF p \in U THEN g[p] ELSE 0)
  <2>1. \A q \in U \cup V : q # p => g[q] \in Int /\ h[q] = g[q]
    BY <1>3, <1>5, <1>6
  <2>2. \A q \in U \cup V : q # p => (q \in V <=> q \in U)
    BY <1>6
  <2> QED
    BY <1>3, <1>4, <2>1, <2>2, TotalShift
<1>9. Total(PriceOf, Held)' = Total(e, T) /\ Total(PaymentOf, Drawn)' = Total(h, V)
  BY <1>1, <1>2
<1> QED
  BY <1>1, <1>2, <1>5, <1>6, <1>7, <1>8, <1>9

(* What is allocated is held by the trades, whatever the routes do.         *)
LEMMA Untouched ==
    ASSUME UNCHANGED position
    PROVE  /\ Total(PriceOf, Held)' = Total(PriceOf, Held)
           /\ Total(PaymentOf, Drawn)' = Total(PaymentOf, Drawn)
<1>1. PriceOf' = PriceOf /\ PaymentOf' = PaymentOf /\ Held' = Held /\ Drawn' = Drawn
  BY DEF PriceOf, PaymentOf, Held, Drawn
<1> QED
  BY <1>1

(* What a trade's step does to the book and to the money behind it: capital *)
(* leaves the book with no more money than it stood for.                    *)
Backing == balance + Total(PaymentOf, Drawn)
Leaves(capital, money) ==
    /\ capital \in Nat /\ money \in Nat /\ Scale * money <= capital
    /\ capital <= funded /\ funded' = funded - capital
    /\ Backing' >= Backing - money

LEMMA TradeMoves ==
    ASSUME LedgerInv, LedgerInv', HeldInv, NEW p \in Positions, Trade(p)
    PROVE  HeldInv' /\ \E capital, money : Leaves(capital, money)
<1>0. /\ TypeOK /\ TypeOK' /\ position[p] \in Position /\ position[p].price \in Nat
      /\ Payment(position[p].price) \in Nat /\ SumsTyped /\ balance \in Nat
      /\ Scale * Payment(position[p].price) <= position[p].price
      /\ funded \in Nat /\ allocated \in Nat /\ allocated <= funded /\ again \in Nat
      /\ position[p].drawn \in BOOLEAN
  BY Sums, PaymentWithin DEF LedgerInv, TypeOK, Position, WithinCommitment
<1>1. PICK a, c, a1, c1 :
          /\ a = Total(PriceOf, Held) /\ a1 = Total(PriceOf, Held)'
          /\ c = Total(PaymentOf, Drawn) /\ c1 = Total(PaymentOf, Drawn)'
  OBVIOUS
<1>2. a \in Nat /\ c \in Nat /\ allocated <= a /\ a <= allocated + again
  BY <1>0, <1>1 DEF SumsTyped, HeldInv, AllocatedIsHeld
<1>3. PICK k, m :
          /\ k = (IF position'[p].drawn THEN Payment(position'[p].price) ELSE 0)
          /\ m = (IF position[p].drawn THEN Payment(position[p].price) ELSE 0)
  OBVIOUS
<1>4. /\ m \in Nat
      /\ Backing = balance + c /\ Backing' = balance' + c1 /\ balance' \in Nat
  BY <1>0, <1>1, <1>3 DEF Backing, TypeOK
<1>5. ASSUME \A q \in Positions : q # p => position'[q] = position[q]
      PROVE  /\ a1 = a + (IF position'[p].state \in Holding THEN position'[p].price ELSE 0)
                       - (IF position[p].state \in Holding THEN position[p].price ELSE 0)
             /\ c1 = c + k - m
  BY <1>0, <1>1, <1>3, <1>5, OneMoves
<1>6. position[p].state \in Holding => position[p].price <= a
  <2>1. CASE p \in Held
    <3> PICK f, S : f = PriceOf /\ S = Held
      OBVIOUS
    <3>1. /\ IsFiniteSet(S) /\ p \in S /\ f[p] = position[p].price
          /\ \A q \in S : f[q] \in Nat
      BY <1>0, <2>1 DEF SumsTyped, Held, PriceOf
    <3>2. Total(f, S) = f[p] + Total(f, S \ {p})
      BY <3>1, TotalRemove
    <3>3. Total(f, S \ {p}) \in Nat
      BY <3>1, FS_RemoveElement, TotalNat
    <3> QED
      BY <1>0, <1>1, <1>2, <3>1, <3>2, <3>3
  <2> QED
    BY <2>1 DEF Held
<1>7. ASSUME \A q \in Positions : q # p => position'[q] = position[q],
             position'[p].state # "none",
             allocated' <= a1, a1 <= allocated' + again'
      PROVE  HeldInv'
  BY <1>1, <1>7 DEF HeldInv, AllocatedIsHeld
<1>8. ASSUME funded' = funded, balance' + c1 = balance + c PROVE Leaves(0, 0)
  BY <1>0, <1>2, <1>4, <1>8 DEF Leaves
<1>9. ASSUME NEW price \in Prices, Reserve(p, price)
      PROVE  HeldInv' /\ Leaves(0, 0)
  <2>1. /\ position[p].state = "none" /\ position'[p].state = "reserved"
        /\ position'[p].price = price /\ price \in Nat /\ balance' = balance
        /\ allocated' = allocated + price /\ funded' = funded /\ again' = again
        /\ ~position'[p].drawn /\ ~position[p].drawn
        /\ \A q \in Positions : q # p => position'[q] = position[q]
    BY <1>0, <1>9, TradeReserves DEF arc, HeldInv
  <2>2. a1 = a + price /\ c1 = c
    BY <1>2, <1>3, <1>5, <2>1 DEF Holding
  <2> QED
    BY <1>0, <1>2, <1>7, <1>8, <2>1, <2>2
<1>10. ASSUME Pay(p) \/ Hear(p) \/ Revive(p) PROVE HeldInv' /\ Leaves(0, 0)
  <2>1. /\ \A q \in Positions : q # p => position'[q] = position[q]
        /\ position'[p].price = position[p].price
        /\ UNCHANGED <<funded, allocated>>
    BY <1>0, <1>10, TradePays DEF row
  <2>2. position[p].state # "none"
    BY <1>10 DEF Pay, MayPay, Hear, Revive, Claims
  <2>3. CASE /\ position'[p].state = position[p].state /\ again' = again
             /\ ~position[p].drawn /\ position'[p].drawn
             /\ balance' = balance - Payment(position[p].price)
    <3>1. a1 = a /\ c1 = c + Payment(position[p].price)
      BY <1>0, <1>2, <1>3, <1>5, <2>1, <2>3
    <3> QED
      BY <1>0, <1>2, <1>7, <1>8, <2>1, <2>2, <2>3, <3>1
  <2>4. CASE /\ position'[p].drawn = position[p].drawn /\ balance' = balance
             /\ position'[p].state \in Holding
             /\ again' = again + (IF position[p].state \in Holding THEN 0
                                  ELSE position[p].price)
    <3>1. /\ c1 = c /\ position'[p].state # "none"
          /\ a1 = a + (IF position[p].state \in Holding THEN 0 ELSE position[p].price)
      BY <1>0, <1>2, <1>3, <1>4, <1>5, <2>1, <2>4 DEF Holding
    <3> QED
      BY <1>0, <1>2, <1>7, <1>8, <2>1, <2>4, <3>1
  <2> QED
    BY <1>0, <1>10, <2>3, <2>4, TradePays
<1>11. ASSUME NEW state, NEW drawn, Ends(p, state, drawn), position[p].state # "none"
       PROVE  HeldInv' /\ \E capital, money : Leaves(capital, money)
  <2>1. /\ \A q \in Positions : q # p => position'[q] = position[q]
        /\ position'[p].price = position[p].price /\ position'[p].drawn = drawn
        /\ Landed(p, state) \/ TornOff(p)
        /\ state \in PositionState \ Holding /\ state # "none"
    BY <1>0, <1>11, Written DEF Ends
  <2>2. /\ balance' = balance /\ position'[p].state # "none"
        /\ \/ /\ position'[p].state \notin Holding
              /\ again' = again + (IF position[p].state \in Holding THEN 0
                                   ELSE position[p].price)
           \/ /\ position'[p].state = position[p].state
              /\ again' = again + position[p].price
    BY <1>11, <2>1 DEF Landed, TornOff, Dies, arc
  <2>3. allocated' = IF allocated - position[p].price < 0 THEN 0
                     ELSE allocated - position[p].price
    BY <1>11 DEF Ends, Release, Retire, AtLeast0
  <2>4. allocated' <= a1 /\ a1 <= allocated' + again'
    <3>1. CASE position[p].state \in Holding /\ position'[p].state \notin Holding
      <4>1. a1 = a - position[p].price /\ again' = again
        BY <1>0, <1>2, <1>5, <2>1, <2>2, <3>1
      <4> QED
        BY <1>0, <1>2, <1>6, <2>3, <3>1, <4>1
    <3>2. CASE ~(position[p].state \in Holding /\ position'[p].state \notin Holding)
      <4>1. a1 = a /\ again' = again + position[p].price
        BY <1>0, <1>2, <1>5, <2>1, <2>2, <3>2
      <4> QED
        BY <1>0, <1>2, <2>3, <4>1
    <3> QED
      BY <3>1, <3>2
  <2>5. HeldInv'
    BY <1>7, <2>1, <2>2, <2>4
  <2>6. CASE Release(p) /\ drawn = position[p].drawn
    <3>1. c1 = c
      BY <1>2, <1>3, <1>4, <1>5, <2>1, <2>6
    <3> QED
      BY <1>8, <2>2, <2>5, <2>6, <3>1 DEF Release
  <2>7. CASE Retire(p) /\ drawn = (position[p].drawn /\ funded < position[p].price)
    <3>1. funded' = IF funded - position[p].price < 0 THEN 0
                    ELSE funded - position[p].price
      BY <2>7 DEF Retire, AtLeast0
    <3>2. CASE funded < position[p].price
      <4>1. k = m
        BY <1>3, <2>1, <2>7, <3>2
      <4>2. Backing' = Backing /\ funded' = funded - funded
        BY <1>0, <1>2, <1>4, <1>5, <2>1, <2>2, <3>1, <3>2, <4>1
      <4>3. Leaves(funded, 0)
        BY <1>0, <1>2, <1>4, <4>2 DEF Leaves
      <4> QED
        BY <2>5, <4>3
    <3>3. CASE ~(funded < position[p].price)
      <4>1. k = 0
        BY <1>3, <2>1, <2>7, <3>3
      <4>2. Backing' = Backing - m /\ m <= Payment(position[p].price)
        BY <1>0, <1>2, <1>3, <1>4, <1>5, <2>1, <2>2, <4>1
      <4>3. Leaves(position[p].price, Payment(position[p].price))
        BY <1>0, <1>2, <1>4, <3>1, <3>3, <4>2 DEF Leaves
      <4> QED
        BY <2>5, <4>3
    <3> QED
      BY <3>2, <3>3
  <2> QED
    BY <1>11, <2>6, <2>7 DEF Ends
<1>12. ASSUME \/ Mature(p) \/ WriteOff(p)
              \/ \E state \in {"failed", "unwound"} : GiveBack(p, state)
       PROVE  position[p].state # "none"
  BY <1>12 DEF Mature, WriteOff, GiveBack, MayFree
<1> QED
  BY <1>0, <1>9, <1>10, <1>11, <1>12, TradeEnds DEF Trade

LEMMA NextHeld ==
    ASSUME LedgerInv, HeldInv, [Next]_vars
    PROVE  HeldInv'
<1>0. LedgerInv'
  BY NextLedger DEF Kept, LedgerInv, RowGood
<1>1. ASSUME NEW p \in Positions, Trade(p) PROVE HeldInv'
  BY <1>0, <1>1, TradeMoves
<1>2. ASSUME \A p \in Positions : ~Trade(p)
      PROVE  allocated' = allocated /\ position' = position /\ again' = again
  <2>1. \A n, firm : FundMandate(n, firm) => allocated' = allocated
    BY DEF FundMandate, row
  <2> QED
    BY <1>2, <2>1 DEF Next, Route, Create, AskFund, AskWithdraw, BuyerRead, BuyerUnread,
       Registered, NotRegistered, BackingRead, BackingUnread, FundBacked, FundShort,
       PlanRefused, PlanRead, BookRefused, BookOnly, BookRelease, ReleaseAnswered, Withdraw,
       Arc, ReleaseMined, ReleaseReverted, ReleaseTimesOut, MinedLate, Deposit, Crash,
       row, trades, vars
<1>3. ASSUME allocated' = allocated, position' = position, again' = again PROVE HeldInv'
  BY <1>3, Untouched DEF HeldInv, AllocatedIsHeld
<1> QED
  BY <1>1, <1>2, <1>3

LEMMA InitHeld == Init => HeldInv
<1> SUFFICES ASSUME Init PROVE HeldInv
  OBVIOUS
<1>1. Held = {} /\ allocated = 0 /\ again = 0
  BY DEF Init, Held, Holding
<1>2. Total(PriceOf, {}) = 0
  BY TotalEmpty
<1>3. \A p \in Positions : ~position[p].drawn
  BY DEF Init
<1> QED
  BY <1>1, <1>2, <1>3 DEF HeldInv, AllocatedIsHeld

(* However trades, fundings and withdrawals interleave, and whatever crash   *)
(* falls between a release and the row of its trade, what the mandate calls  *)
(* allocated is what its trades hold, short by no more than was freed for    *)
(* trades that were holding nothing: a failed trade unwound after all, a     *)
(* release repeated after a crash or by a second request.                    *)
THEOREM AllocationIsHeld == Spec => []AllocatedIsHeld
<1>1. LedgerInv /\ HeldInv /\ [Next]_vars => HeldInv'
  BY NextHeld
<1>2. HeldInv => AllocatedIsHeld
  BY DEF HeldInv
<1> QED
  BY <1>1, <1>2, InitHeld, AlwaysLedger, PTL DEF Spec

-----------------------------------------------------------------------------
(* The vault behind the book, for a mandate served one request at a time.   *)

OneAtATime == Late = FALSE /\ \A r \in Requests, q \in Requests : r = q

Firm == status \in {"active", "exhausted"}

(* A funding call read a commitment that only fell since, and knows whether *)
(* the bid is firm.                                                         *)
FundingKnows(r) ==
    job[r].pc \in {"buyerOf", "register", "backing", "backed", "short"} =>
        /\ funded <= job[r].committed
        /\ AlreadyFirm(r) <=> Firm
FundingBacked(r) ==
    job[r].pc = "backed" => Required(funded + job[r].amount) <= Backing

(* A withdrawal takes from a firm mandate no more than leaves the smaller   *)
(* book backed, before the book moves and after.                            *)
PlanBacked(r) ==
    Firm /\ job[r].pc \in {"plan", "book"} /\ job[r].amount <= funded =>
        Required(funded - job[r].amount)
            + Releasable(job[r].committed, job[r].amount) <= Backing
PlanKept(r) ==
    job[r].pc = "book" =>
        job[r].usdc = IF job[r].deposited = 0 THEN 0
                      ELSE Releasable(job[r].committed, job[r].amount)
ReleaseBacked(r) ==
    Firm /\ job[r].pc = "release" /\ job[r].heard = "nothing" =>
        Required(funded) + job[r].usdc <= Backing

JobBacked(r) ==
    /\ pending[r] = 0
    /\ FundingKnows(r) /\ FundingBacked(r)
    /\ PlanBacked(r) /\ PlanKept(r) /\ ReleaseBacked(r)

BackedInv ==
    HeldInv /\ BookWithinVault /\ \A r \in Requests : JobBacked(r)

(* A request that is not under way has nothing to keep.                     *)
LEMMA IdleBacked ==
    ASSUME NEW r \in Requests, job[r].pc \in {"idle", "open"}, pending[r] = 0
    PROVE  JobBacked(r)
BY DEF JobBacked, FundingKnows, FundingBacked, PlanBacked, PlanKept, ReleaseBacked

Amounting(r) ==
    /\ funded \in Nat /\ balance \in Nat /\ Backing \in Nat /\ balance <= Backing
    /\ job[r].amount \in Nat /\ job[r].committed \in Nat
    /\ job[r].usdc \in Nat /\ job[r].deposited \in Nat
    /\ Releasable(job[r].committed, job[r].amount) \in Nat
    /\ job \in [Requests -> Job] /\ pending \in [Requests -> Nat]

LEMMA Amounts0 ==
    ASSUME LedgerInv, NEW r \in Requests
    PROVE  Amounting(r)
<1>1. /\ TypeOK /\ job[r] \in Job /\ SumsTyped
  BY Sums DEF LedgerInv, TypeOK
<1>2. /\ job[r].amount \in Nat /\ job[r].committed \in Nat
      /\ job[r].usdc \in Nat /\ job[r].deposited \in Nat
  BY <1>1 DEF Job
<1>3. /\ funded \in Nat /\ balance \in Nat /\ job \in [Requests -> Job]
      /\ pending \in [Requests -> Nat]
  BY <1>1 DEF TypeOK
<1>4. Backing \in Nat /\ balance <= Backing
  BY <1>1, <1>3 DEF Backing, SumsTyped
<1> QED
  BY <1>2, <1>3, <1>4, ReleasableIs DEF Amounting

SameJob(r) ==
    /\ job'[r].pc = job[r].pc /\ job'[r].heard = job[r].heard
    /\ job'[r].amount = job[r].amount /\ job'[r].committed = job[r].committed
    /\ job'[r].seen = job[r].seen /\ job'[r].usdc = job[r].usdc
    /\ job'[r].deposited = job[r].deposited

(* Capital that leaves the book together with no more money than it stood   *)
(* for leaves every request with what it keeps.                             *)
LEMMA CapitalLeaves ==
    ASSUME LedgerInv, BookWithinVault, NEW p \in Nat, NEW k \in Nat, Scale * k <= p,
           p <= funded, funded' = funded - p, Firm' <=> Firm,
           Backing' \in Nat, Backing' >= Backing - k
    PROVE  /\ BookWithinVault'
           /\ \A r \in Requests :
                  JobBacked(r) /\ SameJob(r) /\ pending'[r] = 0 => JobBacked(r)'
<1>0. funded \in Nat /\ Backing \in Nat
  <2>1. TypeOK /\ SumsTyped
    BY Sums DEF LedgerInv
  <2> QED
    BY <2>1 DEF TypeOK, SumsTyped, Backing
<1>1. \A n \in Int : /\ Required(n - p) \in Int /\ Required(n) \in Int
                     /\ Required(n - p) + k <= Required(n)
  <2> TAKE n \in Int
  <2>1. n - p \in Int /\ p \in Int /\ k \in Int
    OBVIOUS
  <2>2. Required(n - p) \in Int /\ Required(n) \in Int
    BY <2>1, Conversions
  <2>3. Required(n - p) + k <= Required(n)
    BY <2>1, RequiredLess
  <2> QED
    BY <2>2, <2>3
<1>2. BookWithinVault'
  <2>1. Firm => Required(funded) <= Backing
    BY DEF BookWithinVault, Firm, Backing
  <2>2. Firm' => Required(funded') <= Backing'
    BY <1>0, <1>1, <2>1
  <2> QED
    BY <2>2 DEF BookWithinVault, Firm, Backing
<1>3. ASSUME NEW r \in Requests, JobBacked(r), SameJob(r), pending'[r] = 0
      PROVE  JobBacked(r)'
  <2>0. Amounting(r)
    BY Amounts0
  <2>1. FundingKnows(r)'
    BY <1>0, <1>3, <2>0 DEF JobBacked, FundingKnows, AlreadyFirm, SameJob, Amounting
  <2>2. FundingBacked(r)'
    <3> SUFFICES ASSUME job[r].pc = "backed"
                 PROVE  Required(funded' + job[r].amount) <= Backing'
      BY <1>3 DEF FundingBacked, SameJob
    <3>1. Required(funded + job[r].amount) <= Backing
      BY <1>3 DEF JobBacked, FundingBacked
    <3>2. /\ funded' + job[r].amount = (funded + job[r].amount) - p
          /\ funded + job[r].amount \in Int
      BY <1>0, <2>0 DEF Amounting
    <3> QED
      BY <1>0, <1>1, <3>1, <3>2
  <2>3. PlanBacked(r)'
    <3> SUFFICES ASSUME Firm', job[r].pc \in {"plan", "book"}, job[r].amount <= funded'
                 PROVE  Required(funded' - job[r].amount)
                            + Releasable(job[r].committed, job[r].amount) <= Backing'
      BY <1>3 DEF PlanBacked, SameJob
    <3>1. Required(funded - job[r].amount)
              + Releasable(job[r].committed, job[r].amount) <= Backing
      BY <1>0, <1>3, <2>0 DEF JobBacked, PlanBacked, Amounting
    <3>2. /\ funded' - job[r].amount = (funded - job[r].amount) - p
          /\ funded - job[r].amount \in Int
      BY <1>0, <2>0 DEF Amounting
    <3>3. Releasable(job[r].committed, job[r].amount) \in Nat
      BY <2>0 DEF Amounting
    <3> QED
      BY <1>0, <1>1, <3>1, <3>2, <3>3
  <2>4. PlanKept(r)'
    BY <1>3 DEF JobBacked, PlanKept, SameJob
  <2>5. ReleaseBacked(r)'
    <3> SUFFICES ASSUME Firm', job[r].pc = "release", job[r].heard = "nothing"
                 PROVE  Required(funded') + job[r].usdc <= Backing'
      BY <1>3 DEF ReleaseBacked, SameJob
    <3>1. Required(funded) + job[r].usdc <= Backing
      BY <1>3 DEF JobBacked, ReleaseBacked
    <3>2. job[r].usdc \in Nat
      BY <2>0 DEF Amounting
    <3> QED
      BY <1>0, <1>1, <3>1, <3>2
  <2> QED
    BY <1>3, <2>1, <2>2, <2>3, <2>4, <2>5 DEF JobBacked
<1> QED
  BY <1>2, <1>3

(* The next operation of the one request there is.                          *)
LEMMA RouteBacked ==
    ASSUME OneAtATime, LedgerInv, LedgerInv', BackedInv, NEW r \in Requests, Route(r)
    PROVE  BookWithinVault' /\ JobBacked(r)'
<1>0. /\ Amounting(r) /\ JobBacked(r) /\ BookWithinVault /\ pending[r] = 0
      /\ job \in [Requests -> Job]
  BY Amounts0 DEF BackedInv, JobBacked, Amounting
<1>1. pending' = pending /\ pending'[r] = 0 /\ Backing' = Backing /\ balance' = balance
  <2>1. pending' = pending /\ balance' = balance /\ position' = position
    BY DEF Route, Create, AskFund, AskWithdraw, BuyerRead, BuyerUnread, Registered,
           NotRegistered, BackingRead, BackingUnread, FundBacked, FundShort,
           PlanRefused, PlanRead, BookRefused, BookOnly, BookRelease,
           ReleaseAnswered, arc, trades
  <2> QED
    BY <1>0, <2>1, Untouched DEF Backing
<1>2. UNCHANGED row => BookWithinVault'
  BY <1>0, <1>1 DEF BookWithinVault, Backing, row
<1>3. End(r) => JobBacked(r)'
  <2>1. End(r) => job'[r].pc = "idle"
    BY <1>0 DEF End, IdleJob
  <2> QED
    BY <1>1, <2>1 DEF JobBacked, FundingKnows, FundingBacked, PlanBacked, PlanKept,
                      ReleaseBacked
<1>4. CASE Create(r)
  <2>1. job'[r].pc = "open" /\ status' = "draft"
    BY <1>0, <1>4 DEF Create, Begin, IdleJob
  <2> QED
    BY <1>1, <2>1 DEF JobBacked, FundingKnows, FundingBacked, PlanBacked, PlanKept,
                      ReleaseBacked, BookWithinVault
<1>5. ASSUME NEW n \in Amounts, AskFund(r, n) PROVE BookWithinVault' /\ JobBacked(r)'
  <2>1. /\ job'[r].pc = "buyerOf" /\ job'[r].committed = funded /\ job'[r].seen = status
        /\ UNCHANGED row
    BY <1>0, <1>5 DEF AskFund, Begin, IdleJob
  <2> QED
    BY <1>0, <1>1, <1>2, <2>1
    DEF JobBacked, FundingKnows, FundingBacked, PlanBacked, PlanKept, ReleaseBacked,
        AlreadyFirm, Firm, row, Amounting
<1>6. ASSUME NEW n \in (Amounts \ {0}) \cup {Free}, AskWithdraw(r, n)
      PROVE  BookWithinVault' /\ JobBacked(r)'
  <2>1. /\ job'[r].pc = "plan" /\ job'[r].committed = funded /\ job'[r].amount = n
        /\ UNCHANGED row
    BY <1>0, <1>6 DEF AskWithdraw, Begin, IdleJob
  <2>2. n \in Nat
    BY FreeWithin DEF LedgerInv
  <2>3. n <= funded => Required(funded - n) + Releasable(funded, n) = Required(funded)
    BY <1>0, <2>2, ReleasableIs DEF Amounting
  <2>4. PlanBacked(r)'
    BY <1>0, <1>1, <2>1, <2>3 DEF PlanBacked, BookWithinVault, Firm, Backing, row
  <2> QED
    BY <1>1, <1>2, <2>1, <2>4
    DEF JobBacked, FundingKnows, FundingBacked, PlanKept, ReleaseBacked
<1>7. ASSUME NEW pc \in {"register", "backing", "short"}, GoOn(r, pc), UNCHANGED row,
             job[r].pc \in {"buyerOf", "register", "backing"}
      PROVE  BookWithinVault' /\ JobBacked(r)'
  <2>1. /\ job'[r].pc = pc /\ job'[r].committed = job[r].committed
        /\ job'[r].seen = job[r].seen
    BY <1>0, <1>7 DEF GoOn, Job
  <2> QED
    BY <1>0, <1>1, <1>2, <1>7, <2>1
    DEF JobBacked, FundingKnows, FundingBacked, PlanBacked, PlanKept, ReleaseBacked,
        AlreadyFirm, Firm, row
<1>8. CASE BuyerRead(r) \/ BuyerUnread(r) \/ Registered(r) \/ NotRegistered(r)
           \/ BackingUnread(r) \/ PlanRefused(r) \/ BookRefused(r)
  BY <1>2, <1>3, <1>7, <1>8
  DEF BuyerRead, BuyerUnread, Registered, NotRegistered, BackingUnread, Registers,
      PlanRefused, BookRefused, At
<1>9. CASE BackingRead(r)
  <2> DEFINE backed == Required(job[r].committed + job[r].amount) <= balance
  <2>1. GoOn(r, IF backed THEN "backed" ELSE "short") /\ UNCHANGED row
        /\ job[r].pc = "backing"
    BY <1>9 DEF BackingRead, At
  <2>2. CASE ~backed
    BY <1>7, <2>1, <2>2
  <2>3. CASE backed
    <3>1. /\ job'[r].pc = "backed" /\ job'[r].committed = job[r].committed
          /\ job'[r].seen = job[r].seen /\ job'[r].amount = job[r].amount
      BY <1>0, <2>1, <2>3 DEF GoOn, Job
    <3>2. funded <= job[r].committed
      BY <1>0, <2>1 DEF JobBacked, FundingKnows
    <3>3. Required(funded + job[r].amount) <= Required(job[r].committed + job[r].amount)
      BY <1>0, <3>2, RequiredGrows DEF Amounting
    <3>4. /\ Required(funded + job[r].amount) \in Int
          /\ Required(job[r].committed + job[r].amount) \in Int
      <4>1. /\ funded + job[r].amount \in Int
            /\ job[r].committed + job[r].amount \in Int
        BY <1>0 DEF Amounting
      <4> QED
        BY <4>1, RequiredInt
    <3>5. Required(funded + job[r].amount) <= Backing
      BY <1>0, <2>3, <3>3, <3>4 DEF Amounting
    <3> QED
      BY <1>0, <1>1, <1>2, <2>1, <3>1, <3>5
      DEF JobBacked, FundingKnows, FundingBacked, PlanBacked, PlanKept, ReleaseBacked,
          AlreadyFirm, Firm, row
  <2> QED
    BY <2>2, <2>3
<1>10. CASE FundBacked(r)
  <2>1. BookWithinVault'
    <3>1. CASE UNCHANGED row
      BY <1>2, <3>1
    <3>2. CASE funded' = funded + job[r].amount
      BY <1>0, <1>1, <1>10, <3>2
      DEF FundBacked, At, JobBacked, FundingBacked, BookWithinVault, Backing
    <3> QED
      BY <1>10, <3>1, <3>2 DEF FundBacked, FundMandate
  <2> QED
    BY <1>3, <1>10, <2>1 DEF FundBacked
<1>11. CASE FundShort(r)
  <2>1. BookWithinVault'
    <3>1. CASE UNCHANGED row
      BY <1>2, <3>1
    <3>2. CASE ~UNCHANGED row
      <4>1. ~Firm
        BY <1>0, <1>11, <3>2 DEF FundShort, At, JobBacked, FundingKnows
      <4>2. status' = StatusFunded(funded + job[r].amount, FALSE)
        BY <1>11, <3>2 DEF FundShort, FundMandate
      <4>3. status' \notin {"active", "exhausted"}
        BY <4>1, <4>2 DEF StatusFunded, Firm
      <4> QED
        BY <4>3 DEF BookWithinVault
    <3> QED
      BY <3>1, <3>2
  <2> QED
    BY <1>3, <1>11, <2>1 DEF FundShort
<1>12. CASE PlanRead(r)
  <2>1. /\ job'[r].pc = "book" /\ job'[r].amount = job[r].amount
        /\ job'[r].committed = job[r].committed /\ job'[r].deposited = balance
        /\ job'[r].usdc = IF balance = 0 THEN 0
                          ELSE Releasable(job[r].committed, job[r].amount)
        /\ job[r].pc = "plan" /\ UNCHANGED row
    BY <1>0, <1>12 DEF PlanRead, Job, At
  <2>2. PlanBacked(r)'
    BY <1>0, <1>1, <2>1 DEF JobBacked, PlanBacked, Firm, row
  <2> QED
    BY <1>1, <1>2, <2>1, <2>2
    DEF JobBacked, FundingKnows, FundingBacked, PlanKept, ReleaseBacked
<1>13. ASSUME At(r, "book"), Withdraw(job[r].amount)
       PROVE  /\ funded' = funded - job[r].amount
              /\ Firm => Required(funded')
                            + Releasable(job[r].committed, job[r].amount) <= Backing
              /\ Firm => Required(funded') <= Backing
  <2>1. funded' = funded - job[r].amount /\ job[r].amount <= funded
    BY <1>0, <1>13, FreeWithin DEF Withdraw, Amounting, LedgerInv
  <2>2. Firm => Required(funded')
                   + Releasable(job[r].committed, job[r].amount) <= Backing
    BY <1>0, <1>13, <2>1 DEF JobBacked, PlanBacked, At
  <2>3. Required(funded') \in Int
    <3>1. funded' \in Int
      BY <1>0, <2>1 DEF Amounting
    <3> QED
      BY <3>1, RequiredInt
  <2> QED
    BY <1>0, <2>1, <2>2, <2>3 DEF Amounting
<1>14. CASE BookOnly(r)
  <2>1. Firm' => Firm
    BY <1>14 DEF BookOnly, Firm
  <2> QED
    BY <1>1, <1>3, <1>13, <1>14, <2>1 DEF BookOnly, BookWithinVault, Firm, Backing
<1>15. CASE BookRelease(r)
  <2>1. /\ job'[r].pc = "release" /\ job'[r].usdc = job[r].usdc
        /\ job[r].pc = "book" /\ job[r].deposited > 0 /\ status' = status
    BY <1>0, <1>15 DEF BookRelease, Job, At
  <2>2. job[r].usdc = Releasable(job[r].committed, job[r].amount)
    BY <1>0, <2>1 DEF JobBacked, PlanKept
  <2>3. ReleaseBacked(r)'
    BY <1>1, <1>13, <1>15, <2>1, <2>2 DEF BookRelease, ReleaseBacked, Firm
  <2>4. BookWithinVault'
    BY <1>1, <1>13, <1>15, <2>1 DEF BookRelease, BookWithinVault, Firm, Backing
  <2> QED
    BY <1>1, <2>1, <2>3, <2>4
    DEF JobBacked, FundingKnows, FundingBacked, PlanBacked, PlanKept
<1>16. CASE ReleaseAnswered(r)
  <2>1. BookWithinVault'
    BY <1>0, <1>1, <1>16 DEF ReleaseAnswered, BookWithinVault, Backing
  <2> QED
    BY <1>3, <1>16, <2>1 DEF ReleaseAnswered
<1> QED
  BY <1>4, <1>5, <1>6, <1>8, <1>9, <1>10, <1>11, <1>12, <1>14, <1>15, <1>16 DEF Route

LEMMA ArcBacked ==
    ASSUME OneAtATime, LedgerInv, LedgerInv', BackedInv, NEW r \in Requests, Arc(r)
    PROVE  BookWithinVault' /\ JobBacked(r)'
<1>0. /\ Amounting(r) /\ JobBacked(r) /\ BookWithinVault /\ pending[r] = 0
      /\ job \in [Requests -> Job] /\ Late = FALSE
  BY Amounts0 DEF BackedInv, JobBacked, Amounting, OneAtATime
<1>1. ReleaseMined(r) \/ ReleaseReverted(r)
  BY <1>0 DEF Arc, ReleaseTimesOut, MinedLate
<1>2. /\ InFlight(r) /\ UNCHANGED <<row, position, pending>>
      /\ Hears(r, "ok") \/ Hears(r, "error")
  BY <1>1 DEF ReleaseMined, ReleaseReverted, arc, trades
<1>3. JobBacked(r)'
  <2>1. job'[r].pc = "release" /\ job'[r].heard # "nothing" /\ pending'[r] = 0
    BY <1>0, <1>2 DEF InFlight, At, Hears, Job
  <2> QED
    BY <2>1 DEF JobBacked, FundingKnows, FundingBacked, PlanBacked, PlanKept,
                ReleaseBacked
<1>4. BookWithinVault'
  <2>1. CASE ReleaseMined(r)
    <3>1. balance' = balance - job[r].usdc
      BY <2>1 DEF ReleaseMined, PayBuyer
    <3>2. Firm => Required(funded) + job[r].usdc <= Backing
      BY <1>0, <1>2 DEF JobBacked, ReleaseBacked, InFlight, At
    <3>3. Total(PaymentOf, Drawn)' = Total(PaymentOf, Drawn)
          /\ Total(PaymentOf, Drawn) \in Nat
      BY <1>2, Untouched, Sums DEF SumsTyped, LedgerInv
    <3>4. Required(funded) \in Int
      BY <1>0, RequiredInt DEF Amounting
    <3>5. Firm' => Required(funded') <= balance' + Total(PaymentOf, Drawn)'
      BY <1>0, <1>2, <3>1, <3>2, <3>3, <3>4 DEF Firm, row, Amounting, Backing
    <3> QED
      BY <3>5 DEF BookWithinVault, Firm
  <2>2. CASE ReleaseReverted(r)
    BY <1>0, <1>2, <2>2, Untouched DEF ReleaseReverted, arc, row, BookWithinVault
  <2> QED
    BY <1>1, <2>1, <2>2
<1> QED
  BY <1>3, <1>4

(* A dead process has nothing under way, and nothing is left to mine late.  *)
LEMMA DiesBacked ==
    ASSUME OneAtATime, BackedInv, Dies
    PROVE  \A r \in Requests : JobBacked(r)'
<1> SUFFICES ASSUME NEW r \in Requests PROVE JobBacked(r)'
  OBVIOUS
<1>1. job'[r].pc = "idle" /\ pending'[r] = 0
  BY DEF Dies, IdleJob, OneAtATime, BackedInv, JobBacked
<1> QED
  BY <1>1 DEF JobBacked, FundingKnows, FundingBacked, PlanBacked, PlanKept,
              ReleaseBacked

LEMMA NextBacked ==
    ASSUME OneAtATime, LedgerInv, BackedInv, [Next]_vars
    PROVE  BackedInv'
<1>0. /\ LedgerInv' /\ HeldInv' /\ HeldInv /\ BookWithinVault
      /\ funded \in Nat /\ Backing \in Nat /\ Backing' \in Nat /\ TypeOK
  <2>1. LedgerInv' /\ HeldInv'
    BY NextLedger, NextHeld DEF Kept, LedgerInv, RowGood, BackedInv
  <2>2. SumsTyped' /\ TypeOK'
    BY <2>1, Sums, PTL DEF LedgerInv
  <2>3. SumsTyped /\ TypeOK
    BY Sums DEF LedgerInv
  <2> QED
    BY <2>1, <2>2, <2>3 DEF SumsTyped, TypeOK, Backing, BackedInv
<1> SUFFICES BookWithinVault' /\ \A r \in Requests : JobBacked(r)'
  BY <1>0 DEF BackedInv
<1>1. ASSUME NEW r \in Requests, Route(r) \/ Arc(r)
      PROVE  BookWithinVault' /\ \A q \in Requests : JobBacked(q)'
  <2>1. BookWithinVault' /\ JobBacked(r)'
    BY <1>0, <1>1, RouteBacked, ArcBacked
  <2>2. \A q \in Requests : q = r
    BY DEF OneAtATime
  <2> QED
    BY <2>1, <2>2
(* Where only money or capital moves, every request keeps what it knew.     *)
<1>2. ASSUME NEW p \in Nat, NEW k \in Nat, Scale * k <= p, p <= funded,
             funded' = funded - p, Firm' <=> Firm, Backing' >= Backing - k,
             pending' = pending, \A r \in Requests : SameJob(r)
      PROVE  BookWithinVault' /\ \A r \in Requests : JobBacked(r)'
  <2>1. BookWithinVault' /\ \A r \in Requests :
            JobBacked(r) /\ SameJob(r) /\ pending'[r] = 0 => JobBacked(r)'
    BY ONLY LedgerInv, <1>0, <1>2, CapitalLeaves
  <2>2. \A r \in Requests : JobBacked(r) /\ pending'[r] = 0
    BY <1>2 DEF BackedInv, JobBacked
  <2> QED
    BY <1>2, <2>1, <2>2
<1>3. ASSUME NEW n \in 1..Wealth, Deposit(n)
      PROVE  BookWithinVault' /\ \A r \in Requests : JobBacked(r)'
  <2>1. \A r \in Requests : SameJob(r)
    BY <1>0, <1>3 DEF Deposit, SameJob, TypeOK, Job
  <2>2. Backing' >= Backing
    <3>1. Total(PaymentOf, Drawn)' = Total(PaymentOf, Drawn) /\ SumsTyped
      BY <1>0, <1>3, Untouched, Sums DEF Deposit, trades
    <3> QED
      BY <1>0, <1>3, <3>1 DEF Deposit, Backing, TypeOK, SumsTyped
  <2>3. funded' = funded /\ (Firm' <=> Firm) /\ pending' = pending
    BY <1>3 DEF Deposit, row, Firm
  <2>4. /\ 0 \in Nat /\ Scale * 0 <= 0 /\ 0 <= funded /\ funded' = funded - 0
        /\ Backing' >= Backing - 0
    BY <1>0, <2>2, <2>3
  <2> QED
    BY <1>2, <2>1, <2>3, <2>4
<1>4. ASSUME NEW p \in Positions, Trade(p)
      PROVE  BookWithinVault' /\ \A r \in Requests : JobBacked(r)'
  <2>1. PICK capital, money : Leaves(capital, money)
    BY <1>0, <1>4, TradeMoves
  <2>2. Firm' <=> Firm
    BY <1>4 DEF Trade, Reserve, Pay, Hear, Revive, Claims, GiveBack, Mature, WriteOff,
                Release, Retire, Reopened, Firm, row
  <2>3. CASE pending' = pending /\ job' = job
    <3>1. \A r \in Requests : SameJob(r)
      BY <2>3 DEF SameJob
    <3> QED
      BY <1>2, <2>1, <2>2, <2>3, <3>1 DEF Leaves
  <2>4. CASE Dies
    <3>1. BookWithinVault'
      BY ONLY LedgerInv, <1>0, <2>1, <2>2, CapitalLeaves DEF Leaves
    <3> QED
      BY <2>4, <3>1, DiesBacked
  <2>5. (pending' = pending /\ job' = job) \/ Dies
    BY <1>4 DEF Trade, Reserve, Pay, Hear, Revive, Claims, GiveBack, Mature, WriteOff,
                Writes, row, arc
  <2> QED
    BY <2>3, <2>4, <2>5
<1>5. CASE Crash
  <2>1. BookWithinVault'
    BY <1>0, <1>5, Untouched DEF Crash, Dies, BookWithinVault, row, trades
  <2> QED
    BY <1>5, <2>1, DiesBacked DEF Crash
<1>6. CASE UNCHANGED vars
  <2>1. /\ \A r \in Requests : SameJob(r)
        /\ Backing' = Backing /\ pending' = pending /\ funded' = funded
        /\ Firm' <=> Firm
    BY <1>6, Untouched DEF vars, SameJob, Backing, Firm
  <2>2. /\ 0 \in Nat /\ Scale * 0 <= 0 /\ 0 <= funded /\ funded' = funded - 0
        /\ Backing' >= Backing - 0
    BY <1>0, <2>1
  <2> QED
    BY <1>2, <2>1, <2>2
<1> QED
  BY <1>1, <1>3, <1>4, <1>5, <1>6 DEF Next

LEMMA InitBacked == Init => BackedInv
<1> SUFFICES ASSUME Init PROVE BackedInv
  OBVIOUS
<1>1. BookWithinVault
  BY DEF Init, BookWithinVault
<1>2. ASSUME NEW r \in Requests PROVE JobBacked(r)
  BY DEF Init, IdleJob, JobBacked, FundingKnows, FundingBacked, PlanBacked, PlanKept,
         ReleaseBacked
<1> QED
  BY <1>1, <1>2, InitHeld DEF BackedInv

LEMMA AlwaysBacked ==
    ASSUME OneAtATime
    PROVE  Spec => [](LedgerInv /\ BackedInv)
<1>1. LedgerInv /\ BackedInv /\ [Next]_vars => BackedInv'
  BY NextBacked
<1> QED
  BY <1>1, InitBacked, InitLedger, AlwaysLedger, PTL DEF Spec

(* One request served at a time, and none given up on while its transaction *)
(* may still be mined: whatever is deposited, traded, paid out, retired or  *)
(* taken back, and however amounts round, what a firm mandate has committed *)
(* stays backed by the vault and what the vault paid out of it.             *)
THEOREM VaultBacksTheBook ==
    ASSUME OneAtATime
    PROVE  Spec => []BookWithinVault
BY AlwaysBacked, PTL DEF BackedInv

(* And what it still offers is in the vault, but for capital freed again and *)
(* for payouts nobody heard of.                                              *)
THEOREM QuotesAreBacked ==
    ASSUME OneAtATime
    PROVE  Spec => []QuotedIsBacked
<1>1. LedgerInv /\ BackedInv => QuotedIsBacked
  <2> SUFFICES ASSUME LedgerInv, BackedInv, status = "active"
               PROVE  Required(AtLeast0(Free - again))
                          <= balance + Total(PaymentOf, Unheard)
    BY DEF QuotedIsBacked
  <2>1. TypeOK /\ SumsTyped /\ funded \in Nat /\ allocated \in Nat /\ balance \in Nat
        /\ allocated <= funded /\ again \in Nat
    BY Sums DEF LedgerInv, TypeOK, WithinCommitment
  <2>2. PICK c, d, e, s : /\ c = Total(PaymentOf, Drawn) /\ d = Total(PaymentOf, Held)
                          /\ e = Total(PaymentOf, Unheard) /\ s = Total(PriceOf, Held)
    OBVIOUS
  <2>3. /\ c \in Nat /\ d \in Nat /\ e \in Nat /\ s \in Nat
        /\ Scale * d <= s /\ c <= e + d /\ s <= allocated + again
    BY <2>1, <2>2 DEF SumsTyped, BackedInv, HeldInv, AllocatedIsHeld
  <2>4. Required(funded) <= balance + c
    BY <2>2 DEF BackedInv, BookWithinVault
  <2>5. Free = funded - allocated
    BY <2>1 DEF Free, AtLeast0
  <2>6. Required(funded - s) + d <= Required(funded)
    <3>1. funded \in Int /\ s \in Int /\ d \in Int
      BY <2>1, <2>3
    <3> QED
      BY ONLY <2>3, <3>1, RequiredLess
  <2>7. /\ funded - s \in Int /\ Required(funded - s) \in Int /\ Required(funded) \in Int
        /\ Free - again \in Int
    <3>1. funded - s \in Int /\ funded \in Int /\ Free - again \in Int
      BY <2>1, <2>3, <2>5
    <3> QED
      BY <3>1, RequiredInt
  <2>8. CASE Free - again >= 0
    <3>1. AtLeast0(Free - again) = Free - again /\ Free - again <= funded - s
      BY <2>1, <2>3, <2>5, <2>7, <2>8 DEF AtLeast0
    <3>2. Required(Free - again) <= Required(funded - s)
      BY <2>7, <3>1, RequiredGrows
    <3>3. Required(Free - again) \in Int
      BY <2>7, RequiredInt
    <3> QED
      BY <2>1, <2>2, <2>3, <2>4, <2>6, <2>7, <3>1, <3>2, <3>3
  <2>9. CASE ~(Free - again >= 0)
    <3>1. AtLeast0(Free - again) = 0
      BY <2>7, <2>9 DEF AtLeast0
    <3>2. Required(0) = 0
      BY RequiredNothing
    <3> QED
      BY <2>1, <2>2, <2>3, <3>1, <3>2
  <2> QED
    BY <2>8, <2>9
<1> QED
  BY <1>1, AlwaysBacked, PTL
=============================================================================

------------------------------ MODULE TwoLegs ------------------------------
(***************************************************************************)
(* The book on Hedera and the vault on Arc, and the relay between them.    *)
(* Neither chain reads the other: a deposit raises the book's count when   *)
(* the attester relays it, an authorisation lowers it when it is issued    *)
(* and moves money when it is relayed.  The relay is honest and nothing    *)
(* else: it takes its time, skips about and repeats itself.                *)
(***************************************************************************)
EXTENDS MandateBook

(* References are numbers, minted in order.                                 *)
ASSUME LegsAssumption == Null \notin Mandates /\ Refs \subseteq Nat

VARIABLES
    fund,     \* on Arc: what the vault holds for each mandate
    deposit,  \* on Arc: the deposits made, by reference
    relayed,  \* on Arc: authorisations the vault has consumed
    paying    \* on Arc: payouts in the escrow, unclaimed as yet

arcVars == <<fund, deposit, relayed, paying>>
legVars == <<bondOf, invoice, now, mandate, match, exposure, matchOf, attempts,
             credited, auth, paper, lock, fund, deposit, relayed, paying>>

Deposit == [mandate : Mandates \cup {Null}, amount : Nat]
NoDeposit == [mandate |-> Null, amount |-> 0]

LegsTypeOK ==
    /\ TypeOK
    /\ fund \in [Mandates -> Nat]
    /\ deposit \in [Refs -> Deposit]
    /\ relayed \subseteq 1..Len(auth)
    /\ paying \subseteq relayed

LegsInit ==
    /\ Init
    /\ fund = [m \in Mandates |-> 0]
    /\ deposit = [r \in Refs |-> NoDeposit]
    /\ relayed = {}
    /\ paying = {}

Made(r) == deposit[r].mandate # Null
Unissued == {r \in Refs : ~Made(r)}

(* References are minted in order; a deposit needs the mandate registered   *)
(* with the vault, which follows its posting.                               *)
MakeDeposit(m, n) ==
    /\ n > 0
    /\ mandate[m].status # "uninitialised"
    /\ Unissued # {}
    /\ deposit' = [deposit EXCEPT ![Min(Unissued)] = [mandate |-> m, amount |-> n]]
    /\ fund' = [fund EXCEPT ![m] = @ + n]
    /\ UNCHANGED <<vars, relayed, paying>>

RelayDeposit(r) ==
    /\ Made(r)
    /\ CreditFunding(deposit[r].mandate, deposit[r].amount, r)
    /\ UNCHANGED arcVars

Honour(k) ==
    /\ k \notin relayed
    /\ auth[k].amount <= fund[auth[k].mandate]
    /\ relayed' = relayed \cup {k}
    /\ fund' = [fund EXCEPT ![auth[k].mandate] = @ - auth[k].amount]

RelayRelease(k) ==
    /\ auth[k].kind = "release"
    /\ Honour(k)
    /\ UNCHANGED <<vars, deposit, paying>>

RelayPayout(k) ==
    /\ auth[k].kind = "payout"
    /\ Honour(k)
    /\ paying' = paying \cup {k}
    /\ UNCHANGED <<vars, deposit>>

(* The seller takes the money.                                              *)
ClaimPayout(k) ==
    /\ k \in paying
    /\ paying' = paying \ {k}
    /\ UNCHANGED <<vars, fund, deposit, relayed>>

(* Mutated form: what comes back is credited under no reference of its own. *)
ReclaimUnreferenced(k) ==
    /\ k \in paying /\ Unissued # {}
    /\ paying' = paying \ {k}
    /\ fund' = [fund EXCEPT ![auth[k].mandate] = @ + auth[k].amount]
    /\ UNCHANGED <<vars, relayed, deposit>>

(* Nobody claimed it in time: it comes back as a deposit like any other.    *)
ReclaimPayout(k) ==
    /\ k \in paying /\ Unissued # {}
    /\ paying' = paying \ {k}
    /\ fund' = [fund EXCEPT ![auth[k].mandate] = @ + auth[k].amount]
    /\ deposit' = [deposit EXCEPT ![Min(Unissued)] =
                      [mandate |-> auth[k].mandate, amount |-> auth[k].amount]]
    /\ UNCHANGED <<vars, relayed>>

OnArc ==
    \/ \E m \in Mandates, n \in Amounts : MakeDeposit(m, n)
    \/ \E k \in 1..Len(auth) :
           RelayRelease(k) \/ RelayPayout(k) \/ ClaimPayout(k) \/ ReclaimPayout(k)

LegsNext ==
    \/ Step /\ UNCHANGED arcVars
    \/ \E r \in Refs : RelayDeposit(r)
    \/ OnArc

LegsSpec == LegsInit /\ [][LegsNext]_legVars

(* A relay that is slow but does not give up, and blocks that come.         *)
LegsFairSpec ==
    /\ LegsSpec
    /\ WF_legVars(Tick /\ UNCHANGED arcVars)
    /\ \A x \in MatchIds :
           /\ WF_legVars((\E l \in LockIds : ConfirmSettlement(x, l)) /\ UNCHANGED arcVars)
           /\ WF_legVars((\E u \in Users : CancelMatch(u, x)) /\ UNCHANGED arcVars)
    /\ \A k \in 1..(MaxAuths + Cardinality(MatchIds)) :
           WF_legVars(k <= Len(auth) /\ RelayPayout(k))

-----------------------------------------------------------------------------

AmountOf == [r \in Refs |-> deposit[r].amount]
AuthAmount == [k \in 1..Len(auth) |-> auth[k].amount]
Uncredited(m) == {r \in Refs \ credited : deposit[r].mandate = m}
Unrelayed(m) == {k \in 1..Len(auth) : k \notin relayed /\ auth[k].mandate = m}

(* What the vault holds for a mandate is, to the unit, what the book counts *)
(* for it, what was deposited and not relayed yet, and what was authorised  *)
(* and not relayed yet.  So the book never counts capital the vault could   *)
(* not pay, nothing is stranded, and no relay of an authorisation reverts.  *)
Conserved ==
    \A m \in Mandates :
        fund[m] = mandate[m].committed
                      + Total(AmountOf, Uncredited(m))
                      + Total(AuthAmount, Unrelayed(m))

(* A buyer who has taken the paper pays for it: the delivery is confirmed   *)
(* and the price leaves the vault, whoever sleeps on either chain.          *)
PaidFor(x) == \E k \in relayed : auth[k].ref = x
DeliveryIsPaid ==
    \A x \in MatchIds :
        (\E l \in LockIds : Delivered(x, l)) ~> PaidFor(x)
=============================================================================

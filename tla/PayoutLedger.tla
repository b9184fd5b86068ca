---------------------------- MODULE PayoutLedger ----------------------------
(***************************************************************************)
(* What the cash leg promises of the payout of a match, with no word of    *)
(* locks, transfers or authorisations: it is bound once to a mandate, a    *)
(* seller and a price; it leaves that mandate's fund once; it is paid      *)
(* while its window is open, or returned to that fund afterwards, and      *)
(* never both.                                                             *)
(***************************************************************************)
EXTENDS Integers

CONSTANTS Mandates, Matches, Sellers, Window, Null

VARIABLES
    fund,   \* what each mandate has in custody
    stage,  \* how far each match has come
    terms,  \* what each match was bound to
    due,    \* the instants at which its window closes: none, or one
    now

vars == <<fund, stage, terms, due, now>>

NoTerms == [mandate |-> Null, seller |-> Null, price |-> 0]

Init ==
    /\ fund = [m \in Mandates |-> 0]
    /\ stage = [x \in Matches |-> "unbound"]
    /\ terms = [x \in Matches |-> NoTerms]
    /\ due = [x \in Matches |-> {}]
    /\ now = 0

(* A deposit, or a release to the buyer.                                    *)
Fund(m) ==
    /\ fund'[m] \in Nat
    /\ fund' = [fund EXCEPT ![m] = fund'[m]]
    /\ UNCHANGED <<stage, terms, due, now>>

Bind(x) ==
    /\ stage[x] = "unbound"
    /\ terms'[x] \in [mandate : Mandates, seller : Sellers, price : Nat \ {0}]
    /\ terms' = [terms EXCEPT ![x] = terms'[x]]
    /\ stage' = [stage EXCEPT ![x] = "bound"]
    /\ UNCHANGED <<fund, due, now>>

PayOut(x) ==
    /\ stage[x] = "bound"
    /\ terms[x].price <= fund[terms[x].mandate]
    /\ fund' = [fund EXCEPT ![terms[x].mandate] = @ - terms[x].price]
    /\ stage' = [stage EXCEPT ![x] = "open"]
    /\ due' = [due EXCEPT ![x] = {now + Window}]
    /\ UNCHANGED <<terms, now>>

Pay(x) ==
    /\ stage[x] = "open"
    /\ \A d \in due[x] : now < d
    /\ stage' = [stage EXCEPT ![x] = "paid"]
    /\ UNCHANGED <<fund, terms, due, now>>

Return(x) ==
    /\ stage[x] = "open"
    /\ \A d \in due[x] : now >= d
    /\ fund' = [fund EXCEPT ![terms[x].mandate] = @ + terms[x].price]
    /\ stage' = [stage EXCEPT ![x] = "returned"]
    /\ UNCHANGED <<terms, due, now>>

Pass == now' = now + 1 /\ UNCHANGED <<fund, stage, terms, due>>

Next ==
    \/ \E m \in Mandates : Fund(m)
    \/ \E x \in Matches : Bind(x) \/ PayOut(x) \/ Pay(x) \/ Return(x)
    \/ Pass

Spec == Init /\ [][Next]_vars
=============================================================================

---------------------------- MODULE MandateVault ----------------------------
(***************************************************************************)
(* The cash leg on Arc: the vault that holds each mandate's USDC, and the  *)
(* escrow its payouts leave through.  The attester may relay anything, in  *)
(* any order and as often as it likes, and wallets call the escrow as they *)
(* please: what holds here holds by the contracts alone.  Deposit          *)
(* references are only ever written to events, and are left out.           *)
(***************************************************************************)
EXTENDS DvpEscrow, Totals

CONSTANTS
    Mandates,
    AuthIds,       \* authorisation ids the attester may name
    Amounts,       \* amounts a caller may name
    Durations,     \* how long a lock a wallet opens may run
    PayoutWindow   \* how long a payout may be claimed

ASSUME VaultAssumption ==
    /\ Null \notin Mandates /\ IsFiniteSet(Mandates)
    /\ Amounts \subseteq Nat /\ Durations \subseteq Nat
    /\ PayoutWindow \in MinLock..MaxLock

VARIABLES
    balance,     \* custody of each mandate
    buyer,       \* the only address its releases may pay
    payout,      \* the one payout each match admits
    payoutLock,  \* the match an open payout lock is for
    consumed,    \* authorisations that were used
    attester,    \* who may relay
    owner        \* who may rotate the attester

vaultVars == <<balance, buyer, payout, payoutLock, consumed>>
roleVars == <<attester, owner>>
vars == <<token, lock, revealed, now, balance, buyer, payout, payoutLock,
          consumed, attester, owner>>

Payout == [mandate : Mandates \cup {Null}, seller : Users \cup {Null},
           price : Nat, executed : BOOLEAN]
NoPayout == [mandate |-> Null, seller |-> Null, price |-> 0, executed |-> FALSE]

TypeOK ==
    /\ EscrowTypeOK
    /\ balance \in [Mandates -> Nat]
    /\ buyer \in [Mandates -> Users \cup {Null}]
    /\ payout \in [Matches -> Payout]
    /\ payoutLock \in [LockIds -> Matches \cup {Null}]
    /\ consumed \subseteq AuthIds
    /\ attester \in Users
    /\ owner \in Users

Init ==
    /\ EscrowInit
    /\ balance = [m \in Mandates |-> 0]
    /\ buyer = [m \in Mandates |-> Null]
    /\ payout = [x \in Matches |-> NoPayout]
    /\ payoutLock = [l \in LockIds |-> Null]
    /\ consumed = {}
    /\ attester \in Users
    /\ owner \in Users

-----------------------------------------------------------------------------

RegisterMandate(who, m, b) ==
    /\ who = attester
    /\ buyer[m] = Null
    /\ buyer' = [buyer EXCEPT ![m] = b]
    /\ UNCHANGED <<balance, payout, payoutLock, consumed, escrowVars, now, roleVars>>

(* Mutated form: a match may be bound again.                                *)
Rebind(who, x, m, s, price) ==
    /\ who = attester
    /\ price > 0
    /\ buyer[m] # Null
    /\ payout' = [payout EXCEPT ![x] = [mandate |-> m, seller |-> s, price |-> price,
                                        executed |-> payout[x].executed]]
    /\ UNCHANGED <<balance, buyer, payoutLock, consumed, escrowVars, now, roleVars>>

RegisterMatch(who, x, m, s, price) ==
    /\ who = attester
    /\ price > 0
    /\ buyer[m] # Null
    /\ payout[x].seller = Null
    /\ payout' = [payout EXCEPT ![x] = [mandate |-> m, seller |-> s, price |-> price,
                                        executed |-> FALSE]]
    /\ UNCHANGED <<balance, buyer, payoutLock, consumed, escrowVars, now, roleVars>>

Deposit(who, m, amount) ==
    /\ amount > 0
    /\ buyer[m] # Null
    /\ Transfer(who, Vault, amount)
    /\ balance' = [balance EXCEPT ![m] = @ + amount]
    /\ UNCHANGED <<buyer, payout, payoutLock, consumed, lock, revealed, now, roleVars>>

(* The guard of both outflows: single use, and within the mandate's own     *)
(* balance.                                                                 *)
Consume(auth, m, amount) ==
    /\ amount > 0
    /\ auth \notin consumed
    /\ amount <= balance[m]
    /\ consumed' = consumed \cup {auth}
    /\ balance' = [balance EXCEPT ![m] = @ - amount]

ExecuteRelease(who, auth, m, amount) ==
    /\ who = attester
    /\ buyer[m] # Null
    /\ Consume(auth, m, amount)
    /\ Transfer(Vault, buyer[m], amount)
    /\ UNCHANGED <<buyer, payout, payoutLock, lock, revealed, now, roleVars>>

ExecutePayout(who, auth, x, l, secret) ==
    LET p == payout[x] IN
    /\ who = attester
    /\ p.seller # Null
    /\ ~p.executed
    /\ Consume(auth, p.mandate, p.price)
    /\ payout' = [payout EXCEPT ![x].executed = TRUE]
    /\ payoutLock' = [payoutLock EXCEPT ![l] = x]
    /\ OpenLock(Vault, l, secret, x, p.seller, p.price, now + PayoutWindow)
    /\ UNCHANGED <<buyer, roleVars>>

(* Mutated form: the record is cleared and the mandate credited whether or  *)
(* not the escrow gives the money back.                                     *)
ReclaimUnrefunded(l) ==
    LET p == payout[payoutLock[l]] IN
    /\ payoutLock[l] # Null
    /\ payoutLock' = [payoutLock EXCEPT ![l] = Null]
    /\ balance' = [balance EXCEPT ![p.mandate] = @ + p.price]
    /\ UNCHANGED <<buyer, payout, consumed, escrowVars, now, roleVars>>

(* Anybody may bring an unclaimed payout back to the mandate it left.       *)
ReclaimPayout(l) ==
    LET p == payout[payoutLock[l]] IN
    /\ payoutLock[l] # Null
    /\ payoutLock' = [payoutLock EXCEPT ![l] = Null]
    /\ Refund(Vault, l)
    /\ balance' = [balance EXCEPT ![p.mandate] = @ + p.price]
    /\ UNCHANGED <<buyer, payout, consumed, roleVars>>

SetAttester(who, new) ==
    /\ who = owner
    /\ attester' = new
    /\ UNCHANGED <<owner, vaultVars, escrowVars, now>>

TransferOwnership(who, new) ==
    /\ who = owner
    /\ owner' = new
    /\ UNCHANGED <<attester, vaultVars, escrowVars, now>>

-----------------------------------------------------------------------------

Administration(u, v) ==
    SetAttester(u, v) \/ TransferOwnership(u, v)

Relayed(u) ==
    \/ \E m \in Mandates, b \in Users : RegisterMandate(u, m, b)
    \/ \E x \in Matches, m \in Mandates, s \in Users, n \in Amounts :
           RegisterMatch(u, x, m, s, n)
    \/ \E a \in AuthIds, m \in Mandates, n \in Amounts : ExecuteRelease(u, a, m, n)
    \/ \E a \in AuthIds, x \in Matches, l \in LockIds, k \in Secrets :
           ExecutePayout(u, a, x, l, k)

(* The escrow called by a wallet of its own accord.                         *)
Escrowed(u) ==
    /\ \/ \E l \in LockIds, k \in Secrets, x \in Matches, v \in Users,
             n \in Amounts, d \in Durations : OpenLock(u, l, k, x, v, n, now + d)
       \/ \E l \in LockIds, k \in Secrets : Claim(u, l, k)
       \/ \E l \in LockIds : Refund(u, l)
    /\ UNCHANGED <<vaultVars, roleVars>>

Next ==
    \/ \E u, v \in Users : Administration(u, v)
    \/ \E u \in Users : Relayed(u) \/ Escrowed(u)
    \/ \E u \in Users, m \in Mandates, n \in Amounts : Deposit(u, m, n)
    \/ \E l \in LockIds : ReclaimPayout(l)
    \/ Tick /\ UNCHANGED <<vaultVars, roleVars>>

Spec == Init /\ [][Next]_vars

-----------------------------------------------------------------------------
(* What the contracts keep, whatever is relayed to them.                    *)

Locked == {l \in LockIds : lock[l].status = "locked"}
AmountOf == [l \in LockIds |-> lock[l].amount]

(* The vault holds exactly what its mandates' balances say, and the escrow  *)
(* exactly what its open locks say: no transfer of either can ever revert   *)
(* for want of money, and no mandate's capital pays for another's.          *)
Solvent ==
    /\ token[Vault] = Total(balance, Mandates)
    /\ token[Escrow] = Total(AmountOf, Locked)

PayoutLocks(x) == {l \in LockIds : lock[l].depositor = Vault /\ lock[l].ref = x}

(* One match, at most one payout ever, for the seller and the price it was  *)
(* bound to - the authorisations used, the lock ids already taken by other  *)
(* people's locks and the reclaimed payouts notwithstanding.                *)
PaidAsBound ==
    \A x \in Matches : \A l \in PayoutLocks(x) :
        /\ payout[x].executed
        /\ lock[l].beneficiary = payout[x].seller
        /\ lock[l].amount = payout[x].price
        /\ PayoutLocks(x) = {l}

(* A payout nobody has claimed can be brought back: the vault still knows   *)
(* which match, and so which mandate, its lock is for.                      *)
Reclaimable ==
    \A l \in LockIds :
        lock[l].status = "locked" /\ lock[l].depositor = Vault
            => payoutLock[l] = lock[l].ref

-----------------------------------------------------------------------------
(* The promise the contracts implement.                                     *)

Open(x) == \E l \in PayoutLocks(x) : lock[l].status = "locked"
Paid(x) == \E l \in PayoutLocks(x) : revealed[l] # Null
StageOf(x) ==
    IF payout[x].seller = Null THEN "unbound"
    ELSE IF ~payout[x].executed THEN "bound"
    ELSE IF Open(x) THEN "open"
    ELSE IF Paid(x) THEN "paid"
    ELSE "returned"
TermsOf(x) == [mandate |-> payout[x].mandate, seller |-> payout[x].seller,
               price |-> payout[x].price]
DueOf(x) == {lock[l].timeout : l \in PayoutLocks(x)}

Ledger == INSTANCE PayoutLedger WITH
    fund <- balance,
    stage <- [x \in Matches |-> StageOf(x)],
    terms <- [x \in Matches |-> TermsOf(x)],
    due <- [x \in Matches |-> DueOf(x)],
    Sellers <- Users,
    Window <- PayoutWindow

(* Vault and escrow together implement the payout ledger.                   *)
ImplementsLedger == Ledger!Spec
=============================================================================

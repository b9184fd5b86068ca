------------------------------ MODULE DvpEscrow ------------------------------
(***************************************************************************)
(* The escrow contract on Arc: USDC under hash-time locks.  Anybody may    *)
(* open a lock out of their own money; its beneficiary may claim it with   *)
(* the preimage while it runs, its depositor may take it back afterwards.  *)
(* A call is one transaction, so one step.                                 *)
(***************************************************************************)
EXTENDS Integers, FiniteSets

CONSTANTS
    Users,    \* wallets on Arc
    Vault,    \* the address of the mandate vault
    Escrow,   \* the address of this contract
    Null,     \* the zero of any field
    LockIds,
    Secrets,  \* preimages; a lock is opened under the hash of one
    Matches,  \* what a lock may refer to
    MinLock,  \* shortest time a lock may run
    MaxLock,  \* longest
    Supply,   \* USDC every wallet holds at the start
    MaxTime   \* bound: the last instant modelled

Holders == Users \cup {Vault, Escrow}

ASSUME EscrowAssumption ==
    /\ Vault \notin Users /\ Escrow \notin Users /\ Vault # Escrow
    /\ Null \notin Holders \cup Secrets \cup Matches
    /\ IsFiniteSet(LockIds)
    /\ MinLock \in Nat /\ MaxLock \in Nat
    /\ Supply \in Nat /\ MaxTime \in Nat

VARIABLES
    token,     \* the ledger of USDC
    lock,
    revealed,  \* the preimages that claims have published
    now        \* block time

escrowVars == <<token, lock, revealed>>

Lock == [status : {"none", "locked", "claimed", "refunded"},
         secret : Secrets \cup {Null}, ref : Matches \cup {Null},
         depositor : Holders \cup {Null}, beneficiary : Holders \cup {Null},
         amount : Nat, timeout : Nat]
NoLock == [status |-> "none", secret |-> Null, ref |-> Null, depositor |-> Null,
           beneficiary |-> Null, amount |-> 0, timeout |-> 0]

EscrowTypeOK ==
    /\ token \in [Holders -> Nat]
    /\ lock \in [LockIds -> Lock]
    /\ revealed \in [LockIds -> Secrets \cup {Null}]
    /\ now \in Nat

EscrowInit ==
    /\ token = [h \in Holders |-> IF h \in Users THEN Supply ELSE 0]
    /\ lock = [l \in LockIds |-> NoLock]
    /\ revealed = [l \in LockIds |-> Null]
    /\ now = 0

(* A transfer reverts when the sender does not hold the amount.             *)
Transfer(from, to, amount) ==
    /\ amount <= token[from]
    /\ token' = [token EXCEPT ![from] = @ - amount, ![to] = @ + amount]

(* Mutated form: a lock id may be used again.                               *)
OpenAgain(from, l, secret, ref, to, amount, timeout) ==
    /\ amount > 0
    /\ Transfer(from, Escrow, amount)
    /\ lock' = [lock EXCEPT ![l] =
                   [status |-> "locked", secret |-> secret, ref |-> ref,
                    depositor |-> from, beneficiary |-> to, amount |-> amount,
                    timeout |-> timeout]]
    /\ UNCHANGED <<revealed, now>>

OpenLock(from, l, secret, ref, to, amount, timeout) ==
    /\ amount > 0
    /\ lock[l].status = "none"
    /\ now + MinLock <= timeout /\ timeout <= now + MaxLock
    /\ Transfer(from, Escrow, amount)
    /\ lock' = [lock EXCEPT ![l] =
                   [status |-> "locked", secret |-> secret, ref |-> ref,
                    depositor |-> from, beneficiary |-> to, amount |-> amount,
                    timeout |-> timeout]]
    /\ UNCHANGED <<revealed, now>>

(* Mutated form: the last instant of a claim is the first of a refund.      *)
ClaimAtTimeout(who, l, secret) ==
    /\ lock[l].status = "locked"
    /\ who = lock[l].beneficiary
    /\ now <= lock[l].timeout
    /\ secret = lock[l].secret
    /\ Transfer(Escrow, who, lock[l].amount)
    /\ lock' = [lock EXCEPT ![l].status = "claimed"]
    /\ revealed' = [revealed EXCEPT ![l] = secret]
    /\ UNCHANGED now

Claim(who, l, secret) ==
    /\ lock[l].status = "locked"
    /\ who = lock[l].beneficiary
    /\ now < lock[l].timeout
    /\ secret = lock[l].secret
    /\ Transfer(Escrow, who, lock[l].amount)
    /\ lock' = [lock EXCEPT ![l].status = "claimed"]
    /\ revealed' = [revealed EXCEPT ![l] = secret]
    /\ UNCHANGED now

Refund(who, l) ==
    /\ lock[l].status = "locked"
    /\ who = lock[l].depositor
    /\ now >= lock[l].timeout
    /\ Transfer(Escrow, who, lock[l].amount)
    /\ lock' = [lock EXCEPT ![l].status = "refunded"]
    /\ UNCHANGED <<revealed, now>>

Tick ==
    /\ now < MaxTime
    /\ now' = now + 1
    /\ UNCHANGED escrowVars
=============================================================================

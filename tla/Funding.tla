------------------------------ MODULE Funding ------------------------------
(***************************************************************************)
(* The agent's funding command: it reads what a mandate lacks, approves    *)
(* the vault for that much of its wallet's USDC and deposits it.  Both     *)
(* writes go through Circle, which takes a request under an idempotency    *)
(* key, answers before anything happened and is then polled.  A request    *)
(* that is not waited out is unknown: it may still land, and the operator  *)
(* resumes the run under the same key.                                     *)
(*                                                                         *)
(* Amounts are USDC units.  Mandates are registered to the wallet, whose   *)
(* transactions land in the order of their nonces.                         *)
(***************************************************************************)
EXTENDS Integers, Sequences, SequencesExt

CONSTANTS
    Bids,       \* the buyer's mandates
    Required,   \* what the venue asks to see behind each
    Keys,       \* idempotency keys an operator may name
    Wealth,     \* USDC in the wallet to begin with
    Outside,    \* bound: what others ever deposit behind one mandate
    Outflow,    \* bound: what ever leaves the vault for one mandate
    Runs        \* bound: runs of the command

ASSUME FundingAssumption ==
    /\ Bids # {} /\ Keys # {}
    /\ Required \in [Bids -> Nat]
    /\ Wealth \in Nat /\ Outside \in Nat /\ Outflow \in Nat /\ Runs \in Nat

VARIABLES
    wallet,     \* USDC in the wallet
    allowance,  \* what the vault may still pull from it
    posted,     \* mandate |-> what the wallet deposited behind it
    given,      \* mandate |-> what others did, or a payout brought back
    spent,      \* mandate |-> what left the vault for it
    request,    \* what Circle has under each key: its state and its amount
    queue,      \* requests that may still land, in the order of their nonces
    run,        \* the run under way, or the last one
    said,       \* mandate |-> what the operator last heard of it
    runs        \* runs begun so far

chainVars == <<wallet, allowance, posted, given, spent>>
circleVars == <<request, queue>>
fundingVars == <<wallet, allowance, posted, given, spent, request, queue, run, said,
                 runs>>

Writes == {"approve", "deposit"}
RequestIds == Keys \X Bids \X Writes
Request == [state : {"none", "live", "succeeded", "failed"}, amount : Nat]

Phases == {"idle", "next", "plan", "approve", "approving", "deposit", "depositing",
           "recheck"}
Run == [phase : Phases, key : Keys, left : SUBSET Bids, budget : Int,
        mandate : Bids, before : Int, amount : Nat,
        result : {"succeeded", "failed", "unknown"}]

Said == {"nothing", "begun", "backed", "deposited", "failed", "unknown"}

(* What the vault answers for a mandate.                                    *)
BalanceOf(m) == posted[m] + given[m] - spent[m]

FundingInit ==
    /\ wallet = Wealth
    /\ allowance = 0
    /\ posted = [m \in Bids |-> 0]
    /\ given = [m \in Bids |-> 0]
    /\ spent = [m \in Bids |-> 0]
    /\ request = [id \in RequestIds |-> [state |-> "none", amount |-> 0]]
    /\ queue = <<>>
    /\ run = [phase |-> "idle", key |-> CHOOSE k \in Keys : TRUE, left |-> {},
              budget |-> 0, mandate |-> CHOOSE m \in Bids : TRUE, before |-> 0,
              amount |-> 0, result |-> "unknown"]
    /\ said = [m \in Bids |-> "nothing"]
    /\ runs = 0

FundingTypeOK ==
    /\ wallet \in Nat /\ allowance \in Nat
    /\ posted \in [Bids -> Nat]
    /\ given \in [Bids -> Nat]
    /\ spent \in [Bids -> Nat]
    /\ \A m \in Bids : BalanceOf(m) >= 0
    /\ request \in [RequestIds -> Request]
    /\ queue \in Seq(RequestIds)
    /\ \A id \in RequestIds : request[id].state = "live" <=> id \in Range(queue)
    /\ run \in Run
    /\ said \in [Bids -> Said]
    /\ runs \in 0..Runs

-----------------------------------------------------------------------------
(* The operator.                                                            *)

(* An operator who has not heard the end of a mandate resumes under its     *)
(* key, as told to, and uses no key twice otherwise.  The key is one the    *)
(* operator named: one the command drew is printed only at the end.         *)
Unheard == {m \in Bids : said[m] \in {"begun", "unknown"}}
Fresh(k) == \A m \in Bids, w \in Writes : request[<<k, m, w>>].state = "none"

Start(k, targets) ==
    /\ run.phase = "idle" /\ runs < Runs
    /\ IF Unheard # {} THEN k = run.key ELSE Fresh(k)
    /\ targets # {}
    /\ run' = [run EXCEPT !.phase = "next", !.key = k, !.left = targets,
                          !.budget = wallet]
    /\ runs' = runs + 1
    /\ UNCHANGED <<chainVars, circleVars, said>>

-----------------------------------------------------------------------------
(* One mandate after another.                                               *)

Id(write) == <<run.key, run.mandate, write>>

(* The mandate is done with; what was not refused or failed is spent.       *)
MoveOn(outcome, cost) ==
    /\ run' = [run EXCEPT !.phase = "next", !.left = @ \ {run.mandate},
                          !.budget = @ - cost]
    /\ said' = [said EXCEPT ![run.mandate] = outcome]

Finish ==
    /\ run.phase = "next" /\ run.left = {}
    /\ run' = [run EXCEPT !.phase = "idle"]
    /\ UNCHANGED <<chainVars, circleVars, said, runs>>

(* The vault's balance is read before its allowance.                        *)
ReadVault(m) ==
    /\ run.phase = "next" /\ m \in run.left
    /\ run' = [run EXCEPT !.phase = "plan", !.mandate = m, !.before = BalanceOf(m)]
    /\ UNCHANGED <<chainVars, circleVars, said, runs>>

Unreadable ==
    /\ run.phase = "plan"
    /\ MoveOn(said[run.mandate], 0)
    /\ UNCHANGED <<chainVars, circleVars, runs>>

Shortfall == Required[run.mandate] - run.before

(* What the requirement and the balance ask for; approved first unless the  *)
(* allowance that stands covers it.                                         *)
PlanDeposit ==
    /\ run.phase = "plan"
    /\ \/ /\ Shortfall <= 0
          /\ MoveOn("backed", 0)
       \/ /\ Shortfall > run.budget /\ Shortfall > 0
          /\ MoveOn(said[run.mandate], 0)
       \/ /\ Shortfall \in 1..run.budget
          /\ run' = [run EXCEPT !.amount = Shortfall,
                                !.phase = IF allowance >= Shortfall
                                          THEN "deposit" ELSE "approve"]
          /\ UNCHANGED said
    /\ UNCHANGED <<chainVars, circleVars, runs>>

(* Circle takes a request once and answers its repeats with what it has.    *)
Submitted(write) ==
    IF request[Id(write)].state = "none"
    THEN /\ request' = [request EXCEPT ![Id(write)] =
                           [state |-> "live", amount |-> run.amount]]
         /\ queue' = Append(queue, Id(write))
    ELSE UNCHANGED circleVars

Approve ==
    /\ run.phase = "approve"
    /\ Submitted("approve")
    /\ run' = [run EXCEPT !.phase = "approving"]
    /\ said' = [said EXCEPT ![run.mandate] = "begun"]
    /\ UNCHANGED <<chainVars, runs>>

(* Mutated form: a transaction that is not waited out is given up as failed.*)
GivenUpAsFailed(write) == {"failed"} \cup ({"succeeded"} \cap {request[Id(write)].state})

(* What the poll may end with: an answer, or none, because the request is   *)
(* live or stuck or because Circle could not be read in time.               *)
Results(write) == {"unknown"} \cup ({"succeeded", "failed"} \cap {request[Id(write)].state})

ApprovalAwaited ==
    /\ run.phase = "approving"
    /\ \E result \in Results("approve") :
         \/ /\ result = "succeeded"
            /\ run' = [run EXCEPT !.phase = "deposit"]
            /\ UNCHANGED said
         \/ /\ result = "failed"
            /\ MoveOn("failed", 0)
         \/ /\ result = "unknown"
            /\ MoveOn("unknown", run.amount)
    /\ UNCHANGED <<chainVars, circleVars, runs>>

MakeDeposit ==
    /\ run.phase = "deposit"
    /\ Submitted("deposit")
    /\ run' = [run EXCEPT !.phase = "depositing"]
    /\ said' = [said EXCEPT ![run.mandate] = "begun"]
    /\ UNCHANGED <<chainVars, runs>>

DepositAwaited ==
    /\ run.phase = "depositing"
    /\ \E result \in Results("deposit") :
         run' = [run EXCEPT !.phase = "recheck", !.result = result]
    /\ UNCHANGED <<chainVars, circleVars, said, runs>>

Landed == BalanceOf(run.mandate) >= run.before + run.amount

(* The vault is read again, if it can be: a balance that grew by the amount *)
(* outweighs a poll without an answer, and nothing outweighs a refusal.     *)
Conclude ==
    /\ run.phase = "recheck"
    /\ \/ /\ run.result = "failed"
          /\ MoveOn("failed", 0)
       \/ /\ \/ run.result = "succeeded"
             \/ run.result = "unknown" /\ Landed
          /\ MoveOn("deposited", run.amount)
       \/ /\ run.result = "unknown"
          /\ MoveOn("unknown", run.amount)
    /\ UNCHANGED <<chainVars, circleVars, runs>>

(* A call to Circle throws, before or after it was taken, or the operator   *)
(* stops the process: nothing is printed of this mandate or the next ones.  *)
Die ==
    /\ run.phase # "idle"
    /\ run' = [run EXCEPT !.phase = "idle", !.left = {}]
    /\ UNCHANGED <<chainVars, circleVars, said, runs>>

-----------------------------------------------------------------------------
(* Circle and Arc.                                                          *)

Execute(id) ==
    LET n == request[id].amount
        m == id[2]
        covered == n <= allowance /\ n <= wallet IN
    \/ /\ id[3] = "approve"
       /\ allowance' = n
       /\ request' = [request EXCEPT ![id].state = "succeeded"]
       /\ UNCHANGED <<wallet, posted, given, spent>>
    \/ /\ id[3] = "deposit" /\ covered
       /\ allowance' = allowance - n
       /\ wallet' = wallet - n
       /\ posted' = [posted EXCEPT ![m] = @ + n]
       /\ request' = [request EXCEPT ![id].state = "succeeded"]
       /\ UNCHANGED <<given, spent>>
    \/ /\ id[3] = "deposit" /\ ~covered
       /\ request' = [request EXCEPT ![id].state = "failed"]
       /\ UNCHANGED chainVars

Land ==
    /\ queue # <<>>
    /\ Execute(Head(queue))
    /\ queue' = Tail(queue)
    /\ UNCHANGED <<run, said, runs>>

(* Denied, cancelled, or failed before it was ever broadcast.               *)
Dropped(n) ==
    /\ request' = [request EXCEPT ![queue[n]].state = "failed"]
    /\ queue' = RemoveAt(queue, n)
    /\ UNCHANGED <<chainVars, run, said, runs>>

(* Anybody may deposit behind a mandate, and payouts and releases leave it. *)
OthersDeposit(m) ==
    /\ given[m] < Outside
    /\ given' = [given EXCEPT ![m] = @ + 1]
    /\ UNCHANGED <<wallet, allowance, posted, spent, circleVars, run, said, runs>>

Leaves(m) ==
    /\ spent[m] < Outflow /\ BalanceOf(m) > 0
    /\ spent' = [spent EXCEPT ![m] = @ + 1]
    /\ UNCHANGED <<wallet, allowance, posted, given, circleVars, run, said, runs>>

-----------------------------------------------------------------------------

Command ==
    \/ \E m \in Bids : ReadVault(m)
    \/ Unreadable \/ PlanDeposit \/ Approve \/ ApprovalAwaited \/ MakeDeposit
    \/ DepositAwaited \/ Conclude \/ Finish

FundingNext ==
    \/ \E k \in Keys, targets \in SUBSET Bids : Start(k, targets)
    \/ Command
    \/ Die
    \/ Land
    \/ \E n \in DOMAIN queue : Dropped(n)
    \/ \E m \in Bids : OthersDeposit(m) \/ Leaves(m)

FundingSpec == FundingInit /\ [][FundingNext]_fundingVars

-----------------------------------------------------------------------------

(* However runs time out, die and are resumed, the wallet never puts more   *)
(* behind a mandate than was asked of it and has left the vault since: no   *)
(* shortfall is made up twice.  Only a run that was resumed and then failed *)
(* to approve lets it be: it is told that no capital moved, while the       *)
(* deposit it made the first time may still land.                           *)
ToldNothingMoved(m) ==
    \E k \in Keys : /\ request[<<k, m, "deposit">>].state # "none"
                    /\ request[<<k, m, "approve">>].state = "failed"

NothingPostedTwice ==
    \A m \in Bids :
        posted[m] <= Required[m] + spent[m] \/ ToldNothingMoved(m)
=============================================================================

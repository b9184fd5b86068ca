------------------------------ MODULE Receivable ------------------------------
(***************************************************************************)
(* A receivable before it is sold: its row is created, its instrument is   *)
(* issued by the queue of the backend, its debtor confirms or disputes it  *)
(* by mail, and its seller offers it.                                      *)
(*                                                                         *)
(* As in Settlement, requests and the queue's worker run alone until they  *)
(* await something outside the process, the process may die between two    *)
(* store writes, and `todo` is the write the running one still has to      *)
(* make.  A transaction that is sent may land and never be heard of, and   *)
(* one that is in flight when the process dies may land as well.           *)
(***************************************************************************)
EXTENDS Integers, Sequences, SequencesExt, FiniteSets, Functions

CONSTANTS
    Invoices,     \* ids of invoice rows
    Receivables,  \* commitments to (debtor, number, face)
    MaxRequests,  \* bound: create requests served at one time
    Links,        \* confirmation tokens
    Asked,        \* bound: invoices whose debtor is ever asked to confirm
    Rivals,       \* bound: receivables another venue may claim
    MaxAttempts,  \* deployments one process tries for one invoice
    ResumeLimit,  \* invoices a starting process reads back into its queue
    Lossy,        \* a deployment may land and be answered with an error
    MaxCrashes    \* bound: times the process may die

ASSUME ReceivableAssumption ==
    /\ IsFiniteSet(Invoices)
    /\ MaxAttempts \in Nat \ {0}
    /\ ResumeLimit \in Nat
    /\ Asked \subseteq Invoices
    /\ Rivals \subseteq Receivables
    /\ MaxCrashes \in Nat
    /\ Lossy \in BOOLEAN

None == "none"
NoRow == [status |-> "absent"]
InvoiceStatus == {"draft", "awaiting_confirmation", "confirmed", "disputed", "listed"}
IssuanceState == {"queued", "issuing", "issued", "failed"}
Answers == {"confirmed", "disputed"}

(* Bonds are numbered per invoice in the order they were deployed: a crash  *)
(* and every attempt can add one.                                          *)
Bonds == 1..(MaxAttempts * (MaxCrashes + 1))
NoBond == 0

VARIABLES
    up,        \* the process runs
    crashes,   \* deaths so far
    row,       \* invoice rows
    link,      \* confirmation_requests: each token's invoice and its marks
    asking,    \* create requests awaiting the registry about each receivable
    job,       \* the queue's own view of each invoice, lost with the process
    pending,   \* the queue
    worker,    \* what the queue's one worker awaits, and for which invoice
    telling,   \* setStatus(Confirmed) transactions in flight
    todo,      \* the store write that remains of what runs
    minted,    \* Hedera: bonds deployed for each invoice
    claim,     \* UniquenessRegistry
    record     \* InvoiceRegistry: the bond and status of each invoice

store == <<row, link>>
queue == <<job, pending, worker>>
chain == <<minted, claim, record>>
vars == <<up, crashes, row, link, asking, job, pending, worker, telling, todo,
          minted, claim, record>>

Row == [status : InvoiceStatus, receivable : Receivables, issuance : IssuanceState,
        bond : {NoBond} \cup Bonds, decision : Answers \cup {None}]
Mark == {"superseded", "expired", "consumed"}
Link == [invoice : Invoices, marks : SUBSET Mark]
NoLink == [invoice |-> None, marks |-> {}]
Job == [state : IssuanceState, attempts : 0..MaxAttempts, bond : {NoBond} \cup Bonds]
NoJob == [state |-> None, attempts |-> 0, bond |-> NoBond]
Idle == [awaits |-> "nothing"]
Worker == [awaits : {"pace", "deploy", "backoff", "claim", "list"}, invoice : Invoices]
NoTodo == [write |-> None]
Todo == [write : {"enqueue", "persist"}, invoice : Invoices]
Ours(i, b) == [invoice |-> i, bond |-> b]
Unclaimed == Ours(None, NoBond)
Elsewhere == Ours("elsewhere", NoBond)
NoRecord == [bond |-> NoBond, status |-> "unknown"]

TypeOK ==
    /\ up \in BOOLEAN
    /\ crashes \in 0..MaxCrashes
    /\ row \in [Invoices -> Row \cup {NoRow}]
    /\ link \in [Links -> Link \cup {NoLink}]
    /\ asking \in [Receivables -> 0..MaxRequests]
    /\ job \in [Invoices -> Job \cup {NoJob}]
    /\ pending \in Seq(Invoices) /\ Len(pending) <= Cardinality(Invoices)
    /\ worker \in Worker \cup {Idle}
    /\ telling \subseteq Invoices
    /\ todo \in Todo \cup {NoTodo}
    /\ minted \in [Invoices -> {NoBond} \cup Bonds]
    /\ claim \in [Receivables -> [invoice : Invoices, bond : Bonds] \cup {Unclaimed, Elsewhere}]
    /\ record \in [Invoices -> [bond : {NoBond} \cup Bonds,
                                status : {"unknown", "draft", "confirmed"}]]

Init ==
    /\ up = TRUE
    /\ crashes = 0
    /\ row = [i \in Invoices |-> NoRow]
    /\ link = [l \in Links |-> NoLink]
    /\ asking = [h \in Receivables |-> 0]
    /\ job = [i \in Invoices |-> NoJob]
    /\ pending = <<>>
    /\ worker = Idle
    /\ telling = {}
    /\ todo = NoTodo
    /\ minted = [i \in Invoices |-> NoBond]
    /\ claim = [h \in Receivables |-> Unclaimed]
    /\ record = [i \in Invoices |-> NoRecord]

Running == up /\ todo = NoTodo
Exists(i) == row[i] # NoRow
Issued(i) == row[i].bond # NoBond

-----------------------------------------------------------------------------
(* Creation.                                                               *)

(* Bound: receivables are raised while there are rows left to hold them.    *)
AskRegistry(h) ==
    /\ Running
    /\ \E i \in Invoices : ~Exists(i)
    /\ FoldFunction(LAMBDA n, m : n + m, 0, asking) < MaxRequests
    /\ asking' = [asking EXCEPT ![h] = @ + 1]
    /\ UNCHANGED <<up, crashes, store, queue, telling, todo, chain>>

NewRow(h) == [status |-> "draft", receivable |-> h, issuance |-> "queued",
              bond |-> NoBond, decision |-> None]
FreshRow == CHOOSE i \in Invoices : ~Exists(i)
RowsOf(h) == {i \in Invoices : Exists(i) /\ row[i].receivable = h}

(* Mutated form: only the registry is asked, and not the unique index.      *)
InsertUnchecked(h, i) ==
    /\ ~Exists(i) /\ i = FreshRow
    /\ row' = [row EXCEPT ![i] = NewRow(h)]
    /\ todo' = [write |-> "enqueue", invoice |-> i]

InsertRow(h, i) ==
    /\ ~Exists(i) /\ i = FreshRow
    /\ RowsOf(h) = {}
    /\ row' = [row EXCEPT ![i] = NewRow(h)]
    /\ todo' = [write |-> "enqueue", invoice |-> i]

(* Refused when the registry names a claim, or the row's unique index does. *)
(* An unreachable registry stands in the way of nothing.                    *)
RegistryAnswered(h) ==
    /\ Running
    /\ asking[h] > 0
    /\ asking' = [asking EXCEPT ![h] = @ - 1]
    /\ \E reached \in BOOLEAN :
          \/ /\ ~(reached /\ claim[h] # Unclaimed)
             /\ \E i \in Invoices : InsertRow(h, i)
          \/ /\ (reached /\ claim[h] # Unclaimed) \/ RowsOf(h) # {}
             /\ UNCHANGED <<row, todo>>
    /\ UNCHANGED <<up, crashes, link, queue, telling, chain>>

(* The row shows the job as it stands when the write comes to it: an idle   *)
(* worker may have started it by then.                                     *)
Enqueue(i) ==
    /\ up
    /\ todo = [write |-> "enqueue", invoice |-> i]
    /\ todo' = NoTodo
    /\ IF job[i].state \in {None, "failed"}
       THEN /\ job' = [job EXCEPT ![i].state = "queued", ![i].bond = NoBond]
            /\ pending' = Append(pending, i)
            /\ \E shown \in {"queued"} \cup (IF worker = Idle /\ pending = <<>>
                                             THEN {"issuing"} ELSE {}) :
                  row' = [row EXCEPT ![i].issuance = shown]
       ELSE UNCHANGED <<row, job, pending>>
    /\ UNCHANGED <<up, crashes, link, asking, worker, telling, chain>>

-----------------------------------------------------------------------------
(* The issuance queue: one worker, one deployment at a time.               *)

At(awaits) == Running /\ worker.awaits = awaits

Take ==
    /\ Running
    /\ worker = Idle /\ pending # <<>>
    /\ worker' = [awaits |-> "pace", invoice |-> Head(pending)]
    /\ pending' = Tail(pending)
    /\ UNCHANGED <<up, crashes, store, asking, job, telling, todo, chain>>

Submit ==
    /\ At("pace")
    /\ worker' = [worker EXCEPT !.awaits = "deploy"]
    /\ job' = [job EXCEPT ![worker.invoice].state = "issuing",
                          ![worker.invoice].attempts = @ + 1]
    /\ UNCHANGED <<up, crashes, store, asking, pending, telling, todo, chain>>

BondLands(i, landed) ==
    minted' = IF landed THEN [minted EXCEPT ![i] = @ + 1] ELSE minted

MayRetry(attempts) == attempts < MaxAttempts

(* "busy" is any error the queue takes to be worth a retry; a deployment    *)
(* that timed out may have landed.                                         *)
DeployAnswered ==
    /\ At("deploy")
    /\ LET i == worker.invoice IN
       \E reply \in {"deployed", "busy", "refused"}, landed \in BOOLEAN :
          /\ reply = "deployed" => landed
          /\ landed => Lossy \/ reply = "deployed"
          /\ BondLands(i, landed)
          /\ job' = [job EXCEPT
                ![i].state = IF reply = "deployed" THEN "issued"
                             ELSE IF reply = "busy" /\ MayRetry(job[i].attempts)
                                  THEN "queued" ELSE "failed",
                ![i].bond = IF reply = "deployed" THEN minted[i] + 1 ELSE NoBond]
          /\ todo' = [write |-> "persist", invoice |-> i]
    /\ UNCHANGED <<up, crashes, store, asking, pending, worker, telling, claim, record>>

(* The sink: the row, and after it, for an instrument, the two registries.  *)
Persist(i) ==
    /\ up
    /\ todo = [write |-> "persist", invoice |-> i]
    /\ todo' = NoTodo
    /\ row' = [row EXCEPT ![i].issuance = job[i].state,
                          ![i].bond = IF job[i].bond = NoBond THEN @ ELSE job[i].bond]
    /\ worker' = CASE job[i].state = "issued" -> [worker EXCEPT !.awaits = "claim"]
                    [] job[i].state = "queued" -> [worker EXCEPT !.awaits = "backoff"]
                    [] OTHER -> Idle
    /\ UNCHANGED <<up, crashes, link, asking, job, pending, telling, chain>>

BackoffEnds ==
    /\ At("backoff")
    /\ worker' = Idle
    /\ pending' = Append(pending, worker.invoice)
    /\ UNCHANGED <<up, crashes, store, asking, job, telling, todo, chain>>

(* A claim binds once.  One that reverts, or is never heard of, is logged.  *)
ClaimLands(i) ==
    \/ UNCHANGED claim
    \/ /\ claim[row[i].receivable] = Unclaimed
       /\ claim' = [claim EXCEPT ![row[i].receivable] = Ours(i, job[i].bond)]

ClaimAnswered ==
    /\ At("claim")
    /\ ClaimLands(worker.invoice)
    /\ worker' = [worker EXCEPT !.awaits = "list"]
    /\ UNCHANGED <<up, crashes, store, asking, job, pending, telling, todo, minted, record>>

(* The registry lists only what is claimed for the bond it is listed with.  *)
ListingLands(i) ==
    \/ UNCHANGED record
    \/ /\ record[i] = NoRecord
       /\ claim[row[i].receivable] = Ours(i, job[i].bond)
       /\ record' = [record EXCEPT ![i] = [bond |-> job[i].bond, status |-> "draft"]]

ListingAnswered ==
    /\ At("list")
    /\ ListingLands(worker.invoice)
    /\ worker' = Idle
    /\ UNCHANGED <<up, crashes, store, asking, job, pending, telling, todo, minted, claim>>

-----------------------------------------------------------------------------
(* Confirmation.                                                           *)

Superseded(l, i) ==
    IF link[l].invoice = i /\ "consumed" \notin link[l].marks
    THEN [link[l] EXCEPT !.marks = @ \cup {"superseded"}]
    ELSE link[l]

FreshLink == CHOOSE l \in Links : link[l] = NoLink

RequestConfirmation(i, l) ==
    /\ Running
    /\ i \in Asked
    /\ Exists(i) /\ link[l] = NoLink /\ l = FreshLink
    /\ row[i].decision = None
    /\ row[i].status \in {"draft", "awaiting_confirmation"}
    /\ link' = [k \in Links |-> IF k = l THEN [invoice |-> i, marks |-> {}]
                                ELSE Superseded(k, i)]
    /\ row' = [row EXCEPT ![i].status = "awaiting_confirmation"]
    /\ UNCHANGED <<up, crashes, asking, queue, telling, todo, chain>>

(* The clock, told of only where it matters: a link that is still live.     *)
Expire(l) ==
    /\ link[l] # NoLink /\ link[l].marks = {}
    /\ link' = [link EXCEPT ![l].marks = @ \cup {"expired"}]
    /\ UNCHANGED <<up, crashes, row, asking, queue, telling, todo, chain>>

(* Mutated form: a link that a newer one replaced still counts.             *)
StillLive(l) == link[l] # NoLink /\ link[l].marks \cap {"consumed", "expired"} = {}

Live(l) == link[l] # NoLink /\ link[l].marks = {}

(* Mutated form: the registry is told of an answer, whatever it is.         *)
TellsOfAny(answer) == TRUE

Tells(answer) == answer = "confirmed"

Decide(l, answer) ==
    /\ Running
    /\ Live(l)
    /\ link' = [link EXCEPT ![l].marks = @ \cup {"consumed"}]
    /\ row' = [row EXCEPT ![link[l].invoice].status = answer,
                          ![link[l].invoice].decision = answer]
    /\ telling' = IF Tells(answer) THEN telling \cup {link[l].invoice} ELSE telling
    /\ UNCHANGED <<up, crashes, asking, queue, todo, chain>>

(* The registry takes the status of a draft only; nothing retries it.       *)
TellingEnds(i) ==
    /\ i \in telling
    /\ telling' = telling \ {i}
    /\ \/ UNCHANGED record
       \/ /\ record[i].status = "draft"
          /\ record' = [record EXCEPT ![i].status = "confirmed"]
    /\ UNCHANGED <<up, crashes, store, asking, queue, todo, minted, claim>>

(* The seller offers the paper, or takes the offer back, before any sale:   *)
(* Settlement has what follows.                                            *)
Offer(i) ==
    /\ Running
    /\ Exists(i) /\ row[i].status = "confirmed" /\ Issued(i)
    /\ row' = [row EXCEPT ![i].status = "listed"]
    /\ UNCHANGED <<up, crashes, link, asking, queue, telling, todo, chain>>

Withdraw(i) ==
    /\ Running
    /\ Exists(i) /\ row[i].status = "listed"
    /\ row' = [row EXCEPT ![i].status = "confirmed"]
    /\ UNCHANGED <<up, crashes, link, asking, queue, telling, todo, chain>>

-----------------------------------------------------------------------------
(* Crash and restart, and the other issuers of the registry.               *)

(* What the worker sent may land after the process is gone.                 *)
InFlightLands ==
    LET sent == todo = NoTodo /\ worker # Idle IN
    /\ \/ UNCHANGED minted
       \/ sent /\ worker.awaits = "deploy" /\ BondLands(worker.invoice, TRUE)
    /\ IF sent /\ worker.awaits = "claim" THEN ClaimLands(worker.invoice)
       ELSE UNCHANGED claim
    /\ IF sent /\ worker.awaits = "list" THEN ListingLands(worker.invoice)
       ELSE UNCHANGED record

Crash ==
    /\ up /\ crashes < MaxCrashes
    /\ up' = FALSE
    /\ crashes' = crashes + 1
    /\ InFlightLands
    /\ telling' \in SUBSET telling
    /\ asking' = [h \in Receivables |-> 0]
    /\ job' = [i \in Invoices |-> NoJob]
    /\ pending' = <<>>
    /\ worker' = Idle
    /\ todo' = NoTodo
    /\ UNCHANGED store

(* Mutated form: everything that did not fail is queued again.              *)
NotFailed == {i \in Invoices : Exists(i) /\ row[i].issuance # "failed"}

(* Mutated form: an attempt that was under way is not taken up again.       *)
OnlyQueued == {i \in Invoices : Exists(i) /\ row[i].issuance = "queued"}

AwaitingIssuance == {i \in Invoices : Exists(i) /\ row[i].issuance \in {"queued", "issuing"}}

FirstOf(order) == SubSeq(order, 1, IF Len(order) < ResumeLimit THEN Len(order) ELSE ResumeLimit)

(* Resumed oldest first, whatever order they were created in; the first is  *)
(* shown as issuing when the worker starts it before the write.             *)
Restart ==
    /\ ~up
    /\ up' = TRUE
    /\ \E order \in SetToSeqs(AwaitingIssuance), first \in {"queued", "issuing"} :
          LET resumed == FirstOf(order) IN
          /\ pending' = resumed
          /\ job' = [i \in Invoices |->
                        IF i \in ToSet(resumed) THEN [NoJob EXCEPT !.state = "queued"]
                        ELSE NoJob]
          /\ row' = [i \in Invoices |->
                        IF i \notin ToSet(resumed) THEN row[i]
                        ELSE [row[i] EXCEPT !.issuance =
                                 IF i = Head(resumed) THEN first ELSE "queued"]]
    /\ UNCHANGED <<crashes, link, asking, worker, telling, todo, chain>>

ClaimedElsewhere(h) ==
    /\ h \in Rivals
    /\ claim[h] = Unclaimed
    /\ claim' = [claim EXCEPT ![h] = Elsewhere]
    /\ UNCHANGED <<up, crashes, store, asking, queue, telling, todo, minted, record>>

-----------------------------------------------------------------------------

StoreWrite == \E i \in Invoices : Enqueue(i) \/ Persist(i)

Work == Take \/ Submit \/ DeployAnswered \/ BackoffEnds \/ ClaimAnswered \/ ListingAnswered

Next ==
    \/ \E h \in Receivables : AskRegistry(h) \/ RegistryAnswered(h)
    \/ StoreWrite
    \/ Work
    \/ \E i \in Invoices, l \in Links : RequestConfirmation(i, l)
    \/ \E l \in Links : Expire(l) \/ \E answer \in Answers : Decide(l, answer)
    \/ \E i \in Invoices : TellingEnds(i) \/ Offer(i) \/ Withdraw(i)
    \/ Crash
    \/ Restart
    \/ \E h \in Receivables : ClaimedElsewhere(h)

Spec == Init /\ [][Next]_vars

(* A store write returns, the worker's sleeps and calls end, and a process  *)
(* that died is started again.                                             *)
FairSpec ==
    /\ Spec
    /\ WF_vars(StoreWrite)
    /\ WF_vars(Work)
    /\ WF_vars(Restart)

-----------------------------------------------------------------------------

(* One receivable has one row, however many requests raise it at once: the  *)
(* registry is asked before an await and answers about the past.            *)
OneRowPerReceivable ==
    \A i, j \in Invoices :
        Exists(i) /\ Exists(j) /\ row[i].receivable = row[j].receivable => i = j

(* What the chain says of a receivable is what the venue says of it: the    *)
(* bond we claimed it for, and listed it with, is the bond in its row,      *)
(* however many bonds crashes and retries have left behind.                 *)
RegistryFollowsRow ==
    \A i \in Invoices :
        /\ \A h \in Receivables, b \in Bonds :
              claim[h] = Ours(i, b) => row[i].receivable = h /\ row[i].bond = b
        /\ record[i] # NoRecord => claim[row[i].receivable] = Ours(i, record[i].bond)

(* A buyer who reads `confirmed` on chain reads what the debtor answered.   *)
ConfirmedOnChainIsAnswered ==
    \A i \in Invoices : record[i].status = "confirmed" => row[i].decision = "confirmed"

(* A debtor answers once: no link, old, new or used, changes the answer.    *)
AnswerStands ==
    [][\A i \in Invoices : Exists(i) /\ row[i].decision # None =>
           row'[i].decision = row[i].decision]_vars

(* An invoice that is being added is issued or failed in the end, whatever  *)
(* the worker was doing when the process died.                             *)
IssuanceConcludes ==
    \A i \in Invoices :
        Exists(i) ~> (Exists(i) /\ row[i].issuance \in {"issued", "failed"})
=============================================================================

--------------------------- MODULE InvoiceRegistry ---------------------------
(***************************************************************************)
(* The two registries on Hedera.  UniquenessRegistry binds a receivable's  *)
(* commitment to the one bond ever issued for it; InvoiceRegistry holds    *)
(* what an attester says of each invoice: its terms, its debtor's grade    *)
(* and how far along it is.  Issuers and attesters are those of the        *)
(* deployment, and they may relay anything at any time.                    *)
(***************************************************************************)
EXTENDS Integers, FiniteSets

CONSTANTS
    Invoices,     \* ids the venue may list under
    Bonds,        \* instruments
    Receivables,  \* commitments to (debtor, reference, face)
    Grades,       \* ratings, 0 the worst
    DueDates,     \* due dates an attester may name
    Null,         \* the zero of any field
    MaxTime       \* bound: the last instant modelled

ASSUME RegistryAssumption ==
    /\ Null \notin Invoices \cup Bonds \cup Receivables
    /\ Grades \subseteq Nat /\ DueDates \subseteq Nat
    /\ MaxTime \in Nat

VARIABLES
    bondOf,    \* UniquenessRegistry: the bond bound to each receivable
    invoice,   \* InvoiceRegistry: the record of each invoice
    now        \* block time

registryVars == <<bondOf, invoice>>

InvoiceStatus == {"unknown", "draft", "confirmed", "matched", "settled",
                  "repaid", "defaulted", "cancelled"}
Invoice == [status : InvoiceStatus, bond : Bonds \cup {Null},
            receivable : Receivables \cup {Null}, rating : Grades \cup {0}, due : Nat]
Unlisted == [status |-> "unknown", bond |-> Null, receivable |-> Null,
             rating |-> 0, due |-> 0]

RegistryTypeOK ==
    /\ bondOf \in [Receivables -> Bonds \cup {Null}]
    /\ invoice \in [Invoices -> Invoice]
    /\ now \in Nat

RegistryInit ==
    /\ bondOf = [h \in Receivables |-> Null]
    /\ invoice = [i \in Invoices |-> Unlisted]
    /\ now = 0

-----------------------------------------------------------------------------

(* A binding is written once.                                               *)
BindBond(h, b) ==
    /\ bondOf[h] = Null
    /\ bondOf' = [bondOf EXCEPT ![h] = b]
    /\ UNCHANGED <<invoice, now>>

ListedUnder(h) == {i \in Invoices : invoice[i].receivable = h}
ListedWith(b) == {i \in Invoices : invoice[i].bond = b}

(* Mutated form: only the receivable is asked whether it is listed already. *)
ListByReceivable(i, b, h, rating, due) ==
    /\ due > now
    /\ invoice[i].status = "unknown"
    /\ ListedUnder(h) = {}
    /\ bondOf[h] = b
    /\ invoice' = [invoice EXCEPT ![i] =
                      [status |-> "draft", bond |-> b, receivable |-> h,
                       rating |-> rating, due |-> due]]
    /\ UNCHANGED <<bondOf, now>>

List(i, b, h, rating, due) ==
    /\ due > now
    /\ invoice[i].status = "unknown"
    /\ ListedUnder(h) = {} /\ ListedWith(b) = {}
    /\ bondOf[h] = b
    /\ invoice' = [invoice EXCEPT ![i] =
                      [status |-> "draft", bond |-> b, receivable |-> h,
                       rating |-> rating, due |-> due]]
    /\ UNCHANGED <<bondOf, now>>

ValidTransitions ==
    {<<"draft", "confirmed">>, <<"draft", "cancelled">>,
     <<"confirmed", "matched">>, <<"confirmed", "cancelled">>,
     <<"matched", "settled">>, <<"matched", "confirmed">>,
     <<"settled", "repaid">>, <<"settled", "defaulted">>,
     <<"cancelled", "draft">>}

SetStatus(i, status) ==
    /\ <<invoice[i].status, status>> \in ValidTransitions
    /\ invoice' = [invoice EXCEPT ![i].status = status]
    /\ UNCHANGED <<bondOf, now>>

SetRating(i, rating) ==
    /\ invoice[i].status \in {"draft", "confirmed"}
    /\ invoice' = [invoice EXCEPT ![i].rating = rating]
    /\ UNCHANGED <<bondOf, now>>

AmendDueDate(i, due) ==
    /\ invoice[i].status = "draft"
    /\ due > now
    /\ invoice' = [invoice EXCEPT ![i].due = due]
    /\ UNCHANGED <<bondOf, now>>
============================================================================
